SPECIFICATION Spec
CONSTANTS
  EP0Max = 2
  BulkMax = 2
  DmaSize = 4
  HwLimit = 6
  UploadSize = 6
  UploadMax = 8
  RecvCap = 3
  LinesMax = 2
  Requests <- MCRequests
  Uploads = {2, 4}
  Unruly = TRUE
INVARIANT SetupAccepted
CHECK_DEADLOCK FALSE
