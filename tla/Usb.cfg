SPECIFICATION FairSpec
CONSTANTS
  EP0Max = 2
  BulkMax = 2
  DmaSize = 4
  HwLimit = 6
  UploadSize = 4
  UploadMax = 8
  RecvCap = 2
  LinesMax = 1
  Requests <- MCRequests
  Uploads = {2, 4}
  Unruly = FALSE
INVARIANTS  UploadFlags BulkInBuffer InExact CommandSeesUpload
PROPERTIES ControlEnds UploadEnds
CHECK_DEADLOCK FALSE
