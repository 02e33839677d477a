SPECIFICATION FairSpec
CONSTANTS
  Line <- ShortLine
  BufSize = 3
  ReadLen = 3
  LineMax = 4
  MaxLines = 1
  OutLen = 1
  OutMax = 2
  FetchLens = {1, 2}
CHECK_DEADLOCK FALSE
PROPERTY WriteReturns
