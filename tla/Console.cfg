SPECIFICATION BusySpec
CONSTANTS
  Line <- EditedLine
  BufSize = 3
  ReadLen = 2
  LineMax = 2
  MaxLines = 0
  OutLen = 3
  OutMax = 2
  FetchLens = {1, 2}
CHECK_DEADLOCK FALSE
INVARIANT StdinFifo
INVARIANT StdoutKept
INVARIANT NoMutualWait
PROPERTY CommandEnds
PROPERTY InputRead
