SPECIFICATION FairSpec
CONSTANTS
  S = S
  M = M
  A = A
  H = H
  B = B
  NoTask = NoTask
  Tasks = {S, M, A, B, H}
  SchedTask = S
  Static = {S, M}
  Handlers = {H}
  CanExit = {A, M}
  Restarting = {M}
  Waiters = {M, A}
  Events = {e1}
  NoEvent = NoEvent
  Irqs = {i1}
  NoIrq = NoIrq
  AckMasks = FALSE
  GLOBAL = 9
  MaxExtra = 0
  MaxIrqs = 1
  MaxCreates = 3
CHECK_DEADLOCK FALSE
PROPERTY RunnableRuns
PROPERTY ExitedReaped
