SPECIFICATION Spec
CONSTANTS
  S = S
  M = M
  A = A
  H = H
  B = B
  NoTask = NoTask
  Tasks = {S, M, A, B, H}
  SchedTask = S
  Static = {S, M, B}
  Handlers = {B, H}
  CanExit = {A, M}
  Restarting = {}
  Waiters = {A, H}
  Events = {e1}
  NoEvent = NoEvent
  Irqs = {i1}
  NoIrq = NoIrq
  AckMasks = TRUE
  GLOBAL = 9
  MaxExtra = 1
  MaxIrqs = 3
  MaxCreates = 2
CHECK_DEADLOCK FALSE
INVARIANT RingOK
INVARIANT QueuesExact
INVARIANT NoDangling
INVARIANT RefsExact
INVARIANT IdleHandlersArmed
INVARIANT OnlyExitPanics
