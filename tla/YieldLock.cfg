SPECIFICATION FairSpec
CONSTANTS
  A = A
  B = B
  C = C
  NoTask = NoTask
  Tasks = {A, B, C}
  Preemptible = {A, B, C}
  Spinners = {}
  After <- RingOrder
  Quantum = 4
INVARIANT MutualExclusion
INVARIANT HolderRecorded
PROPERTY LockSpec
PROPERTY NoStarvation
