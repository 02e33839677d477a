SPECIFICATION Spec
CONSTANTS
  NSpawn = 3
  NPages = 8
  NAsids = 2
  NVa = 5
  StackPages = 3
CHECK_DEADLOCK FALSE
INVARIANT AsidsExact
