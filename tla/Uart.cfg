SPECIFICATION FairSpec
CONSTANTS
  Platforms = {"qemu", "apple"}
  FifoSize = 3
  MaxChars = 5
CHECK_DEADLOCK FALSE
INVARIANT NoBogusChar
INVARIANT ExitsLinked
PROPERTY InputServed
