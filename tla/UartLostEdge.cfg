SPECIFICATION Spec
CONSTANTS
  Platforms = {"qemu"}
  FifoSize = 3
  MaxChars = 5
CHECK_DEADLOCK FALSE
INVARIANT Rearmed
