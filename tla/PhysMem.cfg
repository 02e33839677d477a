SPECIFICATION Spec
CONSTANTS
  NPages = 5
  PAGE_WIRED = 11
  MaxRefs = 9
  MaxHeld = 2
  MaxAlloc = 3
  StaticTail <- StaticTailValue
  Heap <- HeapValue
  VAs = {v1, v2}
  Entries = 4
CHECK_DEADLOCK FALSE
INVARIANT FreeListLinked
INVARIANT FreeListComplete
INVARIANT FreePagesExact
INVARIANT WiredPagesExact
INVARIANT RefsExact
INVARIANT OnlyOOMPanics
PROPERTY AllocFresh
 
