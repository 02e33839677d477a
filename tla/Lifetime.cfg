SPECIFICATION FairSpec
CONSTANTS
  NSpawn = 3
  NPages = 8
  NAsids = 2
  NVa = 5
  StackPages = 3
CHECK_DEADLOCK FALSE
INVARIANT RefsExact
INVARIANT PagesExact
INVARIANT NoStaleTlb
INVARIANT StacksExclusive
PROPERTY ExitFreesAll
