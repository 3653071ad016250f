SPECIFICATION Spec
CONSTANTS
  MAX_BUDDY_ORDER = 2
  NPages = 8
  Requests = {1, 2, 3, 4, 5}
INVARIANTS TypeOK Partition Sorted Counted FailsOnlyWhenFull
PROPERTIES HandsOutDisjoint
