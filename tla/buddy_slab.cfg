SPECIFICATION SharedSpec
CONSTANTS
  MAX_BUDDY_ORDER = 1
  NPages = 2
  Requests = {1}
INVARIANTS FreeNotInUse
