SPECIFICATION Spec
CONSTANTS
  PAGE = 2
  Top = 12
  PerPgd = 4
  CodePages = 2
  Sizes = {0, 1, 9}
  MaxBlocks = 16
INVARIANTS
  TypeOK
  
  
  NothingLeft
PROPERTIES
  FreeOnce
CHECK_DEADLOCK FALSE
