SPECIFICATION Spec
CONSTANTS
  FileName = {"a", "b"}
  DirName = {"d"}
  BootArg <- MCBootArg
  MaxDepth = 2
  MaxCommands = 7
INVARIANTS TypeOK RefsBalanced MountedIsLive
PROPERTIES TreeNeedsMount 
CHECK_DEADLOCK FALSE
