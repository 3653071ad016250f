SPECIFICATION Spec
CONSTANTS
  Base = 2
  FatSize = 8
  SPC = 2
  CPS = 2
  FPS = 2
  Clusters = 5
  FAT_BUF_NUM = 2
  DIR_DATA_BUF_NUM = 2
  LOCAL_DATA_BUF_NUM = 2
  NoSector = NoSector
  Path <- MCPath
  Dir = {"d"}
  Text <- MCText
  Moves <- MCMoves
  Faults <- NoFaults
  MaxCommands = 5
PROPERTIES OthersKept
