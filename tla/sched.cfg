SPECIFICATION Spec
CONSTANTS
  Task = {t1, t2, t3}
  InitTask = t1
  NoTask = NoTask
  NAsid = 3
  InitCalls <- ShellCalls
  TaskCalls <- ThreadCalls
  KillArgs <- OtherIds
  SleepArgs = {0, 1}
  CPUSPEED = 1
  Word = 2
INVARIANTS TypeOK PlacedOnce AsidInv 
PROPERTIES HighestFirst WaitEndsWithTarget NoEarlyWake
