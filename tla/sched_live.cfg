SPECIFICATION FairSpec
CONSTANTS
  Task = {t1, t2, t3}
  InitTask = t1
  NoTask = NoTask
  NAsid = 4
  InitCalls <- ShellCalls
  TaskCalls <- BlockingCalls
  KillArgs <- OtherIds
  SleepArgs = {1}
  CPUSPEED = 1
  Word = 2
INVARIANTS NoLostTask
PROPERTIES SleeperWakes Served
