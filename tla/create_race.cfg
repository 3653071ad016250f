SPECIFICATION RaceSpec
CONSTANTS
  Task = {t1, t2, t3}
  InitTask = t1
  NoTask = NoTask
  NAsid = 3
  InitCalls = {"pc_create"}
  TaskCalls <- PeacefulCalls
  KillArgs = {}
  SleepArgs = {1}
  CPUSPEED = 1
  Word = 2
INVARIANTS LinkedOnce
