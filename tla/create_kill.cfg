SPECIFICATION RaceSpec
CONSTANTS
  Task = {t1, t2, t3}
  InitTask = t1
  NoTask = NoTask
  NAsid = 3
  InitCalls <- ShellCalls
  TaskCalls = {"sleep"}
  KillArgs <- OtherIds
  SleepArgs = {1}
  CPUSPEED = 1
  Word = 2
INVARIANTS DeadUnlinked
