SPECIFICATION PromptSpec
CONSTANTS
  Procs = {p1, p2, p3}
  Waits = {Forever, 0, 100}
  RetryStep = 50
  DefaultWait = 50
  MayFail = TRUE
  LongTasks = TRUE
  MaxTries = 6
  MaxClears = 2
  Forever = Forever
  NoLock = NoLock
  Orphan = Orphan
INVARIANTS MutualExclusion WaitIsHonoured
