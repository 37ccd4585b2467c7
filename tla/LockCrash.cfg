SPECIFICATION FairSpec
CONSTANTS
  Procs = {p1, p2, p3}
  Waits = {Forever, 50}
  RetryStep = 50
  DefaultWait = 50
  MayFail = TRUE
  LongTasks = TRUE
  MaxTries = 0
  MaxClears = 2
  Forever = Forever
  NoLock = NoLock
  Orphan = Orphan
PROPERTIES EveryoneServed IsLeaseLock
