SPECIFICATION Spec
CONSTANTS
  Procs = {p1, p2, p3}
  Waits = {Forever}
  RetryStep = 50
  DefaultWait = 50
  MayFail = FALSE
  LongTasks = FALSE
  MaxTries = 6
  MaxClears = 2
  Forever = Forever
  NoLock = NoLock
  Orphan = Orphan
INVARIANTS DefaultWaitIsHonoured
