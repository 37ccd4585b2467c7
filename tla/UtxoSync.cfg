SPECIFICATION Spec
CONSTANTS
  Blocks <- Tree
  Genesis = "g"
  Parent <- TreeParent
  NoBlock = NoBlock
  FirstBest = "4"
  ThreadCount = 2
  MaxFailures = 1
  MaxRestarts = 1
  MaxDeaths = 1
INVARIANTS
  NoBlockLost
PROPERTIES
  NoNeedlessRollback
  SyncEnds
CHECK_DEADLOCK FALSE
