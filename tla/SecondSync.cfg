SPECIFICATION Spec
CONSTANTS
  Blocks <- Tree
  Genesis = "g"
  Parent <- TreeParent
  NoBlock = NoBlock
  FirstBest = "4"
  ThreadCount = 2
  MaxFailures = 1
  MaxRestarts = 1
  MaxDeaths = 1
PROPERTIES
  BatchOnlyGrows
CHECK_DEADLOCK FALSE
