SPECIFICATION SyncedSpec
CONSTANTS
  Blocks <- LongFork
  Genesis = "g"
  Parent <- ForkParent
  BlockTxs <- ForkTxs
  Inputs <- TxInputs
  Outputs <- TxOutputs
  NoBlock = NoBlock
  Syncer = Syncer
  NoTx = NoTx
  Relayed = {"x", "z"}
  FirstBest = "a1"
  LocatorLimit = 30
  MaxCrashes = 0
  CrashPoints <- QuietPoints
  CrashBlocks = {}
  MaxLate = 0
  MatureLen = 0
  DescendantLimit = 10
  Outdated = {"x"}
  MaxStops = 0
PROPERTIES
  MinedIsNotPruned
CHECK_DEADLOCK FALSE
