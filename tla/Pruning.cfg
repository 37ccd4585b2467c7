SPECIFICATION SyncedSpec
CONSTANTS
  Blocks <- Tree
  Genesis = "g"
  Parent <- TreeParent
  BlockTxs <- TreeTxs
  Inputs <- TxInputs
  Outputs <- TxOutputs
  NoBlock = NoBlock
  Syncer = Syncer
  NoTx = NoTx
  Relayed = {"x", "z"}
  FirstBest = "a1"
  LocatorLimit = 30
  MaxCrashes = 0
  CrashPoints <- QuietPoints
  CrashBlocks = {}
  MaxLate = 0
  MatureLen = 0
  DescendantLimit = 10
  Outdated = {"x"}
  MaxStops = 1
INVARIANTS
  InputsGivenBack
PROPERTIES
  MinedIsNotPruned
  OrphansAreInvalidated
CHECK_DEADLOCK FALSE
