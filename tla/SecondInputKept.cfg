SPECIFICATION Spec
CONSTANTS
  Blocks <- Line
  Genesis = "g"
  Parent <- LineParent
  BlockTxs <- WideTxs
  Inputs <- TxInputs
  Outputs <- TxOutputs
  NoBlock = NoBlock
  Syncer = Syncer
  NoTx = NoTx
  Relayed = {"x"}
  FirstBest = "a1"
  LocatorLimit = 30
  MaxCrashes = 0
  CrashPoints <- QuietPoints
  CrashBlocks <- Line
  MaxLate = 0
PROPERTIES
  PrunedBeforeSpending
CHECK_DEADLOCK FALSE
