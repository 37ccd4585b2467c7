SPECIFICATION Spec
CONSTANTS
  Blocks <- Line
  Genesis = "g"
  Parent <- LineParent
  BlockTxs <- LineTxs
  Inputs <- TxInputs
  Outputs <- TxOutputs
  NoBlock = NoBlock
  Syncer = Syncer
  NoTx = NoTx
  Relayed = {"u","x"}
  FirstBest = "a1"
  LocatorLimit = 30
  MaxCrashes = 0
  CrashPoints <- QuietPoints
  CrashBlocks <- Line
  MaxLate = 0
INVARIANTS
  MinedNotConflicting
CHECK_DEADLOCK FALSE
