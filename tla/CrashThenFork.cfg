SPECIFICATION Spec
CONSTANTS
  Blocks <- Tree
  Genesis = "g"
  Parent <- TreeParent
  BlockTxs <- TreeTxs
  Inputs <- TxInputs
  Outputs <- TxOutputs
  NoBlock = NoBlock
  Syncer = Syncer
  NoTx = NoTx
  Relayed = {}
  FirstBest = "a1"
  LocatorLimit = 30
  MaxCrashes = 1
  CrashPoints <- StorePoints
  CrashBlocks <- Tree
  MaxLate = 0
INVARIANTS
  VerificationPasses
CHECK_DEADLOCK FALSE
