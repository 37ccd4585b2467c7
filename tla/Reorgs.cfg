SPECIFICATION Spec
CONSTANTS
  Blocks <- Tree
  Genesis = "g"
  Parent <- TreeParent
  BlockTxs <- TreeTxs
  Inputs <- TxInputs
  Outputs <- TxOutputs
  NoBlock = NoBlock
  Syncer = Syncer
  NoTx = NoTx
  Relayed = {"x"}
  FirstBest = "a1"
  LocatorLimit = 30
  MaxCrashes = 2
  CrashPoints <- StoreAndQuiet
  CrashBlocks = {"g", "a1", "b2", "b3"}
  MaxLate = 0
INVARIANTS
  VerificationPasses
  IndexMatchesChain
PROPERTIES
  ConfirmedSpendKept
  FollowsLedger
  NoNeedlessRollback
  CatchesUp
CHECK_DEADLOCK FALSE
