SPECIFICATION Spec
CONSTANTS
  Copayers = {c1, c2}
  RequiredSignatures = 2
  Ops <- RacingOps
  MayLapse = TRUE
  ExplorerLags = TRUE
  Requests = {r1, r2}
  Txps = {t1}
  Inputs = {i1}
  Nobody = Nobody
  NoLock = NoLock
  Orphan = Orphan
SYMMETRY Symmetry
INVARIANTS IInv BroadcastedIsOnChain
PROPERTIES SpendsAreApproved UsesLeaseLock
CHECK_DEADLOCK FALSE
