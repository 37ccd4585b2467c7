SPECIFICATION Spec
CONSTANTS
  Copayers = {c1, c2}
  RequiredSignatures = 1
  Ops <- AllOps
  MayLapse = FALSE
  ExplorerLags = FALSE
  Requests = {r1, r2}
  Txps = {t1, t2}
  Inputs = {i1}
  Nobody = Nobody
  NoLock = NoLock
  Orphan = Orphan
SYMMETRY Symmetry
INVARIANTS InputsLockedOnce
CHECK_DEADLOCK FALSE
