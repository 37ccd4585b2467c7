SPECIFICATION Spec
CONSTANTS
  Copayers = {c1, c2, c3}
  RequiredSignatures = 2
  Ops <- AllOps
  MayLapse = FALSE
  ExplorerLags = FALSE
  Requests = {r1, r2}
  Txps = {t1}
  Inputs = {i1}
  Nobody = Nobody
  NoLock = NoLock
  Orphan = Orphan
SYMMETRY Symmetry
INVARIANTS PaymentRecognised
CHECK_DEADLOCK FALSE
