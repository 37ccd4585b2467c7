SPECIFICATION Spec
CONSTANTS
  Copayers = {c1, c2}
  RequiredSignatures = 1
  Ops <- AllOps
  MayLapse = TRUE
  ExplorerLags = TRUE
  Requests = {r1}
  Txps = {t1, t2}
  Inputs = {i1}
  Nobody = Nobody
  NoLock = NoLock
  Orphan = Orphan
SYMMETRY Symmetry
PROPERTIES FollowsLifecycle
CHECK_DEADLOCK FALSE
