SPECIFICATION Spec
CONSTANTS
  Copayers = {c1, c2}
  RequiredSignatures = 2
  Ops <- AllOps
  MayLapse = FALSE
  ExplorerLags = FALSE
  Requests = {r1}
  Txps = {t1}
  Inputs = {i1}
  Nobody = Nobody
  NoLock = NoLock
  Orphan = Orphan
SYMMETRY Symmetry
PROPERTIES OnlyCreatorRemoves
CHECK_DEADLOCK FALSE
