SPECIFICATION Spec
CONSTANTS
  Nodes = {a, b}
  Nobody = Nobody
  Former = Former
  Lease = 2
  MaxStalls = 1
  MaxStops = 2
INVARIANTS
  OneSyncingNode
  SyncsAlone
PROPERTIES
  FreshIsNotReplaced
  SomeoneSyncs
