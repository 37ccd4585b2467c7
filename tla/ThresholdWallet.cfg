SPECIFICATION Spec
CONSTANTS
  N = 3
  M = 2
  Ready = 3
  MaxFaults = 1
  MaxWallets = 2
INVARIANTS SentIsStored MembersKept LookupsMatch SignedByQuorum
PROPERTIES IsKeyBarrier IsSignBarrier KeyForEveryone SignersFinish
CHECK_DEADLOCK FALSE
