SPECIFICATION Spec
CONSTANTS
  N = 3
  M = 2
  Ready = 3
  MaxFaults = 0
  MaxWallets = 1
INVARIANTS ParticipantsAuthenticate
CHECK_DEADLOCK FALSE
