SPECIFICATION Spec
CONSTANTS
  A = A
  B = B
  C = C
  v1 = v1
  v2 = v2
  Authorities = {A, B, C}
  Stake <- MCStake
  Validators = {v1, v2}
  Dags <- MCDags2
  LeaderOf <- LeadersBB
  Digest <- MCDigest
  GcDepth = 50
  ChannelCapacity = 1
  MaxDeliveries = 1
  MaxRestarts = 0
INVARIANTS
  TypeOK
  Agreement
  CausalCommit
  NoSupportedLeaderWaits
CHECK_DEADLOCK FALSE
