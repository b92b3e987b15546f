SPECIFICATION Spec
CONSTANTS
  A = A
  B = B
  C = C
  v1 = v1
  v2 = v2
  Authorities = {A, B, C}
  Stake <- MCStake
  Validators = {v1, v2}
  Dags <- MCDags2
  LeaderOf <- LeadersAB
  Digest <- MCDigest
  GcDepth = 50
  ChannelCapacity = 1
  MaxDeliveries = 1
  MaxRestarts = 1
INVARIANT Agreement
CHECK_DEADLOCK FALSE
