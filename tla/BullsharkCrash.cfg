SPECIFICATION Spec
CONSTANTS
  A = A
  B = B
  C = C
  v1 = v1
  v2 = v2
  Authorities = {A, B, C}
  Stake <- MCStake
  Validators = {v1}
  Dags <- MCDags1
  LeaderOf <- LeadersBA
  Digest <- MCDigest
  GcDepth = 1
  ChannelCapacity = 1
  MaxDeliveries = 2
  MaxRestarts = 2
INVARIANTS
  CommittedOnce
  LeadersAdvance
  WholeHistory
PROPERTY
  CommitsAreFinal
CHECK_DEADLOCK FALSE
