SPECIFICATION Spec
CONSTANTS
  me = me
  a = a
  d1 = d1
  Authorities = {me, a}
  Stake <- MCStake
  Me = me
  LeaderOf <- MCLeaderOf
  Digests = {d1}
  BatchThreshold = 1
  MaxBatches = 1
  ParentsCapacity = 1
  QuietStart = FALSE
  MaxRound = 3
  MaxHeader = 3
  MaxCertified = 1
  MaxRestarts = 1
  LastRestart = 1
INVARIANT NoEquivocation
CHECK_DEADLOCK FALSE
