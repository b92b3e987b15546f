SPECIFICATION FairSpec
CONSTANTS
  me = me
  a = a
  d1 = d1
  Authorities = {me, a}
  Stake <- MCStake
  Me = me
  LeaderOf <- MCLeaderOf
  Digests = {d1}
  BatchThreshold = 1
  MaxBatches = 1
  ParentsCapacity = 1
  QuietStart = TRUE
  MaxRound = 5
  MaxHeader = 4
  MaxCertified = 1
  MaxRestarts = 1
  LastRestart = 2
INVARIANTS
  TypeOK
  NoEquivocation
  
  NoDigestLost
PROPERTIES
  LeaderOrTimeout
  
CHECK_DEADLOCK FALSE
