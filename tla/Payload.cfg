SPECIFICATION FairSpec
CONSTANTS
  me = me
  ex = ex
  t1 = t1
  t2 = t2
  Authorities = {me, ex}
  Stake <- MCStake
  Me = me
  Executor = ex
  Txs = {t1, t2}
  BatchSize = 2
  MaxParallel = 1
  MaxPending = 2
  MaxCommits = 2
  MaxCrashes = 1
INVARIANTS
  TypeOK
  CommittedIsAvailable
  DeliveredInOrder
  AnsweredIsRecorded
PROPERTIES
  
  CommittedIsDelivered
CHECK_DEADLOCK FALSE
