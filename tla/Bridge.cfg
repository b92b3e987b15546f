SPECIFICATION FairSpec
CONSTANTS
  me = me
  other = other
  Me = me
  Others = {other}
  MaxNumber = 2
  MaxForeign = 1
  MaxEmpty = 1
  ChannelCapacity = 1
  OutcCapacity = 1
  ResultQueueSize = 1
  MaxFaults = 1
  MaxNodeRestarts = 1
INVARIANTS
  TypeOK
  NoDuplicateOutput
  OutputsInOrder
PROPERTY
  WaitsEnd
CHECK_DEADLOCK FALSE
