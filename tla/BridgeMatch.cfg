SPECIFICATION Spec
CONSTANTS
  me = me
  other = other
  Me = me
  Others = {other}
  MaxNumber = 1
  MaxForeign = 1
  MaxEmpty = 0
  ChannelCapacity = 1
  OutcCapacity = 1
  ResultQueueSize = 1
  MaxFaults = 0
  MaxNodeRestarts = 0
INVARIANT
  ExecutedWasOrdered
CHECK_DEADLOCK FALSE
