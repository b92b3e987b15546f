SPECIFICATION Spec
CONSTANTS
  Accounts <- MCAccounts
  Geneses <- MCGeneses
  Epoch = 5
  Uint64 = 65536
  MaxNumber = 9
INVARIANTS
  TypeOK
  VotesAreConsistent
  SealedIsAccepted
  VerifiedIsApplied
  CheckpointFollows
PROPERTY
  ChangesHaveMajority
CHECK_DEADLOCK FALSE
