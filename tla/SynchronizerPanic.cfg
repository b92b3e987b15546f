SPECIFICATION Spec
CONSTANTS
  a1 = a1
  a2 = a2
  a3 = a3
  a4 = a4
  b1 = b1
  b2 = b2
  b3 = b3
  voter = voter
  fetcher = fetcher
  core = core
  Certs <- MCCerts
  RoundOf <- MCRoundOf
  ParentsOf <- MCParentsOf
  OwnCerts <- MCOwnCerts
  Tasks <- MCTasks
  Mode <- MCMode
  GcDepth = 1
  MaxCommitRound = 4
  MaxRestarts = 0
INVARIANT PanicMeansParentsStored
CHECK_DEADLOCK FALSE
