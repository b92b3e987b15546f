SPECIFICATION Spec
CONSTANTS
  a = a
  b = b
  c = c
  z = z
  x = x
  y = y
  Authorities = {a, b, c, z}
  Stake <- MCStake
  Byzantine = {z}
  Headers <- MCHeaders
  ActiveSets = {{a}, {z}}
  MaxRestarts = 1
SYMMETRY Voters
INVARIANTS
  TypeOK
  VoteOnce
  CertificateUnique
  VotesRemembered
CHECK_DEADLOCK FALSE
