------------------------------ MODULE MCVoting ------------------------------
(* Four authorities of equal stake, one of them Byzantine.  A behaviour      *)
(* follows the headers of the Byzantine author or those of a correct one.    *)
EXTENDS Voting, TLC

CONSTANTS a, b, c, z, x, y

MCStake == [n \in Authorities |-> 1]

MCHeaders == [author : {a, z}, round : {1}, body : {x, y}] \cup [author : {a, z}, round : {2}, body : {x}]

\* b and c only vote.
Voters == Permutations({b, c})
=============================================================================
