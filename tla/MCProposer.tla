----------------------------- MODULE MCProposer -----------------------------
(* The proposer of me, whose certificates are slow; a has the stake of a      *)
(* quorum.  Leader of round 2 is me, of round 4 a.                            *)
EXTENDS Proposer, TLC

CONSTANTS me, a, d1

MCStake == a :> 3 @@ me :> 1

MCLeaderOf == [r \in 0..(MaxRound + 1) |-> IF r % 4 = 2 THEN me ELSE a]
=============================================================================
