------------------------------ MODULE MCPayload ------------------------------
(* Two authorities of equal stake: each batch needs the other worker.         *)
EXTENDS Payload, TLC

CONSTANTS me, ex, t1, t2

MCStake == me :> 1 @@ ex :> 1
=============================================================================
