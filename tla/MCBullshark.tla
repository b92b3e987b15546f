---------------------------- MODULE MCBullshark -----------------------------
(* A committee of stake 2 + 1 + 1: a quorum is A with B or with C, and f+1 is  *)
(* A alone or B with C.  Certificates of C are the ones others may miss.       *)
EXTENDS Bullshark, TLC

CONSTANTS A, B, C, v1, v2

MCStake == A :> 2 @@ B :> 1 @@ C :> 1

\* With B the leader of round 2 a leader may lack direct support and be
\* committed through the next one; with A it is always supported.
LeadersBB == 2 :> B @@ 4 :> B
LeadersBA == 2 :> B @@ 4 :> A
LeadersAB == 2 :> A @@ 4 :> B

RankOf == A :> 1 @@ B :> 2 @@ C :> 3
\* Digests go by author.
MCDigest == [c \in {A, B, C} \X (1..5) |-> 3 * Round(c) + RankOf[Author(c)]]

\* Three rows per round; the certificates of round 5 are those of A and B.
Cells == {<<a, r>> : a \in {A, B, C}, r \in 1..4} \cup {<<A, 5>>, <<B, 5>>}

Row(S, r) == {<<a, r>> : a \in S}

\* The parents of the certificates in free vary, those in wide name everyone,
\* the others name A and B.
DagsFrom(cells, free, wide) ==
  {[c \in cells |-> IF Round(c) = 1 THEN {}
                    ELSE Row(IF c \in free THEN f[c] ELSE IF c \in wide THEN {A, B, C} ELSE {A, B},
                             Round(c) - 1) \cap cells] :
     f \in [free -> {{A, B}, {A, C}, {A, B, C}}]}

\* For two validators: C stops after round 2.
MCDags2 == DagsFrom(Cells \ {<<C, 3>>, <<C, 4>>}, {<<A, 3>>, <<B, 3>>}, {<<B, 2>>})
\* For one validator that crashes: C stops after round 3.
MCDags1 == DagsFrom(Cells \ {<<C, 4>>}, {<<B, 2>>, <<A, 3>>, <<B, 3>>}, {})
=============================================================================
