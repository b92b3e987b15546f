------------------------------ MODULE Committee ------------------------------
(* The committee of a Narwhal epoch (sui/narwhal/config/src/lib.rs): its      *)
(* authorities, their stake and the two thresholds of the protocol.           *)
EXTENDS Naturals, FiniteSets, Functions

CONSTANTS Authorities, Stake

ASSUME StakeAssumption == Stake \in [Authorities -> Nat]

StakeOf(S) == SumFunctionOnSet(Stake, S)

\* Summing over a set: monotone, and additive up to the overlap.
ASSUME StakeOfAssumption ==
  \A S, T \in SUBSET Authorities :
    /\ StakeOf(S) \in Nat
    /\ S \subseteq T => StakeOf(S) <= StakeOf(T)
    /\ StakeOf(S \cup T) + StakeOf(S \cap T) = StakeOf(S) + StakeOf(T)

total_votes == StakeOf(Authorities)

\* Nobody has no stake, and somebody has some: the weighted choice of a leader
\* panics otherwise.
ASSUME TotalAssumption == StakeOf({}) = 0 /\ total_votes > 0

\* 2f + 1, in the integer division of the code.
quorum_threshold == (2 * total_votes) \div 3 + 1

\* f + 1.
validity_threshold == (total_votes + 2) \div 3

IsQuorum(S) == StakeOf(S) >= quorum_threshold

IsValidity(S) == StakeOf(S) >= validity_threshold
=============================================================================
