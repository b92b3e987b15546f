--------------------------- MODULE CausalDelivery ---------------------------
(***************************************************************************)
(* What the certificate pipeline of a primary promises to consensus        *)
(* (primary/src/synchronizer.rs, the comment on tx_new_certificates: "must *)
(* send certificates in causal order"): one certificate after another,     *)
(* each after its parents, except those garbage collection has given up.   *)
(* No lock, no task, no suspension, no crash is left in it.                *)
(***************************************************************************)
EXTENDS Naturals

CONSTANTS Certs, RoundOf, ParentsOf

VARIABLES
  delivered, \* what consensus has
  horizon    \* parents of this round or below are not waited for

Init == delivered = {} /\ horizon = 0

Deliver(c) ==
  /\ \A p \in ParentsOf[c] : p \in delivered \/ RoundOf[p] <= horizon
  /\ delivered' = delivered \cup {c}
  /\ UNCHANGED horizon

\* The horizon only moves up, and never past what was delivered.
Advance ==
  /\ horizon' > horizon
  /\ \E c \in delivered : RoundOf[c] > horizon'
  /\ UNCHANGED delivered

Next == (\E c \in Certs : Deliver(c)) \/ Advance

Spec == Init /\ [][Next]_<<delivered, horizon>>
=============================================================================
