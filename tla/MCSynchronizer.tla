--------------------------- MODULE MCSynchronizer ---------------------------
(* Two authorities; a alone is a quorum, b is slow.  a1..a4 is the chain of  *)
(* a, which consensus commits; b1 may never arrive, so that b2 and b3 are    *)
(* suspended, freed by b1, or overtaken by garbage collection.  b3 has no    *)
(* child: nothing but its own suspension refers to it.                       *)
EXTENDS Synchronizer, TLC

CONSTANTS a1, a2, a3, a4, b1, b2, b3, voter, fetcher, core

MCRoundOf ==
  a1 :> 1 @@ a2 :> 2 @@ a3 :> 3 @@ a4 :> 4 @@ b1 :> 1 @@ b2 :> 2 @@ b3 :> 3
MCParentsOf ==
  a1 :> {} @@ a2 :> {a1} @@ a3 :> {a2} @@ a4 :> {a3}
  @@ b1 :> {} @@ b2 :> {a1, b1} @@ b3 :> {a2, b2}
MCCerts == DOMAIN MCRoundOf

\* The core, a vote request and the fetcher, against garbage collection and a
\* restart.
MCMode == core :> "own" @@ voter :> "parent" @@ fetcher :> "fetch"
MCTasks == DOMAIN MCMode
MCOwnCerts == {a2, a4}
=============================================================================
