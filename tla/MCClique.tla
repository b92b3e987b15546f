------------------------------ MODULE MCClique ------------------------------
(* Four addresses.  The chain starts with all of them, so that a block number *)
(* is below the limit, or with one, who can grow the list or leave it empty.  *)
EXTENDS Clique

MCAccounts == 1..4
MCGeneses == {{1}, 1..4}
=============================================================================
