------------------------------ MODULE MCBridge ------------------------------
(* One signer followed through its gateway and node, and one other signer.   *)
EXTENDS Bridge

CONSTANTS me, other
=============================================================================
