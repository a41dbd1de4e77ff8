---------------------------- MODULE MCNodeTrust ----------------------------
(* Instances of NodeTrust for TLC. *)
EXTENDS NodeTrust
CONSTANTS n1, n2
=============================================================================
