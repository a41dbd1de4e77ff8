--------------------------- MODULE MCBnkTeardown ---------------------------
(* Instances of BnkTeardown for TLC.                                       *)
EXTENDS BnkTeardown

CONSTANTS infra, dns, cne   \* a plain leaf, a remade and protected one, the root
=============================================================================
