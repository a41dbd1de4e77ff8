-------------------------- MODULE MCTerraformState --------------------------
(* Two phases, bnk and testing, planned one after the other by up and      *)
(* applied together.                                                       *)
EXTENDS TerraformState
MCOrder == <<"bnk", "testing">>
=============================================================================
