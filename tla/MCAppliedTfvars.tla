-------------------------- MODULE MCAppliedTfvars --------------------------
(* Instances of AppliedTfvars for TLC: two versions of two release lines.  *)
EXTENDS AppliedTfvars, TLC
CONSTANTS ea23, ga24
MCLines     == [v \in Versions |-> v]
MCUserFiles == {[v \in {"workers"} |-> 2]}
MCVarFiles  == {[v \in {"workers"} |-> 3]}
MCSymmetry  == Permutations(Versions)
=============================================================================
