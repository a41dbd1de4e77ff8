---------------------------- MODULE MCKubeAccess ----------------------------
(* Instances of KubeAccess for TLC: a builds its cluster twice, b once. *)
EXTENDS KubeAccess
CONSTANTS a, b, c1, c2, c3, t1, t2
OwnerOf == (c1 :> a) @@ (c2 :> b) @@ (c3 :> a)
SymmetricTerminals == Permutations(Terminals)
=============================================================================
