-------------------------- MODULE MCRegistryMirror --------------------------
(* Instances of RegistryMirror for TLC: an image and a classic chart,         *)
(* the registry of the region and a mirror with a CA of its own.              *)
EXTENDS RegistryMirror, TLC
CONSTANTS image, chart, d1, d2, icr, harbor
MCBom == [v \in Manifests |-> IF v = "v1" THEN {image, chart} ELSE {image}]
MCSymmetry == Permutations(Digests)
=============================================================================
