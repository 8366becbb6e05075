----------------------------- MODULE MCPreview ------------------------------
(* Preview for TLC: builds and workers are interchangeable. *)
EXTENDS Preview, TLC

Symmetry == Permutations(Builds) \cup Permutations(Workers)
=============================================================================
