-------------------------------- MODULE MCNv --------------------------------
(* Model-checking instances of Nv. *)
EXTENDS Nv, TLC

Symmetry == Permutations(Lists) \cup Permutations(Handles)
=============================================================================
