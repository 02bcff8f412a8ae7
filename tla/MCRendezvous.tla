---------------------------- MODULE MCRendezvous ----------------------------
(* Model-checking instances of Rendezvous. *)
EXTENDS Rendezvous, TLC

Symmetry == Permutations(Threads)
=============================================================================
