---------------------------- MODULE MCThreadLife ----------------------------
(* Model-checking instances of ThreadLife. *)
EXTENDS ThreadLife
=============================================================================
