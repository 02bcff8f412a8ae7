----------------------------- MODULE MCRcObject -----------------------------
(* Model-checking instance of RcObject. *)
EXTENDS RcObject
=============================================================================
