------------------------------- MODULE MCAio -------------------------------
(* Model-checking instances of Aio. *)
EXTENDS Aio
=============================================================================
