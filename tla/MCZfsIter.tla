------------------------------ MODULE MCZfsIter -----------------------------
(* The iterators of libzfs by themselves, for TLC.                           *)
EXTENDS ZfsIter

SomeExtras == {<<>>, <<"x1">>, <<"x1", "x2">>}
=============================================================================
