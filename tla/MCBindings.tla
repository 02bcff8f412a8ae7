----------------------------- MODULE MCBindings -----------------------------
(* Bindings for TLC.                                                         *)
EXTENDS Bindings

SomeExtras == {<<>>, <<"x1">>, <<"x1", "x2">>}

\* What the theorems about Handles ask of tables and duties is true of those of
\* the bindings.
ASSUME TablesCovered == DutiesCover

\* The copies of a callback's arguments made one by one, as the loop of
\* zfs_iter_cb makes them.
PushedOneByOne(s, nargs) ==
    FoldLeft(LAMBDA t, i : PushValue(t, -nargs),
             Append(PushValue(s, -nargs), "handle"), [i \in 1..(nargs - 1) |-> i])

\* Pushed is what that loop leaves, for stacks of up to six values and every
\* count that is not larger.
ASSUME PushedIsLoop ==
    \A k \in 0..6 : \A n \in -1..k :
        LET s == SubSeq(<<"a", "b", "c", "d", "e", "f">>, 1, k)
        IN  Pushed(s, n) = PushedOneByOne(s, n)
=============================================================================
