------------------------------ MODULE LuaStack ------------------------------
(* The part of the Lua C API that moves values on a stack, as operators on   *)
(* sequences.  Lua is no part of the repository: the operators say what the  *)
(* bindings get from liblua built without its API checks, for indices that   *)
(* are not valid too, since several bindings use such indices.               *)
EXTENDS Integers, Sequences, SequencesExt

\* What a read outside the frame yields: nil above the top, anything below.
Nil == "nil"
Junk == "junk"

\* index2value of lapi.c: what the API reads at index i of stack s.
At(s, i) ==
    LET abs == IF i > 0 THEN i ELSE Len(s) + 1 + i
    IN  IF i > Len(s) THEN Nil
        ELSE IF i # 0 /\ abs >= 1 THEN s[abs]
        ELSE Junk

\* lua_pushvalue(L, i)
PushValue(s, i) == Append(s, At(s, i))

\* lua_remove(L, i) for i > 0: a rotation that does nothing when i is above
\* the top, and then a pop of one value.
LuaRemove(s, i) == IF i <= Len(s) THEN RemoveAt(s, i) ELSE Front(s)

\* lua_insert(L, -2)
SwapTop(s) == LET n == Len(s) IN [s EXCEPT ![n] = s[n - 1], ![n - 1] = s[n]]

\* lua_replace(L, -i): the top value is stored at -i and popped.
Replace(s, i) == Front([s EXCEPT ![Len(s) + 1 - i] = Last(s)])
=============================================================================
