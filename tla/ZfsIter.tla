------------------------------ MODULE ZfsIter -------------------------------
(* The functions of libzfs/lua_zfs.c that walk over pools, datasets and      *)
(* snapshots and call back into Lua for each of them.  They keep the callback *)
(* and its additional arguments on the caller's Lua stack, and find them      *)
(* there by counting: first the function removes its own parameters from the  *)
(* middle of the stack, then every callback copies what is left.  The stack   *)
(* is modelled value by value, because the properties are about what the      *)
(* callback is called with.                                                   *)
EXTENDS LuaStack

CONSTANTS Others,      \* values that callers pass besides the callback
          Extras,      \* lists of additional arguments
          MaxItems     \* bound on the handles one iteration visits

ASSUME IterAssumption ==
    "cb" \notin Others /\ Extras \subseteq Seq(Others) /\ MaxItems \in Nat

VARIABLES fn,          \* the function running, or "none"
          phase,       \* idle, walk (in libzfs), call (in Lua), done
          stk,         \* its Lua stack
          top,         \* its local of that name
          args,        \* the additional arguments the caller passed
          call,        \* the values of the pcall in progress: callee, arguments
          throws,      \* callbacks that have raised an error
          items,       \* handles visited
          res          \* the values returned

iterVars == <<fn, phase, stk, top, args, call, throws, items, res>>

\* A function with n parameters of its own between handle and callback, that
\* removes the stack positions rm, in this order.
Walk(n, rm) == [params |-> n, rm |-> rm]

\* l_zpool_iter: hdl, cb, ...
PoolWalks == [iter_pools |-> Walk(0, <<>>)]

\* l_zfs_foreach_mountpoint: the handles and nthr are removed; what it does to
\* the handles' userdata is in LibZfs.
MountWalks == [foreach_mountpoint |-> Walk(2, <<2, 3>>)]

\* l_zfs_iter_root
RootWalks == [iter_root |-> Walk(0, <<>>)]

\* l_zfs_iter_children .. l_zfs_iter_snapshots_sorted
DatasetWalks ==
    [iter_children         |-> Walk(0, <<>>),
     iter_dependents       |-> Walk(1, <<2>>),
     iter_filesystems      |-> Walk(0, <<>>),
     iter_snapshots        |-> Walk(3, <<2, 3, 4>>),
     iter_snapshots_sorted |-> Walk(2, <<2, 3>>)]

\* l_zfs_iter_snapspec .. l_zfs_iter_children_v2; the copy of snapspec is made
\* before and freed after the iteration.
SpecWalks ==
    [iter_snapspec    |-> Walk(1, <<2>>),
     iter_bookmarks   |-> Walk(0, <<>>),
     iter_children_v2 |-> Walk(1, <<2>>)]

\* l_zfs_iter_dependents_v2 .. l_zfs_iter_snapshots_sorted_v2
FlagWalks ==
    [iter_dependents_v2       |-> Walk(2, <<2, 3>>),
     iter_filesystems_v2      |-> Walk(1, <<2>>),
     iter_snapshots_v2        |-> Walk(3, <<2, 3, 4>>),
     iter_snapshots_sorted_v2 |-> Walk(3, <<2, 3, 4>>)]

\* l_zfs_iter_snapspec_v2 .. l_zfs_iter_mounted
LastWalks ==
    [iter_snapspec_v2  |-> Walk(2, <<2, 3>>),
     iter_bookmarks_v2 |-> Walk(1, <<2>>),
     iter_mounted      |-> Walk(0, <<>>)]

WalkTables ==
    {PoolWalks, MountWalks, RootWalks, DatasetWalks, SpecWalks, FlagWalks, LastWalks}

Walks == [f \in UNION {DOMAIN t : t \in WalkTables} |->
             (CHOOSE t \in WalkTables : f \in DOMAIN t)[f]]

\* l_zfs_send keeps its five parameters; the callback is the sixth value.
Send == "send"

IterFunctions == DOMAIN Walks \cup {Send}

\* Functions that do not call their callback, whatever the caller passes: every
\* removal moves the next parameter down, to where the next one does not look
\* for it, and the filter of send counts one too few.
Misfits == {Send} \cup {f \in DOMAIN Walks : Walks[f].params >= 2}

\* The walks that libzfs goes on with after a callback returned -1: it only
\* remembers that there was an error.  (libzfs is no part of the repository.
\* In the other walks a callback's error ends the walk, but for the mount
\* points, whose callbacks' results libzfs does not look at.)
GoesOn == {"iter_snapshots_sorted", "iter_snapshots_sorted_v2", "iter_snapspec",
           "iter_snapspec_v2"}

IterInit ==
    /\ fn = "none" /\ phase = "idle" /\ stk = <<>> /\ top = 0 /\ args = <<>>
    /\ call = <<>> /\ throws = 0 /\ items = 0 /\ res = <<>>

\* The arguments of a call: handle, own parameters, callback, additional ones.
Arguments(n, xs) == <<"hdl">> \o [i \in 1..n |-> "param"] \o <<"cb">> \o xs

\* "Massage the stack to fit zfs_iter_cb": up to three calls of lua_remove.
Massaged(s, rm) ==
    LET a == IF Len(rm) >= 1 THEN LuaRemove(s, rm[1]) ELSE s
        b == IF Len(rm) >= 2 THEN LuaRemove(a, rm[2]) ELSE a
    IN  IF Len(rm) >= 3 THEN LuaRemove(b, rm[3]) ELSE b

\* A call up to the point where libzfs takes over.
Enter(f, xs) ==
    LET n == IF f = Send THEN 4 ELSE Walks[f].params
        s == Arguments(n, xs)
        m == IF f = Send THEN s ELSE Massaged(s, Walks[f].rm)
    IN  /\ phase = "idle" /\ phase' = "walk"
        /\ fn' = f /\ args' = xs /\ stk' = m /\ top' = Len(m)
        /\ call' = <<>> /\ throws' = 0 /\ items' = 0 /\ res' = <<>>

\* The values pushed for a callback when nargs is what the code computes: a
\* copy of the function, the new handle, copies of the additional arguments.
\* Each of these is nargs below the top, which rises with every push.
Pushed(s, nargs) ==
    LET t == Append(PushValue(s, -nargs), "handle")
    IN  t \o [i \in 1..(nargs - 1) |-> At(t, i - 1 - nargs)]

\* Mutant: the function itself is not counted.
NargsShort(s) == Len(s) - 2

\* nargs of zpool_iter_cb and zfs_iter_cb
Nargs(s) == Len(s) - 1

\* nargs of snapfilter_cb
FilterNargs(s) == Len(s) - 6

\* zpool_iter_cb and zfs_iter_cb up to lua_pcall(L, nargs, 0, 0): callee and
\* arguments leave the stack.
Callback ==
    LET n == Nargs(stk)
        p == Pushed(stk, n)
    IN  /\ fn \in DOMAIN Walks /\ phase = "walk"
        /\ throws > 0 => fn \in GoesOn \cup {"foreach_mountpoint"}
        /\ items < MaxItems
        /\ items' = items + 1 /\ phase' = "call"
        /\ call' = SubSeq(p, Len(p) - n, Len(p))
        /\ stk' = SubSeq(p, 1, Len(p) - n - 1)
        /\ UNCHANGED <<fn, top, args, throws, res>>

\* snapfilter_cb up to lua_pcall(L, nargs, 1, 0)
FilterCallback ==
    LET n == FilterNargs(stk)
        p == Pushed(stk, n)
    IN  /\ fn = Send /\ phase = "walk"
        /\ items < MaxItems
        /\ items' = items + 1 /\ phase' = "call"
        /\ call' = SubSeq(p, Len(p) - n, Len(p))
        /\ stk' = SubSeq(p, 1, Len(p) - n - 1)
        /\ UNCHANGED <<fn, top, args, throws, res>>

\* The callee returns; only a function can.  The iterators take no result, the
\* filter pops its one.
Returns ==
    /\ phase = "call" /\ call[1] = "cb"
    /\ phase' = "walk" /\ call' = <<>>
    /\ UNCHANGED <<fn, stk, top, args, throws, items, res>>

\* Mutant: the error message stays on top of the fail value.
ThrowsSwapped ==
    /\ phase = "call" /\ phase' = "walk"
    /\ stk' = IF fn = Send THEN Append(stk, "error")
              ELSE Append(Append(stk, "error"), Nil)
    /\ call' = <<>> /\ throws' = throws + 1
    /\ UNCHANGED <<fn, top, args, items, res>>

\* The callee raises an error, or is no function: the callback leaves fail and
\* the message on the stack and returns -1.  The filter leaves the message and
\* says no.
Throws ==
    /\ phase = "call" /\ phase' = "walk"
    /\ stk' = IF fn = Send THEN Append(stk, "error")
              ELSE SwapTop(Append(Append(stk, "error"), Nil))
    /\ call' = <<>> /\ throws' = throws + 1
    /\ UNCHANGED <<fn, top, args, items, res>>

\* The iteration ends with an error: a callback's, whose values are already
\* there, or libzfs's own.
FailedWalk ==
    /\ fn \in DOMAIN Walks \ {"foreach_mountpoint"} /\ phase = "walk"
    /\ res' = IF Len(stk) > top THEN SubSeq(stk, top + 1, Len(stk))
              ELSE <<Nil, "failed">>
    /\ phase' = "done"
    /\ UNCHANGED <<fn, stk, top, args, call, throws, items>>

\* The iteration visits everything; foreach_mountpoint has no result of its own
\* and returns what its callbacks have left.
FinishedWalk ==
    /\ fn \in DOMAIN Walks /\ phase = "walk"
    /\ throws > 0 => fn = "foreach_mountpoint"
    /\ res' = IF fn = "foreach_mountpoint"
              THEN SubSeq(stk, top + 1, Len(stk))
              ELSE <<"true">>
    /\ phase' = "done"
    /\ UNCHANGED <<fn, stk, top, args, call, throws, items>>

\* zfs_send returns: zfsfail() pushes three values, of which the debug list
\* takes the place of the message.
FinishedSend ==
    /\ fn = Send /\ phase = "walk"
    /\ \/ res' = <<"true">>
       \/ res' = <<"dbg">>
       \/ \E dbg \in BOOLEAN :
             LET s == stk \o <<Nil, "failed", "code">>
                 r == IF dbg THEN Replace(Append(s, "dbg"), 3) ELSE s
             IN  res' = SubSeq(r, Len(r) - 2, Len(r))
    /\ phase' = "done"
    /\ UNCHANGED <<fn, stk, top, args, call, throws, items>>

\* The caller gets the results.
HandBack ==
    /\ phase = "done" /\ phase' = "idle"
    /\ fn' = "none" /\ stk' = <<>> /\ top' = 0 /\ args' = <<>>
    /\ call' = <<>> /\ throws' = 0 /\ items' = 0 /\ res' = <<>>

IterNext ==
    \/ \E f \in IterFunctions, xs \in Extras : Enter(f, xs)
    \/ Callback \/ FilterCallback \/ Returns \/ Throws
    \/ FailedWalk \/ FinishedWalk \/ FinishedSend \/ HandBack

IterSpec == IterInit /\ [][IterNext]_iterVars

-----------------------------------------------------------------------------
\* zfs.3lua: "callback receives a zfs handle followed by any additional args
\* provided by the caller", after the parameters were removed to "massage the
\* stack to fit zfs_iter_cb" (lua_zfs.c).
CallbackGetsArgs ==
    phase = "call" /\ fn \notin Misfits => call = <<"cb", "handle">> \o args

\* What n callbacks that raised an error leave on the stack.
Leftovers(n) == [i \in 1..(2 * n) |-> IF i % 2 = 1 THEN Nil ELSE "error"]

\* What a callback gets in place of these additional arguments: all but the
\* first, and itself.
Shifted(xs) == IF xs = <<>> THEN <<>> ELSE Append(Tail(xs), "cb")

\* What zfs_iter_cb really passes, whatever the additional arguments are,
\* however many handles have been visited and callbacks have failed: the callee
\* is the callback, its first argument the handle, and the others are the
\* additional ones with the leftovers of earlier callbacks, off by one.  Nothing
\* else of the stack gets to the callback, nor anything from below it.
CallbackGetsShifted ==
    phase = "call" /\ fn \notin Misfits =>
        call = <<"cb", "handle">> \o Shifted(args \o Leftovers(throws))

\* However many callbacks have run, the results of an iterator are true, or fail
\* and its own message, or exactly what the callbacks that raised an error left,
\* fail and a message each: never one of the caller's values that share the
\* stack.  Only a walk that libzfs goes on with has more than one such pair.
IterResults ==
    phase = "done" /\ fn \notin {Send, "foreach_mountpoint"} =>
        \/ throws = 0 /\ res \in {<<"true">>, <<Nil, "failed">>}
        \/ throws = 1 /\ res = <<Nil, "error">>
        \/ throws > 1 /\ fn \in GoesOn /\ res = Leftovers(throws)
=============================================================================
