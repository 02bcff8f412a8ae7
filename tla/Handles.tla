------------------------------ MODULE Handles -------------------------------
(* Objects of C libraries and of the kernel behind Lua userdata (utils.h):    *)
(* what the functions of a binding do to them, told by a table.  A row of the *)
(* table is one function of the binding: the userdata it checks, the object   *)
(* it makes and who owns that, the argument it consumes, the memory it leaves *)
(* behind.  The tables are in the modules named after the libraries.          *)
(*                                                                            *)
(* One Lua state runs, so calls are atomic, except that Lua collects at any   *)
(* time, that an iterator runs a Lua function in its middle, and that closing *)
(* the state finalizes what is left, newest first.                            *)
EXTENDS Naturals, Sequences, FiniteSets

CONSTANTS Table,         \* binding -> rows of its functions
          Metatables,    \* kind of userdata -> what ends its object
          NMem,          \* bound on the C objects that exist at once
          NUd,           \* bound on the userdata a program creates
                         \* the bindings whose programs
          CloseParents,  \* close an object that others still depend on
          DropParents,   \* forget the userdata of such an object
          CloseInWalk,   \* close, in a callback, the object being iterated
          UseClosed      \* call methods of what they have closed

VARIABLES lib,      \* the binding in use
          mem,      \* the C objects
          ud,       \* the userdata
          walk,     \* the object an iterator is visiting, or 0
          bad,      \* what went wrong, after which nothing is known: see Wrong
          closing   \* lua_close is running

hVars == <<lib, mem, ud, walk, bad, closing>>

Mem == 1..NMem
Ud == 1..NUd

\* An object: the object whose memory it is a part of (itself, mostly) and the
\* object it uses for as long as it lives.
NoObject == [st |-> "none", kind |-> "-", whole |-> 0, up |-> 0]

\* A userdata: its COOKIE and its REF, both 0 for NULL.  It is stray when it
\* frees an object that is not its own: part of another object, owned by another
\* userdata, or already given to a close that reported an error.
NoUd == [st |-> "none", kind |-> "-", cookie |-> 0, ref |-> 0, stray |-> FALSE]

-----------------------------------------------------------------------------
(* Rows.  on: kinds of the userdata arguments, in order; mk: kind of the      *)
(* userdata made; how: "own" the new object is the caller's, "child" it also  *)
(* uses, for as long as it lives, the handle that the first argument is or    *)
(* was opened through, "lent" it is a part of the first argument's object and *)
(* wrapped as if it were the caller's, "reflent" likewise, with a REF to the  *)
(* first argument, "bare" it is a part, and its userdata frees nothing, "ref" *)
(* likewise, with a REF, "again" it is the last argument's object, wrapped a  *)
(* second time; takes: position of the argument that is consumed, 0 for none; *)
(* thru: the call, or the report of its failure, uses the handle that the     *)
(* first argument was opened through; chk: closed arguments are refused;      *)
(* leak: memory is left behind; cuts: the parts of the first argument's       *)
(* object are freed; walks: a Lua function is called in the middle, for each  *)
(* object made.                                                               *)
Fn(f, on) ==
    [f |-> f, on |-> on, mk |-> "-", how |-> "own", takes |-> 0, thru |-> FALSE,
     chk |-> TRUE, leak |-> FALSE, cuts |-> FALSE, walks |-> FALSE]

Reads(fs, on) == {Fn(f, on) : f \in fs}
Uses(fs, on) == {[r EXCEPT !.thru = TRUE] : r \in Reads(fs, on)}
Blind(fs, on) == {[r EXCEPT !.chk = FALSE] : r \in Reads(fs, on)}
Leaks(fs, on) == {[r EXCEPT !.leak = TRUE] : r \in Uses(fs, on)}
Cuts(fs, on) == {[r EXCEPT !.cuts = TRUE] : r \in Reads(fs, on)}
Made(fs, on, k, how) == {[r EXCEPT !.mk = k, !.how = how] : r \in Uses(fs, on)}
Makes(fs, on, k) == Made(fs, on, k, "own")
Spawns(fs, on, k) == Made(fs, on, k, "child")
Lends(fs, on, k) == Made(fs, on, k, "lent")
Refs(fs, on, k) == Made(fs, on, k, "ref")
Takes(fs, on, i, k) == {[r EXCEPT !.takes = i] : r \in Makes(fs, on, k)}
WalksWith(fs, on, k, how) == {[r EXCEPT !.walks = TRUE] : r \in Made(fs, on, k, how)}
WalksOver(fs, on, k) == WalksWith(fs, on, k, "child")

\* What ends the object of a userdata: a method or __close, after which the
\* cookie is NULL ("clears"), or NULL unless the system reports an error
\* ("fallible"; the object is gone all the same), and the finalizer.
Metatable(close, gc) == [close |-> close, gc |-> gc]

\* The functions of a binding without their names: a program calls them all.
Rows == [l \in DOMAIN Table |-> {[r EXCEPT !.f = "-"] : r \in Table[l]}]

\* Ways of wrapping an object that make a stray userdata.
StrayHows == {"lent", "reflent", "again"}

\* Every row names arguments it has, what is a part frees nothing and everything
\* else does, and only what frees can be closed or consumed.
Row == [f : STRING, on : Seq(STRING), mk : STRING, how : STRING, takes : Nat,
        thru : BOOLEAN, chk : BOOLEAN, leak : BOOLEAN, cuts : BOOLEAN, walks : BOOLEAN]

ASSUME HandlesAssumption ==
    /\ NMem \in Nat /\ NUd \in Nat
    /\ \A l \in DOMAIN Table : \A r \in Table[l] :
          /\ r \in Row
          /\ r.how \in {"own", "child", "bare", "ref"} \cup StrayHows
          /\ r.takes <= Len(r.on)
          /\ r.takes # 0 => r.how = "own" /\ Metatables[r.on[r.takes]].gc
          /\ r.how # "own" => r.on # <<>>
          /\ r.mk # "-" => /\ r.mk \in DOMAIN Metatables
                           /\ Metatables[r.mk].gc <=> r.how \notin {"ref", "bare"}
    /\ \A k \in DOMAIN Metatables : Metatables[k].close # "none" => Metatables[k].gc

-----------------------------------------------------------------------------
Live(o) == o # 0 /\ mem[o].st = "live"
Cookie(u) == ud[u].cookie
Part(o) == mem[o].whole # o

\* The handle that o was opened through, and the one a child of it will use.
Up(o) == mem[mem[o].whole].up
Root(o) == IF Up(o) = 0 THEN mem[o].whole ELSE Up(o)

\* o and what is freed with it
Tree(o) == {o} \cup {p \in Mem : mem[p].st = "live" /\ mem[p].whole = o}

Freed(m, os) == [p \in Mem |-> IF p \in os THEN [m[p] EXCEPT !.st = "freed"] ELSE m[p]]

\* What goes wrong: a "use" of freed memory, or a "free" of what is gone or not
\* the caller's, and whether that is through a stray userdata.
Wrong(what, u) == {<<what, ud[u].stray>>}

\* A stray's object is freed by someone else as well, so one of the two is wrong.
FreeFault(u) ==
    LET o == Cookie(u)
    IN  IF ~ud[u].stray /\ Live(o) /\ (Part(o) => ~Live(mem[o].whole)) THEN {}
        ELSE Wrong("free", u)

\* An address is used again once nothing holds it.
Unused(o) ==
    /\ ~Live(o) /\ o # walk
    /\ \A u \in Ud : ud[u].st = "live" => Cookie(u) # o
    /\ \A p \in Mem : Live(p) => o \notin {mem[p].up, mem[p].whole}
Lowest(S) == {x \in S : \A y \in S : x <= y}
NewMem == Lowest({o \in Mem : Unused(o)})
NewUd == Lowest({u \in Ud : ud[u].st = "none"})

\* Lists of userdata that fit a row
ArgsOf(r) ==
    {a \in [DOMAIN r.on -> Ud] :
        \A i \in DOMAIN r.on : ud[a[i]].st = "live" /\ ud[a[i]].kind = r.on[i]}

\* Mutant: checkcookie without its test for NULL
ExpiredNever(r, a) == FALSE

\* checkcookie fails for one of them
Expired(r, a) == \E i \in DOMAIN r.on : Cookie(a[i]) = 0

\* The first argument's object, the pointers the call follows from argument i,
\* and what is wrong with them.
First(r, a) == IF r.on = <<>> THEN 0 ELSE Cookie(a[1])
Followed(r, a, i) ==
    {Cookie(a[i])}
        \cup (IF i = 1 /\ r.thru /\ Cookie(a[1]) # 0 THEN {Up(Cookie(a[1]))} \ {0} ELSE {})
Faults(r, a) ==
    UNION {Wrong("use", a[i]) :
              i \in {j \in DOMAIN r.on : \E o \in Followed(r, a, j) : ~Live(o)}}

\* The object behind a new userdata, and new() and newref() around it.
BornObject(r, a, o) ==
    [st |-> "live", kind |-> r.mk,
     whole |-> IF r.how \in {"lent", "reflent", "bare", "ref"} THEN mem[First(r, a)].whole ELSE o,
     up |-> IF r.how = "child" THEN Root(First(r, a)) ELSE 0]

\* Mutant: newref without its setref
BornBare(r, a, o) ==
    [st |-> "live", kind |-> r.mk, cookie |-> o, ref |-> 0, stray |-> r.how \in StrayHows]

Born(r, a, o) ==
    [st |-> "live", kind |-> r.mk, cookie |-> o,
     ref |-> IF r.how \in {"ref", "reflent"} THEN a[1] ELSE 0,
     stray |-> r.how \in StrayHows]

\* The userdata that the call makes is added to d, its object to m.
Bears(r, a, m, d) ==
    \E o \in IF r.how = "again" THEN {Cookie(a[Len(r.on)])} ELSE NewMem, u \in NewUd :
        /\ mem' = IF r.how = "again" THEN m ELSE [m EXCEPT ![o] = BornObject(r, a, o)]
        /\ ud' = [d EXCEPT ![u] = Born(r, a, o)]

\* What a function leaves behind, 0 for nothing: a block it does not free, or the
\* object it has made when new() raises a memory error instead of wrapping it.
Left(r) ==
    {0} \cup (IF r.leak \/ (r.mk # "-" /\ r.how \in {"own", "child"}) THEN NewMem ELSE {})
Lose(m, o) == IF o = 0 THEN m ELSE [m EXCEPT ![o] = [NoObject EXCEPT !.st = "live", !.whole = o]]

\* Live userdata other than u whose object needs u's.
Dependents(u) ==
    {v \in Ud \ {u} : /\ ud[v].st = "live" /\ Cookie(v) # 0 /\ Cookie(u) # 0
                      /\ Cookie(u) \in {mem[Cookie(v)].whole, Up(Cookie(v))}}

\* The program's duties when it gives up an object: others that depend on it
\* go first, and no iterator is visiting it.
MayClose(u) ==
    /\ lib \in CloseParents \/ Dependents(u) = {}
    /\ lib \in CloseInWalk \/ walk = 0 \/ Cookie(u) # walk

\* Kinds of userdata that keep what they depend on alive themselves.
Kept == {r.mk : r \in {x \in UNION {Table[l] : l \in DOMAIN Table} : x.how = "ref"}}

\* Lua collects what nothing refers to: neither a REF nor the stack of a
\* running iterator.  What a program cannot see is a dependence without REF.
MayCollect(u) ==
    /\ \A v \in Ud : ud[v].st = "live" => ud[v].ref # u
    /\ walk = 0 \/ Cookie(u) # walk
    /\ lib \in DropParents \/ \A v \in Dependents(u) : ud[v].kind \in Kept

\* The duties of the programs of binding l cover what its functions do.  What a
\* callback walks is not closed in it; what is closed is refused by the functions,
\* or not used.  Who closes or forgets an object while others depend on it has
\* only dependents that refer to it, of objects that nothing but their finalizer
\* ends, and strays.  What keeps others alive itself always does, and is no stray.
Covered(l) ==
    LET rows == Rows[l]
        hows == {r.how : r \in rows}
        Ends(r) == r.takes # 0 \/ r.cuts \/ (r.mk # "-" /\ Metatables[r.mk].close # "none")
    IN  /\ l \in CloseInWalk => \A r \in rows : ~r.walks
        /\ l \in UseClosed => \A r \in rows : r.takes = 0 => r.chk
        /\ l \in CloseParents \cup DropParents => hows \subseteq {"own", "ref"} \cup StrayHows
        /\ l \in CloseParents /\ "ref" \in hows => \A r \in rows : ~Ends(r)
        /\ "ref" \in hows =>
              /\ hows \cap StrayHows = {}
              /\ \A r \in rows : r.mk # "-" => Metatables[r.mk].close # "fallible"
        /\ \A r \in rows : r.mk \in Kept => r.how = "ref"

DutiesCover == \A l \in DOMAIN Table : Covered(l)

-----------------------------------------------------------------------------
HandlesInit ==
    /\ lib \in DOMAIN Table
    /\ mem = [o \in Mem |-> NoObject]
    /\ ud = [u \in Ud |-> NoUd]
    /\ walk = 0 /\ bad = {} /\ closing = FALSE

\* A function that keeps its arguments and makes nothing, or fails; some do not
\* look whether their argument was closed, some leave a block behind.  (When the
\* new() in a callback fails the walk ends as well.)
Call(r) ==
    /\ r.takes = 0
    /\ \E a \in ArgsOf(r), o \in Left(r) :
          /\ r.chk \/ lib \notin UseClosed => ~Expired(r, a)
          /\ r.cuts => lib \in CloseParents \/ Dependents(a[1]) = {}
          /\ bad' = bad \cup Faults(r, a)
          /\ LET cut == IF r.cuts THEN Freed(mem, Tree(First(r, a)) \ {First(r, a)}) ELSE mem
             IN  mem' = Lose(cut, o)
    /\ UNCHANGED <<lib, ud, walk, closing>>

\* A function that makes an object.
Make(r) ==
    /\ r.mk # "-" /\ r.takes = 0 /\ ~r.walks
    /\ \E a \in ArgsOf(r) :
          /\ ~Expired(r, a)
          /\ Bears(r, a, mem, ud)
          /\ bad' = bad \cup Faults(r, a)
    /\ UNCHANGED <<lib, walk, closing>>

\* A function that consumes an argument: its cookie is NULL whether or not the
\* call succeeds, and the object belongs to the library, which frees it.
Take(r) ==
    /\ r.takes # 0
    /\ \E a \in ArgsOf(r) :
          LET v == a[r.takes]
              m == Freed(mem, Tree(Cookie(v)))
              d == [ud EXCEPT ![v].cookie = 0]
          IN  /\ ~Expired(r, a) /\ MayClose(v)
              /\ bad' = bad \cup Faults(r, a) \cup FreeFault(v)
              /\ \/ ud' = d /\ \E o \in Left(r) : mem' = Lose(m, o)
                 \/ r.mk # "-" /\ Bears(r, a, m, d)
    /\ UNCHANGED <<lib, walk, closing>>

\* An iterator begins; it calls back for an object; it ends.  Between these
\* the callback does what programs do; it does not close the handles that were
\* given to foreach_mountpoint.
WalkBegin(r) ==
    /\ r.walks /\ walk = 0
    /\ \E a \in ArgsOf(r) :
          /\ ~Expired(r, a)
          /\ walk' = First(r, a) /\ bad' = bad \cup Faults(r, a)
    /\ UNCHANGED <<lib, mem, ud, closing>>

WalkItem(r) ==
    /\ r.walks /\ r.mk # "-" /\ walk # 0
    /\ \E a \in ArgsOf(r) :
          /\ ~Expired(r, a) /\ First(r, a) = walk
          /\ Bears(r, a, mem, ud)
          /\ bad' = bad \cup Faults(r, a)
    /\ UNCHANGED <<lib, walk, closing>>

WalkEnd ==
    /\ walk # 0 /\ walk' = 0
    /\ bad' = IF Live(walk) THEN bad
              ELSE bad \cup {<<"use", \E u \in Ud : ud[u].stray /\ Cookie(u) = walk>>}
    /\ UNCHANGED <<lib, mem, ud, closing>>

\* Mutant: a finalizer that only clears the cookie
EndedLost(u, d) == ud' = [ud EXCEPT ![u] = d] /\ UNCHANGED <<mem, bad>>

\* What a finalizer does: the object is freed unless the cookie is NULL.
Ended(u, d) ==
    LET o == Cookie(u)
        frees == o # 0 /\ Metatables[ud[u].kind].gc
    IN  /\ mem' = IF frees THEN Freed(mem, Tree(o)) ELSE mem
        /\ bad' = IF frees THEN bad \cup FreeFault(u) ELSE bad
        /\ ud' = [ud EXCEPT ![u] = d]

\* Mutant: the object is freed, and the cookie kept
CloseKept(u) ==
    /\ ud[u].st = "live" /\ Metatables[ud[u].kind].close # "none" /\ Cookie(u) # 0
    /\ MayClose(u)
    /\ mem' = Freed(mem, Tree(Cookie(u)))
    /\ bad' = bad \cup FreeFault(u)
    /\ UNCHANGED <<lib, ud, walk, closing>>

\* A method or __close that ends the object; nothing happens when it is called
\* for the second time.
Close(u) ==
    LET o == Cookie(u)
        how == Metatables[ud[u].kind].close
    IN  /\ ud[u].st = "live" /\ how # "none" /\ o # 0 /\ MayClose(u)
        /\ mem' = Freed(mem, Tree(o))
        /\ bad' = bad \cup FreeFault(u)
        /\ \/ ud' = [ud EXCEPT ![u].cookie = 0]
           \/ how = "fallible" /\ ud' = [ud EXCEPT ![u].stray = TRUE]
        /\ UNCHANGED <<lib, walk, closing>>

\* __gc
Collect(u) ==
    /\ ud[u].st = "live" /\ MayCollect(u)
    /\ Ended(u, [NoUd EXCEPT !.st = "dead"])
    /\ UNCHANGED <<lib, walk, closing>>

\* lua_close(3): every finalizer runs, in the order opposite to creation.
CloseState ==
    /\ walk = 0 /\ closing' = TRUE
    /\ UNCHANGED <<lib, mem, ud, walk, bad>>

Finalize(u) ==
    /\ ud[u].st = "live" /\ \A v \in Ud : ud[v].st = "live" => v <= u
    /\ Ended(u, [NoUd EXCEPT !.st = "dead"])
    /\ UNCHANGED <<lib, walk, closing>>

\* Nothing is said about what happens after something went wrong.
HandlesNext ==
    /\ bad = {}
    /\ \/ /\ ~closing
          /\ \/ \E r \in Rows[lib] :
                   Call(r) \/ Make(r) \/ Take(r) \/ WalkBegin(r) \/ WalkItem(r)
             \/ WalkEnd
             \/ \E u \in Ud : Close(u) \/ Collect(u)
             \/ CloseState
       \/ closing /\ \E u \in Ud : Finalize(u)

HandlesSpec == HandlesInit /\ [][HandlesNext]_hVars

-----------------------------------------------------------------------------
\* No function, iterator or failure report of a binding follows a pointer to an
\* object that has been freed (checkcookie in utils.h), unless it got the pointer
\* from a stray userdata.
UsesLive == <<"use", FALSE>> \notin bad

\* Every function may be called and every close may fail, and still no object is
\* freed twice, by a method, the library that consumed it, __gc or lua_close, or
\* freed as part of another, except by a stray userdata: one made by a function
\* that wraps what it does not own, or one whose close reported an error and
\* kept the cookie (utils.h: the cookie of a closed object is NULL).
FreedOnce == <<"free", FALSE>> \notin bad

\* utils.h: "pointer into another object (at idx) with a ref to keep it alive".
\* No live userdata but a stray holds the address of freed memory, and none
\* depends on an object that is gone.
NoDangling ==
    bad = {} => \A u \in Ud : ud[u].st = "live" /\ ~ud[u].stray /\ Cookie(u) # 0 =>
        /\ Live(Cookie(u))
        /\ Up(Cookie(u)) # 0 => Live(Up(Cookie(u)))

\* When the Lua state has been closed, every object that ever had a userdata has
\* been given back, whatever was closed, consumed, collected or failed before.
\* What is left are blocks that functions do not free (leak) and objects whose
\* new() failed.
NothingLeft ==
    closing /\ bad = {} /\ (\A u \in Ud : ud[u].st # "live") =>
        \A o \in Mem : Live(o) => mem[o].kind = "-"
=============================================================================
