--------------------------- MODULE HandlesProofs ----------------------------
(***************************************************************************)
(* For any table of functions, any number of objects and userdata: when    *)
(* the duties of the programs cover what the functions of a binding do,    *)
(* nothing freed is used or freed again except through a stray userdata,   *)
(* no other userdata dangles, and what had a userdata is gone when the Lua *)
(* state is closed.                                                        *)
(***************************************************************************)
EXTENDS Handles, WellFoundedInduction, TLAPS

(* The parts of the invariant are stated of objects m and userdata d that  *)
(* need not be those of a state, so that an action which frees and makes   *)
(* is two steps of the proof.                                              *)
IsLive(m, o) == m[o].st = "live"
Held(d, u) == d[u].st = "live" /\ d[u].cookie # 0
Wrapped(d, u) == Held(d, u) /\ d[u].stray = FALSE
UpOf(m, o) == m[m[o].whole].up
IsPart(m, o) == m[o].whole # o

KindsOf(l) == {r.mk : r \in Rows[l]} \ {"-"}

Kinds == {"-"} \cup DOMAIN Metatables
MemType == [st : {"none", "live", "freed"}, kind : Kinds, whole : 0..NMem, up : 0..NMem]
UdType == [st : {"none", "live", "dead"}, kind : Kinds, cookie : 0..NMem, ref : 0..NUd,
           stray : BOOLEAN]

HandlesTypeOK(m, d) == m \in [Mem -> MemType] /\ d \in [Ud -> UdType]

(* A live object is a whole or a part of a live whole; what it was opened  *)
(* through is a live whole.                                                *)
ObjectShape(m) ==
  \A p \in Mem : IsLive(m, p) =>
    /\ m[p].whole \in Mem
    /\ IsLive(m, m[p].whole) /\ ~IsPart(m, m[p].whole)
    /\ m[p].up # 0 => /\ m[p].up \in Mem \ {p} /\ ~IsPart(m, p)
                      /\ IsLive(m, m[p].up) /\ ~IsPart(m, m[p].up)

(* A userdata that is no stray has a live object to itself, and frees it   *)
(* unless it is a part.                                                    *)
UdShape(m, d) ==
  /\ \A u \in Ud : d[u].st = "live" => d[u].kind \in KindsOf(lib)
  /\ \A u \in Ud : Wrapped(d, u) =>
       /\ IsLive(m, d[u].cookie)
       /\ Metatables[d[u].kind].gc <=> ~IsPart(m, d[u].cookie)
  /\ \A u, v \in Ud : Wrapped(d, u) /\ Wrapped(d, v) /\ d[u].cookie = d[v].cookie => u = v

(* A whole has a userdata, or is a block that was left behind: one that    *)
(* has no parts and no userdata, not even a stray.                         *)
Owned(m, d) ==
  \A o \in Mem : IsLive(m, o) /\ ~IsPart(m, o) =>
    \/ m[o].up = 0 /\ m[o].kind = "-"
    \/ \E u \in Ud : Wrapped(d, u) /\ d[u].cookie = o

Lost(m, d) ==
  \A o \in Mem : IsLive(m, o) /\ m[o].kind = "-" =>
    /\ \A p \in Mem : IsLive(m, p) /\ m[p].whole = o => p = o
    /\ \A v \in Ud : Held(d, v) => d[v].cookie # o

(* Where parts refer to their wholes there are no strays.                  *)
Strayed(d) ==
  \A v \in Ud : Held(d, v) /\ d[v].stray # FALSE => \A r \in Rows[lib] : r.how # "ref"

(* Numbers are given to userdata in the order of their creation, so an     *)
(* object is younger than what it depends on.                              *)
Aged(m, d) ==
  /\ \A u, v \in Ud : u < v /\ d[v].st # "none" => d[u].st # "none"
  /\ \A u, v \in Ud :
       /\ Wrapped(d, u) /\ Wrapped(d, v) /\ u # v
       /\ d[u].cookie \in {m[d[v].cookie].whole, UpOf(m, d[v].cookie)}
       => u < v

(* A part whose userdata keeps its whole alive refers to an older userdata *)
(* of the same whole.                                                      *)
Referred(m, d) ==
  \A v \in Ud : Wrapped(d, v) /\ IsPart(m, d[v].cookie) /\ d[v].kind \in Kept =>
    LET x == d[v].ref
    IN  x \in Ud /\ x < v /\ Wrapped(d, x) /\ m[d[x].cookie].whole = m[d[v].cookie].whole

(* Where there are objects that depend on others, the program has duties.  *)
Minded(m, d) ==
  /\ \A o \in Mem : IsLive(m, o) /\ m[o].up # 0 => lib \notin CloseParents \cup DropParents
  /\ \A v \in Ud : Wrapped(d, v) /\ IsPart(m, d[v].cookie) =>
       \E r \in Rows[lib] : r.how \in {"ref", "bare"}
  /\ \A v \in Ud : Wrapped(d, v) /\ m[d[v].cookie].up # 0 => d[v].kind \notin Kept
  /\ \A v \in Ud : Wrapped(d, v) /\ IsPart(m, d[v].cookie) /\ d[v].kind \notin Kept =>
       lib \notin CloseParents \cup DropParents

Shape(m, d) ==
  /\ HandlesTypeOK(m, d)
  /\ ObjectShape(m)
  /\ UdShape(m, d)
  /\ Owned(m, d)
  /\ Aged(m, d)
  /\ Referred(m, d)
  /\ Minded(m, d)
  /\ Lost(m, d)
  /\ Strayed(d)

(* What an iterator visits has a userdata, and the program does not close  *)
(* it.                                                                     *)
Visited(d) ==
  walk # 0 => lib \notin CloseInWalk /\ \E u \in Ud : Held(d, u) /\ d[u].cookie = walk

Sound ==
  /\ walk \in 0..NMem
  /\ closing \in BOOLEAN
  /\ closing => walk = 0
  /\ Shape(mem, ud)
  /\ Visited(ud)

(* What goes wrong does so through a stray.                                *)
Blameless(b) == <<"use", FALSE>> \notin b /\ <<"free", FALSE>> \notin b

HandlesInv ==
  /\ lib \in DOMAIN Table
  /\ Blameless(bad)
  /\ bad = {} => Sound
-----------------------------------------------------------------------------
(* A set of numbers that is not empty has a least element.                 *)
LEMMA Least ==
  ASSUME NEW n \in Nat, NEW S \in SUBSET (1..n), S # {}
  PROVE  \E x \in S : \A y \in S : x <= y
<1>1. IsWellFoundedOn(OpToRel(<, Nat), Nat)
  BY NatLessThanWellFounded
<1> DEFINE R == OpToRel(<, Nat)
<1>2. \A x, y \in Nat : x < y => <<x, y>> \in R
  BY DEF OpToRel
<1>3. S \subseteq Nat
  OBVIOUS
<1>4. IsWellFoundedOn(R, Nat)
  BY <1>1
<1> HIDE DEF R
<1>5. PICK x \in S : \A y \in S : ~ (<<y, x>> \in R)
  BY <1>3, <1>4, WFMin
<1>6. \A y \in S : ~ (y < x)
  BY <1>2, <1>3, <1>5, Zenon
<1>7. \A y \in S : x <= y
  BY <1>3, <1>6
<1> QED BY <1>7

(* What the table says of a function that a program may call.              *)
LEMMA RowFacts ==
  ASSUME lib \in DOMAIN Table, Covered(lib), NEW r \in Rows[lib]
  PROVE  /\ r.on \in Seq(STRING) /\ DOMAIN r.on = 1..Len(r.on) /\ Len(r.on) \in Nat
         /\ r.mk \in STRING
         /\ r.how \in {"own", "child", "bare", "ref"} \cup StrayHows
         /\ r.takes \in 0..Len(r.on)
         /\ r.takes # 0 => r.how = "own" /\ Metatables[r.on[r.takes]].gc
         /\ r.how # "own" => r.on # <<>>
         /\ r.mk # "-" => /\ r.mk \in DOMAIN Metatables /\ r.mk \in KindsOf(lib)
                          /\ Metatables[r.mk].gc <=> r.how \notin {"ref", "bare"}
         /\ r.mk \in Kept => r.how = "ref"
         /\ r.mk # "-" /\ r.how = "ref" => r.mk \in Kept
         /\ lib \in UseClosed /\ r.takes = 0 => r.chk
         /\ lib \in CloseInWalk => ~r.walks
         /\ lib \in CloseParents \cup DropParents => r.how \in {"own", "ref"} \cup StrayHows
         /\ (\E q \in Rows[lib] : q.how = "ref") =>
              /\ r.how \notin StrayHows
              /\ r.mk # "-" => Metatables[r.mk].close # "fallible"
         /\ lib \in CloseParents /\ (\E q \in Rows[lib] : q.how = "ref") =>
              /\ r.takes = 0 /\ ~r.cuts
              /\ r.mk # "-" => Metatables[r.mk].close = "none"
<1>1. PICK x \in Table[lib] : r = [x EXCEPT !.f = "-"]
  BY DEF Rows
<1>2. x \in Row
  BY HandlesAssumption
<1>3. /\ r.on = x.on /\ r.mk = x.mk /\ r.how = x.how /\ r.takes = x.takes
      /\ r.chk = x.chk /\ r.leak = x.leak /\ r.cuts = x.cuts /\ r.walks = x.walks
  <2>1. x = [f |-> x.f, on |-> x.on, mk |-> x.mk, how |-> x.how, takes |-> x.takes,
             thru |-> x.thru, chk |-> x.chk, leak |-> x.leak, cuts |-> x.cuts,
             walks |-> x.walks]
    BY <1>2 DEF Row
  <2>2. r = [f |-> "-", on |-> x.on, mk |-> x.mk, how |-> x.how, takes |-> x.takes,
             thru |-> x.thru, chk |-> x.chk, leak |-> x.leak, cuts |-> x.cuts,
             walks |-> x.walks]
    BY <1>1, <2>1
  <2> QED BY <2>2
<1>4. /\ r.on \in Seq(STRING) /\ DOMAIN r.on = 1..Len(r.on) /\ Len(r.on) \in Nat
      /\ r.mk \in STRING /\ r.takes \in Nat
  <2>1. x.on \in Seq(STRING) /\ x.mk \in STRING /\ x.takes \in Nat
    BY <1>2 DEF Row
  <2> QED BY <1>3, <2>1
<1>5. /\ x.takes <= Len(x.on)
      /\ x.how \in {"own", "child", "bare", "ref"} \cup StrayHows
      /\ x.takes # 0 => x.how = "own" /\ Metatables[x.on[x.takes]].gc
      /\ x.how # "own" => x.on # <<>>
      /\ x.mk # "-" => /\ x.mk \in DOMAIN Metatables
                       /\ Metatables[x.mk].gc <=> x.how \notin {"ref", "bare"}
  BY HandlesAssumption
<1>6. r.mk # "-" => r.mk \in KindsOf(lib)
  BY DEF KindsOf
<1>7. r.how = "ref" => r.mk \in Kept
  BY <1>3 DEF Kept
<1>8. /\ r.mk \in Kept => r.how = "ref"
      /\ lib \in UseClosed /\ r.takes = 0 => r.chk
      /\ lib \in CloseInWalk => ~r.walks
      /\ lib \in CloseParents \cup DropParents => r.how \in {"own", "ref"} \cup StrayHows
  BY DEF Covered
<1>9. ASSUME lib \in CloseParents, NEW q \in Rows[lib], q.how = "ref"
      PROVE  /\ r.takes = 0 /\ ~r.cuts
             /\ r.mk # "-" => Metatables[r.mk].close = "none"
  BY <1>9 DEF Covered
<1>10. ASSUME NEW q \in Rows[lib], q.how = "ref"
       PROVE  /\ r.how \notin StrayHows
              /\ r.mk # "-" => Metatables[r.mk].close # "fallible"
  BY <1>10 DEF Covered
<1> QED BY <1>3, <1>4, <1>5, <1>6, <1>7, <1>8, <1>9, <1>10
-----------------------------------------------------------------------------
(* Other userdata whose objects need u's.                                  *)
Needs(m, d, u) ==
  {v \in Ud \ {u} : /\ Wrapped(d, v)
                    /\ d[u].cookie \in {m[d[v].cookie].whole, UpOf(m, d[v].cookie)}}

Put(f, i, v) == [f EXCEPT ![i] = v]

TreeOf(m, o) == {o} \cup {p \in Mem : m[p].st = "live" /\ m[p].whole = o}

(* A userdata after its object was ended: closed, closed with an error, or *)
(* collected.                                                              *)
LEMMA EndedUd ==
  ASSUME NEW b \in UdType
  PROVE  /\ LET c == [b EXCEPT !.cookie = 0]
            IN  c \in UdType /\ c.cookie = 0 /\ c.st = b.st /\ c.kind = b.kind
         /\ LET c == [b EXCEPT !.stray = TRUE]
            IN  /\ c \in UdType /\ c.cookie = b.cookie /\ c.st = b.st /\ c.kind = b.kind
                /\ c.stray = TRUE
         /\ LET c == [NoUd EXCEPT !.st = "dead"]
            IN  c \in UdType /\ c.cookie = 0 /\ c.st = "dead"
<1>1. 0 \in 0..NMem /\ 0 \in 0..NUd /\ "-" \in Kinds
  BY HandlesAssumption DEF Kinds
<1>2. b = [st |-> b.st, kind |-> b.kind, cookie |-> b.cookie, ref |-> b.ref, stray |-> b.stray]
  BY DEF UdType
<1>3. [b EXCEPT !.cookie = 0]
        = [st |-> b.st, kind |-> b.kind, cookie |-> 0, ref |-> b.ref, stray |-> b.stray]
  BY <1>2
<1>4. [b EXCEPT !.stray = TRUE]
        = [st |-> b.st, kind |-> b.kind, cookie |-> b.cookie, ref |-> b.ref, stray |-> TRUE]
  <2>1. ASSUME NEW y
        PROVE  [b EXCEPT !.stray = y]
                 = [st |-> b.st, kind |-> b.kind, cookie |-> b.cookie, ref |-> b.ref, stray |-> y]
    BY <1>2
  <2> QED BY <2>1
<1>5. [NoUd EXCEPT !.st = "dead"]
        = [st |-> "dead", kind |-> "-", cookie |-> 0, ref |-> 0, stray |-> FALSE]
  <2>1. ASSUME NEW y
        PROVE  [[st |-> "none", kind |-> "-", cookie |-> 0, ref |-> 0, stray |-> y]
                   EXCEPT !.st = "dead"]
                 = [st |-> "dead", kind |-> "-", cookie |-> 0, ref |-> 0, stray |-> y]
    OBVIOUS
  <2> QED BY <2>1 DEF NoUd
<1>6. /\ b.st \in {"none", "live", "dead"} /\ b.kind \in Kinds /\ b.cookie \in 0..NMem
      /\ b.ref \in 0..NUd /\ b.stray \in BOOLEAN
  BY DEF UdType
<1>7. [st |-> b.st, kind |-> b.kind, cookie |-> 0, ref |-> b.ref, stray |-> b.stray] \in UdType
  BY <1>1, <1>6 DEF UdType
<1>8. [st |-> b.st, kind |-> b.kind, cookie |-> b.cookie, ref |-> b.ref, stray |-> TRUE] \in UdType
  BY <1>1, <1>6 DEF UdType
<1>9. [st |-> "dead", kind |-> "-", cookie |-> 0, ref |-> 0, stray |-> FALSE] \in UdType
  BY <1>1 DEF UdType
<1> QED BY <1>3, <1>4, <1>5, <1>7, <1>8, <1>9

(* An object that no other needs is freed, and its userdata is closed,     *)
(* left a stray, or collected.                                             *)
LEMMA FreeOne ==
  ASSUME NEW m, NEW d, Shape(m, d), NEW u \in Ud, Wrapped(d, u),
         ~IsPart(m, d[u].cookie), Needs(m, d, u) = {},
         NEW e, \/ e \in {[d[u] EXCEPT !.cookie = 0], [NoUd EXCEPT !.st = "dead"]}
                \/ /\ e = [d[u] EXCEPT !.stray = TRUE]
                   /\ \A r \in Rows[lib] : r.how # "ref"
  PROVE  /\ Shape(Freed(m, TreeOf(m, d[u].cookie)), Put(d, u, e))
         /\ \A v \in Ud \ {u} : Put(d, u, e)[v] = d[v]
<1> DEFINE o == d[u].cookie
           m2 == Freed(m, TreeOf(m, o))
           d2 == Put(d, u, e)
<1> USE DEF Shape, Put
<1>1. /\ o \in Mem /\ IsLive(m, o) /\ m[o].whole = o
      /\ Mem \subseteq 0..NMem /\ 0 \notin Mem
  BY HandlesAssumption DEF HandlesTypeOK, UdType, UdShape, Wrapped, Held, Mem, IsPart
<1>2. /\ m2 \in [Mem -> MemType]
      /\ \A p \in Mem : m2[p].whole = m[p].whole /\ m2[p].up = m[p].up /\ m2[p].kind = m[p].kind
      /\ \A p \in Mem : IsLive(m2, p) <=> IsLive(m, p) /\ m[p].whole # o
  BY <1>1 DEF HandlesTypeOK, MemType, Freed, TreeOf, IsLive
<1>3. /\ d2 \in [Ud -> UdType]
      /\ \A v \in Ud \ {u} : d2[v] = d[v]
      /\ ~Wrapped(d2, u) /\ d2[u].st # "none"
      /\ d2[u].st = "live" => d2[u].kind = d[u].kind
      /\ Held(d2, u) => d2[u].cookie = d[u].cookie /\ \A r \in Rows[lib] : r.how # "ref"
  <2>1. d[u] \in UdType /\ d \in [Ud -> UdType] /\ d[u].st = "live"
    BY DEF HandlesTypeOK, Wrapped, Held
  <2>2. /\ e \in UdType /\ e.st \in {"live", "dead"}
        /\ e.st = "live" => e.kind = d[u].kind
        /\ \/ e.cookie = 0
           \/ e.cookie = d[u].cookie /\ e.stray = TRUE /\ \A r \in Rows[lib] : r.how # "ref"
    BY <2>1, EndedUd
  <2> QED BY <2>1, <2>2 DEF Wrapped, Held
<1>4. \A v \in Ud : Wrapped(d2, v) => v # u /\ Wrapped(d, v) /\ d2[v] = d[v]
  BY <1>3 DEF Wrapped, Held
<1>5. \A v \in Ud : Wrapped(d, v) /\ v # u =>
        /\ d[v].cookie \in Mem /\ IsLive(m, d[v].cookie) /\ d[v].cookie # o
        /\ m[d[v].cookie].whole # o /\ UpOf(m, d[v].cookie) # o
  BY <1>1 DEF Needs, UdShape, Wrapped, Held, HandlesTypeOK, UdType, Mem
<1>6. \A p \in Mem : IsLive(m, p) /\ m[p].up = o => FALSE
  <2> SUFFICES ASSUME NEW p \in Mem, IsLive(m, p), m[p].up = o PROVE FALSE
    OBVIOUS
  <2>1. ~IsPart(m, p) /\ p # o /\ m[p].up # 0
    BY <1>1 DEF ObjectShape
  <2>2. PICK v \in Ud : Wrapped(d, v) /\ d[v].cookie = p
    BY <2>1 DEF Owned
  <2> QED BY <1>5, <2>1, <2>2 DEF UpOf, IsPart
<1>7. HandlesTypeOK(m2, d2)
  BY <1>2, <1>3 DEF HandlesTypeOK
<1> HIDE DEF o, m2, d2
<1>8. ObjectShape(m2)
  <2> SUFFICES ASSUME NEW p \in Mem, IsLive(m2, p)
               PROVE  /\ m2[p].whole \in Mem
                      /\ IsLive(m2, m2[p].whole) /\ ~IsPart(m2, m2[p].whole)
                      /\ m2[p].up # 0 => /\ m2[p].up \in Mem \ {p} /\ ~IsPart(m2, p)
                                         /\ IsLive(m2, m2[p].up) /\ ~IsPart(m2, m2[p].up)
    BY DEF ObjectShape
  <2>1. /\ IsLive(m, p) /\ m[p].whole # o /\ m[p].whole \in Mem
        /\ IsLive(m, m[p].whole) /\ m[m[p].whole].whole = m[p].whole
        /\ m[p].up # 0 => /\ m[p].up \in Mem \ {p} /\ ~IsPart(m, p)
                          /\ IsLive(m, m[p].up) /\ m[m[p].up].whole = m[p].up
    BY <1>2 DEF ObjectShape, IsPart
  <2> QED BY <1>2, <1>6, <2>1 DEF IsPart
<1>9. UdShape(m2, d2)
  BY <1>2, <1>3, <1>4, <1>5 DEF UdShape, IsPart, Wrapped, Held
<1>10. Owned(m2, d2)
  <2> SUFFICES ASSUME NEW p \in Mem, IsLive(m2, p), ~IsPart(m2, p),
                      ~(m2[p].up = 0 /\ m2[p].kind = "-")
               PROVE  \E v \in Ud : Wrapped(d2, v) /\ d2[v].cookie = p
    BY DEF Owned
  <2>1. /\ IsLive(m, p) /\ ~IsPart(m, p) /\ p # o
        /\ m[p].up = m2[p].up /\ m[p].kind = m2[p].kind
    BY <1>2 DEF IsPart
  <2>2. PICK v \in Ud : Wrapped(d, v) /\ d[v].cookie = p
    BY <2>1 DEF Owned
  <2>3. v # u
    BY <2>1, <2>2 DEF o
  <2> QED BY <1>3, <2>2, <2>3 DEF Wrapped, Held
<1>11. Aged(m2, d2)
  <2>1. \A v \in Ud : d2[v].st # "none" <=> d[v].st # "none"
    BY <1>3 DEF Wrapped, Held
  <2>2. \A v \in Ud : Wrapped(d2, v) =>
          m2[d2[v].cookie].whole = m[d[v].cookie].whole /\ UpOf(m2, d2[v].cookie) = UpOf(m, d[v].cookie)
    BY <1>2, <1>4, <1>5 DEF UpOf, ObjectShape
  <2> QED BY <1>4, <2>1, <2>2 DEF Aged
<1>12. Referred(m2, d2)
  <2> SUFFICES ASSUME NEW v \in Ud, Wrapped(d2, v), IsPart(m2, d2[v].cookie), d2[v].kind \in Kept
               PROVE  LET x == d2[v].ref
                      IN  /\ x \in Ud /\ x < v /\ Wrapped(d2, x)
                          /\ m2[d2[x].cookie].whole = m2[d2[v].cookie].whole
    BY DEF Referred
  <2> DEFINE x == d[v].ref
  <2>1. /\ d2[v] = d[v] /\ v # u /\ Wrapped(d, v) /\ IsPart(m, d[v].cookie)
    BY <1>2, <1>4, <1>5 DEF IsPart
  <2>2. /\ x \in Ud /\ x < v /\ Wrapped(d, x)
        /\ m[d[x].cookie].whole = m[d[v].cookie].whole
    BY <2>1 DEF Referred
  <2>3. x # u
    BY <1>1, <1>5, <2>1, <2>2 DEF o
  <2> QED BY <1>2, <1>3, <1>5, <2>1, <2>2, <2>3 DEF Wrapped, Held
<1>13. Minded(m2, d2)
  <2>1. \A p \in Mem : IsLive(m2, p) => IsLive(m, p) /\ m2[p].up = m[p].up /\ (IsPart(m2, p) <=> IsPart(m, p))
    BY <1>2 DEF IsPart
  <2>2. \A v \in Ud : Wrapped(d2, v) =>
          /\ Wrapped(d, v) /\ d2[v] = d[v]
          /\ m2[d2[v].cookie].up = m[d[v].cookie].up
          /\ IsPart(m2, d2[v].cookie) <=> IsPart(m, d[v].cookie)
    BY <1>2, <1>4, <1>5 DEF IsPart
  <2> QED BY <2>1, <2>2 DEF Minded
<1>14. \A v \in Ud : Held(d2, v) => Held(d, v) /\ d2[v].cookie = d[v].cookie
  BY <1>3 DEF Wrapped, Held
<1>15. Lost(m2, d2)
  BY <1>2, <1>14 DEF Lost
<1>16. Strayed(d2)
  <2>1. \A v \in Ud : Held(d2, v) /\ v # u => Held(d, v) /\ d2[v] = d[v]
    BY <1>3 DEF Held
  <2> QED BY <1>3, <2>1 DEF Strayed
<1>17. Shape(m2, d2)
  BY <1>7, <1>8, <1>9, <1>10, <1>11, <1>12, <1>13, <1>15, <1>16
<1> QED BY <1>3, <1>17 DEF m2, d2, o

(* A userdata that has no object, or a part, or is a stray is collected.   *)
LEMMA DropOne ==
  ASSUME NEW m, NEW d, Shape(m, d), NEW u \in Ud, d[u].st = "live",
         Wrapped(d, u) => IsPart(m, d[u].cookie),
         \A v \in Ud : d[v].st = "live" /\ u < v => d[v].ref # u
  PROVE  /\ Shape(m, Put(d, u, [NoUd EXCEPT !.st = "dead"]))
         /\ \A v \in Ud \ {u} : Put(d, u, [NoUd EXCEPT !.st = "dead"])[v] = d[v]
<1> USE DEF Shape, Put
<1> DEFINE d2 == Put(d, u, [NoUd EXCEPT !.st = "dead"])
<1>1. /\ d2 \in [Ud -> UdType]
      /\ \A v \in Ud \ {u} : d2[v] = d[v]
      /\ ~Wrapped(d2, u) /\ d2[u].st = "dead"
  <2>1. d[u] \in UdType /\ d \in [Ud -> UdType]
    BY DEF HandlesTypeOK
  <2> QED BY <2>1, EndedUd DEF Wrapped, Held
<1>2. \A v \in Ud : Wrapped(d2, v) => v # u /\ Wrapped(d, v) /\ d2[v] = d[v]
  BY <1>1 DEF Wrapped, Held
<1> HIDE DEF d2
<1>3. HandlesTypeOK(m, d2) /\ ObjectShape(m)
  BY <1>1 DEF HandlesTypeOK
<1>4. UdShape(m, d2)
  BY <1>1, <1>2 DEF UdShape
<1>5. Owned(m, d2)
  BY <1>1 DEF Owned, Wrapped, Held
<1>6. Aged(m, d2)
  BY <1>1, <1>2 DEF Aged
<1>7. Referred(m, d2)
  BY <1>1, <1>2 DEF Referred, Wrapped, Held
<1>8. Minded(m, d2)
  BY <1>2 DEF Minded
<1>9. \A v \in Ud : Held(d2, v) => v # u /\ Held(d, v) /\ d2[v] = d[v]
  BY <1>1 DEF Held
<1>10. Lost(m, d2) /\ Strayed(d2)
  BY <1>9 DEF Lost, Strayed
<1>11. Shape(m, d2)
  BY <1>3, <1>4, <1>5, <1>6, <1>7, <1>8, <1>10
<1> QED BY <1>1, <1>11 DEF d2

(* An address that nothing holds, and the next number for a userdata.      *)
Spare(m, d, o) ==
  /\ o \in Mem /\ ~IsLive(m, o)
  /\ \A u \in Ud : d[u].st = "live" => d[u].cookie # o
  /\ \A p \in Mem : IsLive(m, p) => o \notin {m[p].up, m[p].whole}

Next1(d, u) == u \in Ud /\ d[u].st = "none" /\ \A v \in Ud : d[v].st = "none" => u <= v

(* The object and the userdata that a function makes from what the         *)
(* userdata x has.                                                         *)
ObjectOf(m, d, r, x, o) ==
  LET f == d[x].cookie
  IN  [st |-> "live", kind |-> r.mk,
       whole |-> IF r.how \in {"bare", "ref"} THEN m[f].whole ELSE o,
       up |-> IF r.how = "child" THEN IF UpOf(m, f) = 0 THEN m[f].whole ELSE UpOf(m, f) ELSE 0]

UdOf(r, x, o) ==
  [st |-> "live", kind |-> r.mk, cookie |-> o, ref |-> IF r.how = "ref" THEN x ELSE 0,
   stray |-> FALSE]

(* What lies below a live object, and so below a userdata that has one.    *)
LEMMA Under ==
  ASSUME NEW m, NEW d, Shape(m, d), NEW f \in Mem, IsLive(m, f)
  PROVE  LET w == m[f].whole
         IN  /\ w \in Mem /\ IsLive(m, w) /\ m[w].whole = w
             /\ UpOf(m, f) # 0 => /\ UpOf(m, f) \in Mem
                                  /\ IsLive(m, UpOf(m, f))
                                  /\ m[UpOf(m, f)].whole = UpOf(m, f)
  BY DEF Shape, ObjectShape, UpOf, IsPart

LEMMA Below ==
  ASSUME NEW m, NEW d, Shape(m, d), NEW x \in Ud, Wrapped(d, x)
  PROVE  LET f == d[x].cookie
             w == m[f].whole
         IN  /\ f \in Mem /\ IsLive(m, f)
             /\ w \in Mem /\ IsLive(m, w) /\ m[w].whole = w
             /\ UpOf(m, f) # 0 => /\ UpOf(m, f) \in Mem
                                  /\ IsLive(m, UpOf(m, f))
                                  /\ m[UpOf(m, f)].whole = UpOf(m, f)
<1>1. d[x].cookie \in Mem
  BY HandlesAssumption DEF Shape, HandlesTypeOK, UdType, Wrapped, Held, Mem
<1>2. IsLive(m, d[x].cookie)
  BY DEF Shape, UdShape
<1> QED BY <1>1, <1>2, Under

(* No block that was left behind is below a userdata.                      *)
LEMMA NotLost ==
  ASSUME NEW m, NEW d, Shape(m, d), NEW x \in Ud, Held(d, x),
         d[x].cookie \in Mem, IsLive(m, d[x].cookie)
  PROVE  m[d[x].cookie].kind # "-" /\ m[m[d[x].cookie].whole].kind # "-"
<1>1. m[d[x].cookie].whole \in Mem /\ IsLive(m, m[d[x].cookie].whole)
  BY Under
<1> QED BY <1>1 DEF Shape, Lost

MayBear(m, d, r, x, o, u) ==
  /\ Shape(m, d)
  /\ r \in Rows[lib] /\ r.mk # "-" /\ r.how \notin StrayHows
  /\ r.how # "own" => x \in Ud /\ Held(d, x) /\ d[x].cookie \in Mem /\ IsLive(m, d[x].cookie)
  /\ r.how = "ref" => Wrapped(d, x)
  /\ Spare(m, d, o)
  /\ Next1(d, u)

LEMMA BearOne ==
  ASSUME lib \in DOMAIN Table, Covered(lib), NEW m, NEW d, NEW r, NEW x, NEW o, NEW u,
         MayBear(m, d, r, x, o, u)
  PROVE  /\ Shape(Put(m, o, ObjectOf(m, d, r, x, o)), Put(d, u, UdOf(r, x, o)))
         /\ \A v \in Ud \ {u} : Put(d, u, UdOf(r, x, o))[v] = d[v]
<1> USE DEF MayBear
<1> USE DEF Shape, Put
<1> DEFINE f == d[x].cookie
           w == m[f].whole
           q == UpOf(m, f)
           b == ObjectOf(m, d, r, x, o)
           c == UdOf(r, x, o)
           m2 == Put(m, o, b)
           d2 == Put(d, u, c)
<1>1. /\ o \in Mem /\ ~IsLive(m, o) /\ u \in Ud /\ d[u].st = "none"
      /\ 0 \notin Mem /\ Mem \subseteq 0..NMem /\ 0 \in 0..NMem
      /\ Ud \subseteq 0..NUd /\ 0 \in 0..NUd
  BY HandlesAssumption DEF Spare, Next1, Mem, Ud
<1>2. r.how # "own" => /\ x \in Ud /\ Held(d, x) /\ x # u
                       /\ f \in Mem /\ IsLive(m, f) /\ f # o
                       /\ w \in Mem /\ IsLive(m, w) /\ m[w].whole = w /\ w # o
                       /\ m[w].kind # "-"
                       /\ q # 0 => q \in Mem /\ IsLive(m, q) /\ m[q].whole = q /\ q # o
  <2> SUFFICES ASSUME r.how # "own"
               PROVE  /\ x \in Ud /\ Held(d, x) /\ x # u
                      /\ f \in Mem /\ IsLive(m, f) /\ f # o
                      /\ w \in Mem /\ IsLive(m, w) /\ m[w].whole = w /\ w # o
                      /\ m[w].kind # "-"
                      /\ q # 0 => q \in Mem /\ IsLive(m, q) /\ m[q].whole = q /\ q # o
    OBVIOUS
  <2>1. x \in Ud /\ Held(d, x) /\ x # u /\ f \in Mem /\ IsLive(m, f) /\ f # o
    BY <1>1 DEF Held
  <2>2. /\ w \in Mem /\ IsLive(m, w) /\ m[w].whole = w
        /\ q # 0 => q \in Mem /\ IsLive(m, q) /\ m[q].whole = q
    BY <2>1, Under
  <2>3. m[w].kind # "-"
    BY <2>1, NotLost
  <2> QED BY <1>1, <2>1, <2>2, <2>3
<1>3. /\ r.how \in {"own", "child", "bare", "ref"} /\ r.mk \in KindsOf(lib) /\ r.mk \in Kinds
      /\ Metatables[r.mk].gc <=> r.how \notin {"ref", "bare"}
      /\ r.mk \in Kept <=> r.how = "ref"
      /\ lib \in CloseParents \cup DropParents => r.how \in {"own", "ref"}
  BY RowFacts DEF Kinds, StrayHows
<1>4. /\ b.st = "live" /\ b.kind = r.mk
      /\ b.whole = (IF r.how \in {"bare", "ref"} THEN w ELSE o)
      /\ b.up = (IF r.how = "child" THEN IF q = 0 THEN w ELSE q ELSE 0)
      /\ c.st = "live" /\ c.kind = r.mk /\ c.cookie = o
      /\ c.ref = (IF r.how = "ref" THEN x ELSE 0) /\ c.stray = FALSE
  BY DEF ObjectOf, UdOf
<1>5. b \in MemType /\ c \in UdType
  <2>1. b.whole \in 0..NMem /\ b.up \in 0..NMem
    BY <1>1, <1>2, <1>3, <1>4
  <2>2. c.cookie \in 0..NMem /\ c.ref \in 0..NUd
    BY <1>1, <1>2, <1>3, <1>4
  <2>3. b \in MemType
    BY <1>3, <1>4, <2>1 DEF MemType, ObjectOf
  <2>4. c \in UdType
    BY <1>3, <1>4, <2>2 DEF UdType, UdOf
  <2> QED BY <2>3, <2>4
<1> HIDE DEF f, w, q, b, c
<1>6. /\ m2 \in [Mem -> MemType] /\ m2[o] = b
      /\ \A p \in Mem \ {o} : m2[p] = m[p]
  BY <1>1, <1>5 DEF HandlesTypeOK, b
<1>7. /\ d2 \in [Ud -> UdType] /\ d2[u] = c
      /\ \A v \in Ud \ {u} : d2[v] = d[v]
  BY <1>1, <1>5 DEF HandlesTypeOK, c
<1> HIDE DEF m2, d2
<1>8. HandlesTypeOK(m2, d2)
  BY <1>6, <1>7 DEF HandlesTypeOK
(* The rest of the world does not see the new object.                      *)
<1>9. \A p \in Mem : IsLive(m, p) =>
        /\ p # o /\ IsLive(m2, p) /\ m2[p] = m[p] /\ m[p].whole # o /\ m[p].whole \in Mem
        /\ m2[m[p].whole] = m[m[p].whole] /\ UpOf(m2, p) = UpOf(m, p) /\ UpOf(m, p) # o
        /\ IsPart(m2, p) <=> IsPart(m, p)
  <2> SUFFICES ASSUME NEW p \in Mem, IsLive(m, p)
               PROVE  /\ p # o /\ IsLive(m2, p) /\ m2[p] = m[p] /\ m[p].whole # o /\ m[p].whole \in Mem
                      /\ m2[m[p].whole] = m[m[p].whole] /\ UpOf(m2, p) = UpOf(m, p) /\ UpOf(m, p) # o
                      /\ IsPart(m2, p) <=> IsPart(m, p)
    OBVIOUS
  <2>1. p # o /\ m2[p] = m[p] /\ m[p].whole # o
    BY <1>1, <1>6 DEF Spare
  <2>2. m[p].whole \in Mem /\ IsLive(m, m[p].whole)
    BY DEF ObjectShape
  <2>3. m2[m[p].whole] = m[m[p].whole] /\ m[m[p].whole].up # o
    BY <1>6, <2>1, <2>2 DEF Spare
  <2> QED BY <2>1, <2>2, <2>3 DEF IsLive, UpOf, IsPart
<1>10. \A p \in Mem : IsLive(m2, p) => p = o \/ (p # o /\ IsLive(m, p))
  BY <1>6 DEF IsLive
<1>11. \A v \in Ud : Wrapped(d2, v) =>
         \/ v = u
         \/ /\ v # u /\ Wrapped(d, v) /\ d2[v] = d[v] /\ v < u
            /\ d[v].cookie \in Mem /\ IsLive(m, d[v].cookie) /\ d[v].cookie # o
  <2> SUFFICES ASSUME NEW v \in Ud, Wrapped(d2, v), v # u
               PROVE  /\ Wrapped(d, v) /\ d2[v] = d[v] /\ v < u
                      /\ d[v].cookie \in Mem /\ IsLive(m, d[v].cookie) /\ d[v].cookie # o
    OBVIOUS
  <2>1. Wrapped(d, v) /\ d2[v] = d[v]
    BY <1>7 DEF Wrapped, Held
  <2>2. ~(u < v)
    BY <1>1, <2>1 DEF Aged, Wrapped, Held
  <2>3. v < u
    BY <1>1, <2>2, HandlesAssumption DEF Ud
  <2> QED BY <1>1, <2>1, <2>3, Below
<1>12. \A v \in Ud : Wrapped(d, v) => Wrapped(d2, v) /\ d2[v] = d[v] /\ v # u
  BY <1>1, <1>7 DEF Wrapped, Held
<1>13. ObjectShape(m2)
  <2> SUFFICES ASSUME NEW p \in Mem, IsLive(m2, p)
               PROVE  /\ m2[p].whole \in Mem
                      /\ IsLive(m2, m2[p].whole) /\ ~IsPart(m2, m2[p].whole)
                      /\ m2[p].up # 0 => /\ m2[p].up \in Mem \ {p} /\ ~IsPart(m2, p)
                                         /\ IsLive(m2, m2[p].up) /\ ~IsPart(m2, m2[p].up)
    BY DEF ObjectShape
  <2>1. CASE p # o
    <3>1. /\ IsLive(m, p) /\ m2[p] = m[p] /\ m[p].whole \in Mem
          /\ IsLive(m, m[p].whole) /\ ~IsPart(m, m[p].whole)
          /\ m[p].up # 0 => /\ m[p].up \in Mem \ {p} /\ ~IsPart(m, p)
                            /\ IsLive(m, m[p].up) /\ ~IsPart(m, m[p].up)
      BY <1>9, <1>10, <2>1 DEF ObjectShape
    <3> QED BY <1>9, <3>1
  <2>2. CASE p = o
    <3>1. CASE r.how = "own"
      BY <1>1, <1>4, <1>6, <2>2, <3>1 DEF IsPart, IsLive
    <3>2. CASE r.how \in {"ref", "bare"}
      <4>1. m2[p].whole = w /\ m2[p].up = 0
        BY <1>4, <1>6, <2>2, <3>2
      <4>2. w \in Mem /\ IsLive(m2, w) /\ m2[w].whole = w
        BY <1>2, <1>9, <3>2
      <4> QED BY <4>1, <4>2 DEF IsPart
    <3>3. CASE r.how = "child"
      BY <1>1, <1>2, <1>4, <1>6, <1>9, <2>2, <3>3 DEF IsPart, IsLive
    <3> QED BY <1>3, <3>1, <3>2, <3>3
  <2> QED BY <2>1, <2>2
<1>14. UdShape(m2, d2)
  <2>1. \A v \in Ud : d2[v].st = "live" => d2[v].kind \in KindsOf(lib)
    BY <1>3, <1>4, <1>7 DEF UdShape
  <2>2. IsLive(m2, o) /\ (Metatables[d2[u].kind].gc <=> ~IsPart(m2, o))
    BY <1>2, <1>3, <1>4, <1>6, <1>7 DEF IsLive, IsPart
  <2>3. \A v \in Ud : Wrapped(d2, v) =>
          /\ IsLive(m2, d2[v].cookie)
          /\ Metatables[d2[v].kind].gc <=> ~IsPart(m2, d2[v].cookie)
    BY <1>4, <1>7, <1>9, <1>11, <2>2 DEF UdShape
  <2>4. \A t, v \in Ud : Wrapped(d2, t) /\ Wrapped(d2, v) /\ d2[t].cookie = d2[v].cookie => t = v
    BY <1>4, <1>7, <1>11 DEF UdShape
  <2> QED BY <2>1, <2>3, <2>4 DEF UdShape
<1>15. Owned(m2, d2)
  <2>1. Wrapped(d2, u) /\ d2[u].cookie = o
    BY <1>1, <1>4, <1>7 DEF Wrapped, Held
  <2>2. ASSUME NEW p \in Mem, IsLive(m2, p), ~IsPart(m2, p), p # o
        PROVE  \/ m2[p].up = 0 /\ m2[p].kind = "-"
               \/ \E v \in Ud : Wrapped(d2, v) /\ d2[v].cookie = p
    <3>1. IsLive(m, p) /\ ~IsPart(m, p) /\ m2[p] = m[p]
      BY <1>9, <1>10, <2>2
    <3>2. CASE m[p].up = 0 /\ m[p].kind = "-"
      BY <3>1, <3>2
    <3>3. CASE \E v \in Ud : Wrapped(d, v) /\ d[v].cookie = p
      BY <1>12, <3>3
    <3> QED BY <3>1, <3>2, <3>3 DEF Owned
  <2> QED BY <1>1, <2>1, <2>2 DEF Owned
<1>16. Aged(m2, d2)
  <2>1. \A t, v \in Ud : t < v /\ d2[v].st # "none" => d2[t].st # "none"
    <3>1. \A t \in Ud : t < u => d[t].st # "none"
      BY HandlesAssumption DEF Next1, Ud
    <3>2. d2[u].st # "none"
      BY <1>4, <1>7
    <3> QED BY <1>7, <3>1, <3>2 DEF Aged
  <2>2. \A v \in Ud : Wrapped(d2, v) /\ v # u =>
          /\ m2[d2[v].cookie].whole = m[d[v].cookie].whole
          /\ UpOf(m2, d2[v].cookie) = UpOf(m, d[v].cookie)
          /\ o \notin {m[d[v].cookie].whole, UpOf(m, d[v].cookie)}
    BY <1>9, <1>11
  <2>3. ASSUME NEW t \in Ud, NEW v \in Ud, Wrapped(d2, t), Wrapped(d2, v), t # v,
               d2[t].cookie \in {m2[d2[v].cookie].whole, UpOf(m2, d2[v].cookie)}
        PROVE  t < v
    <3>1. CASE v = u
      BY <1>11, <2>3, <3>1
    <3>2. CASE v # u /\ t = u
      BY <1>4, <1>7, <2>2, <2>3, <3>2
    <3>3. CASE v # u /\ t # u
      BY <1>11, <2>2, <2>3, <3>3 DEF Aged
    <3> QED BY <3>1, <3>2, <3>3
  <2> QED BY <2>1, <2>3 DEF Aged
<1>17. Referred(m2, d2)
  <2> SUFFICES ASSUME NEW v \in Ud, Wrapped(d2, v), IsPart(m2, d2[v].cookie), d2[v].kind \in Kept
               PROVE  LET y == d2[v].ref
                      IN  /\ y \in Ud /\ y < v /\ Wrapped(d2, y)
                          /\ m2[d2[y].cookie].whole = m2[d2[v].cookie].whole
    BY DEF Referred
  <2>1. CASE v = u
    <3>1. r.how = "ref" /\ d2[v].ref = x /\ m2[d2[v].cookie].whole = w
      BY <1>3, <1>4, <1>6, <1>7, <2>1
    <3>2. x \in Ud /\ x # u /\ Wrapped(d, x) /\ Wrapped(d2, x) /\ d2[x] = d[x]
      BY <1>2, <1>12, <3>1
    <3>3. x < u /\ m2[d2[x].cookie].whole = w
      BY <1>2, <1>9, <1>11, <3>1, <3>2 DEF f, w
    <3> QED BY <2>1, <3>1, <3>2, <3>3
  <2>2. CASE v # u
    <3>1. /\ Wrapped(d, v) /\ d2[v] = d[v] /\ IsPart(m, d[v].cookie)
          /\ m2[d[v].cookie] = m[d[v].cookie]
      BY <1>9, <1>11, <2>2
    <3> DEFINE y == d[v].ref
    <3>2. /\ y \in Ud /\ y < v /\ Wrapped(d, y)
          /\ m[d[y].cookie].whole = m[d[v].cookie].whole
      BY <3>1 DEF Referred
    <3>3. Wrapped(d2, y) /\ d2[y] = d[y] /\ m2[d[y].cookie] = m[d[y].cookie]
      BY <1>9, <1>11, <1>12, <3>2
    <3> QED BY <3>1, <3>2, <3>3
  <2> QED BY <2>1, <2>2
<1>18. Minded(m2, d2)
  <2>1. \A p \in Mem : IsLive(m2, p) /\ m2[p].up # 0 => lib \notin CloseParents \cup DropParents
    <3>1. b.up # 0 => lib \notin CloseParents \cup DropParents
      BY <1>3, <1>4
    <3> QED BY <1>6, <1>9, <1>10, <3>1 DEF Minded
  <2>2. \A v \in Ud : Wrapped(d2, v) /\ IsPart(m2, d2[v].cookie) =>
          \E s \in Rows[lib] : s.how \in {"ref", "bare"}
    <3>1. b.whole # o => r.how \in {"ref", "bare"}
      BY <1>4
    <3>2. IsPart(m2, d2[u].cookie) => r.how \in {"ref", "bare"}
      BY <1>4, <1>6, <1>7, <3>1 DEF IsPart
    <3> QED BY <1>9, <1>11, <3>2 DEF Minded
  <2>3. \A v \in Ud : Wrapped(d2, v) /\ m2[d2[v].cookie].up # 0 => d2[v].kind \notin Kept
    <3>1. m2[d2[u].cookie].up # 0 => d2[u].kind \notin Kept
      BY <1>3, <1>4, <1>6, <1>7
    <3> QED BY <1>9, <1>11, <3>1 DEF Minded
  <2>4. \A v \in Ud : Wrapped(d2, v) /\ IsPart(m2, d2[v].cookie) /\ d2[v].kind \notin Kept =>
          lib \notin CloseParents \cup DropParents
    <3>1. IsPart(m2, d2[u].cookie) /\ d2[u].kind \notin Kept => lib \notin CloseParents \cup DropParents
      BY <1>3, <1>4, <1>6, <1>7 DEF IsPart
    <3> QED BY <1>9, <1>11, <3>1 DEF Minded
  <2> QED BY <2>1, <2>2, <2>3, <2>4 DEF Minded
<1>19. Lost(m2, d2)
  <2> SUFFICES ASSUME NEW p \in Mem, IsLive(m2, p), m2[p].kind = "-"
               PROVE  /\ \A t \in Mem : IsLive(m2, t) /\ m2[t].whole = p => t = p
                      /\ \A v \in Ud : Held(d2, v) => d2[v].cookie # p
    BY DEF Lost
  <2>1. p # o /\ IsLive(m, p) /\ m[p].kind = "-"
    BY <1>4, <1>6, <1>9, <1>10
  <2>2. b.whole # p
    BY <1>2, <1>4, <2>1
  <2>3. \A t \in Mem : IsLive(m2, t) /\ m2[t].whole = p => t = p
    BY <1>6, <1>9, <1>10, <2>1, <2>2 DEF Lost
  <2>4. \A v \in Ud : Held(d2, v) => d2[v].cookie # p
    BY <1>4, <1>7, <2>1 DEF Lost, Held
  <2> QED BY <2>3, <2>4
<1>20. Strayed(d2)
  BY <1>4, <1>7 DEF Strayed, Held
<1>21. Shape(m2, d2)
  BY <1>8, <1>13, <1>14, <1>15, <1>16, <1>17, <1>18, <1>19, <1>20
<1> QED BY <1>7, <1>21 DEF m2, d2, b, c

(* An object to which no userdata has a right: a block that is left behind *)
(* or a part of an object.                                                 *)
Loose(m, o, b) ==
  /\ b \in MemType /\ b.st = "live" /\ b.up = 0
  /\ \/ b.whole = o /\ b.kind = "-"
     \/ /\ b.whole \in Mem /\ IsLive(m, b.whole) /\ m[b.whole].whole = b.whole
        /\ b.kind # "-" /\ m[b.whole].kind # "-"

LEMMA AddLoose ==
  ASSUME NEW m, NEW d, Shape(m, d), NEW o, Spare(m, d, o), NEW b, Loose(m, o, b)
  PROVE  Shape(Put(m, o, b), d)
<1> USE DEF Shape, Put
<1> DEFINE m2 == Put(m, o, b)
<1>1. o \in Mem /\ ~IsLive(m, o) /\ 0 \notin Mem
  BY HandlesAssumption DEF Spare, Mem
<1>3. /\ b \in MemType /\ b.st = "live" /\ b.up = 0
      /\ \/ b.whole = o /\ b.kind = "-"
         \/ /\ b.whole \in Mem /\ IsLive(m, b.whole) /\ m[b.whole].whole = b.whole
            /\ b.whole # o /\ b.kind # "-" /\ m[b.whole].kind # "-"
  BY <1>1 DEF Loose
<1>4. /\ m2 \in [Mem -> MemType] /\ m2[o] = b
      /\ \A p \in Mem \ {o} : m2[p] = m[p]
  BY <1>1, <1>3 DEF HandlesTypeOK
<1> HIDE DEF m2
<1>5. \A p \in Mem : IsLive(m, p) =>
        /\ p # o /\ IsLive(m2, p) /\ m2[p] = m[p] /\ m[p].whole # o /\ m[p].whole \in Mem
        /\ m2[m[p].whole] = m[m[p].whole] /\ UpOf(m2, p) = UpOf(m, p)
        /\ IsPart(m2, p) <=> IsPart(m, p)
  <2> SUFFICES ASSUME NEW p \in Mem, IsLive(m, p)
               PROVE  /\ p # o /\ IsLive(m2, p) /\ m2[p] = m[p] /\ m[p].whole # o /\ m[p].whole \in Mem
                      /\ m2[m[p].whole] = m[m[p].whole] /\ UpOf(m2, p) = UpOf(m, p)
                      /\ IsPart(m2, p) <=> IsPart(m, p)
    OBVIOUS
  <2>1. p # o /\ m2[p] = m[p] /\ m[p].whole # o /\ m[p].whole \in Mem
    BY <1>1, <1>4 DEF Spare, ObjectShape
  <2> QED BY <1>4, <2>1 DEF IsLive, UpOf, IsPart
<1>6. \A p \in Mem : IsLive(m2, p) => p = o \/ (p # o /\ IsLive(m, p))
  BY <1>4 DEF IsLive
<1>7. \A v \in Ud : Wrapped(d, v) =>
        d[v].cookie \in Mem /\ IsLive(m, d[v].cookie)
  BY Below
<1>8. HandlesTypeOK(m2, d)
  BY <1>4 DEF HandlesTypeOK
<1>9. ObjectShape(m2)
  <2> SUFFICES ASSUME NEW p \in Mem, IsLive(m2, p)
               PROVE  /\ m2[p].whole \in Mem
                      /\ IsLive(m2, m2[p].whole) /\ ~IsPart(m2, m2[p].whole)
                      /\ m2[p].up # 0 => /\ m2[p].up \in Mem \ {p} /\ ~IsPart(m2, p)
                                         /\ IsLive(m2, m2[p].up) /\ ~IsPart(m2, m2[p].up)
    BY DEF ObjectShape
  <2>1. CASE p # o
    <3>1. /\ IsLive(m, p) /\ m2[p] = m[p] /\ m[p].whole \in Mem
          /\ IsLive(m, m[p].whole) /\ ~IsPart(m, m[p].whole)
          /\ m[p].up # 0 => /\ m[p].up \in Mem \ {p} /\ ~IsPart(m, p)
                            /\ IsLive(m, m[p].up) /\ ~IsPart(m, m[p].up)
      BY <1>5, <1>6, <2>1 DEF ObjectShape
    <3> QED BY <1>5, <3>1
  <2>2. CASE p = o
    <3>1. CASE b.whole = o
      BY <1>1, <1>3, <1>4, <2>2, <3>1 DEF IsPart, IsLive
    <3>2. CASE b.whole # o
      BY <1>3, <1>4, <1>5, <2>2, <3>2 DEF IsPart
    <3> QED BY <3>1, <3>2
  <2> QED BY <2>1, <2>2
<1>10. UdShape(m2, d)
  BY <1>5, <1>7 DEF UdShape
<1>11. Owned(m2, d)
  <2>1. m2[o].up = 0 /\ (m2[o].kind = "-" \/ IsPart(m2, o))
    BY <1>3, <1>4 DEF IsPart
  <2> QED BY <1>5, <1>6, <2>1 DEF Owned
<1>12. Aged(m2, d)
  <2>1. \A v \in Ud : Wrapped(d, v) =>
          /\ m2[d[v].cookie].whole = m[d[v].cookie].whole
          /\ UpOf(m2, d[v].cookie) = UpOf(m, d[v].cookie)
    BY <1>5, <1>7
  <2> QED BY <2>1 DEF Aged
<1>13. Referred(m2, d)
  <2>1. \A v \in Ud : Wrapped(d, v) => m2[d[v].cookie] = m[d[v].cookie]
    BY <1>5, <1>7
  <2> QED BY <2>1 DEF Referred, IsPart
<1>14. Minded(m2, d)
  <2>1. \A p \in Mem : IsLive(m2, p) /\ m2[p].up # 0 => IsLive(m, p) /\ m2[p].up = m[p].up
    BY <1>3, <1>4, <1>5, <1>6
  <2>2. \A v \in Ud : Wrapped(d, v) =>
          /\ m2[d[v].cookie].up = m[d[v].cookie].up
          /\ IsPart(m2, d[v].cookie) <=> IsPart(m, d[v].cookie)
    BY <1>5, <1>7
  <2> QED BY <2>1, <2>2 DEF Minded
<1>15. Lost(m2, d)
  <2> SUFFICES ASSUME NEW p \in Mem, IsLive(m2, p), m2[p].kind = "-"
               PROVE  /\ \A t \in Mem : IsLive(m2, t) /\ m2[t].whole = p => t = p
                      /\ \A v \in Ud : Held(d, v) => d[v].cookie # p
    BY DEF Lost
  <2>1. CASE p = o
    BY <1>5, <1>6, <2>1 DEF Spare, Held
  <2>2. CASE p # o
    <3>1. IsLive(m, p) /\ m[p].kind = "-"
      BY <1>5, <1>6, <2>2
    <3>2. b.whole # p
      BY <1>3, <2>2, <3>1
    <3> QED BY <1>4, <1>5, <1>6, <3>1, <3>2 DEF Lost
  <2> QED BY <2>1, <2>2
<1>16. Shape(m2, d)
  BY <1>8, <1>9, <1>10, <1>11, <1>12, <1>13, <1>14, <1>15
<1> QED BY <1>16 DEF m2

(* A userdata to which no object belongs.                                  *)
MayStray(m, d, u, c) ==
  /\ Shape(m, d) /\ Next1(d, u)
  /\ c \in UdType /\ c.st = "live" /\ c.stray # FALSE /\ c.kind \in KindsOf(lib)
  /\ c.cookie \in Mem /\ m[c.cookie].kind # "-"
  /\ \A r \in Rows[lib] : r.how # "ref"

LEMMA AddStray ==
  ASSUME NEW m, NEW d, NEW u, NEW c, MayStray(m, d, u, c)
  PROVE  Shape(m, Put(d, u, c)) /\ \A v \in Ud \ {u} : Put(d, u, c)[v] = d[v]
<1> USE DEF MayStray
<1> USE DEF Shape, Put
<1> DEFINE d2 == Put(d, u, c)
<1>1. u \in Ud /\ d[u].st = "none" /\ d2 \in [Ud -> UdType] /\ d2[u] = c
      /\ \A v \in Ud \ {u} : d2[v] = d[v]
  BY DEF Next1, HandlesTypeOK
<1> HIDE DEF d2
<1>2. \A v \in Ud : Wrapped(d2, v) => v # u /\ Wrapped(d, v) /\ d2[v] = d[v]
  BY <1>1 DEF Wrapped, Held
<1>3. \A v \in Ud : Wrapped(d, v) => v # u /\ Wrapped(d2, v) /\ d2[v] = d[v]
  BY <1>1 DEF Wrapped, Held
<1>4. HandlesTypeOK(m, d2)
  BY <1>1 DEF HandlesTypeOK
<1>5. UdShape(m, d2)
  BY <1>1, <1>2 DEF UdShape
<1>6. Owned(m, d2)
  BY <1>3 DEF Owned
<1>7. Aged(m, d2)
  <2>1. \A t \in Ud : t < u => d[t].st # "none"
    BY HandlesAssumption DEF Next1, Ud
  <2> QED BY <1>1, <1>2, <2>1 DEF Aged
<1>8. Referred(m, d2)
  BY <1>2, <1>3 DEF Referred
<1>9. Minded(m, d2)
  BY <1>2 DEF Minded
<1>10. Lost(m, d2)
  BY <1>1 DEF Lost, Held
<1>11. Strayed(d2)
  BY DEF Strayed
<1>12. Shape(m, d2)
  BY <1>4, <1>5, <1>6, <1>7, <1>8, <1>9, <1>10, <1>11
<1> QED BY <1>1, <1>12 DEF d2

(* Parts that have no userdata any more go.                                *)
LEMMA CutOne ==
  ASSUME NEW m, NEW d, Shape(m, d), NEW f \in 0..NMem,
         \A v \in Ud : Wrapped(d, v) /\ m[d[v].cookie].whole = f => d[v].cookie = f
  PROVE  LET m2 == Freed(m, TreeOf(m, f) \ {f})
         IN  /\ Shape(m2, d)
             /\ \A p \in Mem : /\ m2[p].whole = m[p].whole /\ m2[p].up = m[p].up
                               /\ m2[p].kind = m[p].kind
             /\ \A p \in Mem : IsLive(m2, p) => IsLive(m, p)
<1> USE DEF Shape
<1> DEFINE m2 == Freed(m, TreeOf(m, f) \ {f})
<1>1. /\ m2 \in [Mem -> MemType]
      /\ \A p \in Mem : m2[p].whole = m[p].whole /\ m2[p].up = m[p].up /\ m2[p].kind = m[p].kind
      /\ \A p \in Mem : IsLive(m2, p) <=> IsLive(m, p) /\ (m[p].whole = f => p = f)
  BY DEF HandlesTypeOK, MemType, Freed, TreeOf, IsLive
<1> HIDE DEF m2
<1>2. \A v \in Ud : Wrapped(d, v) =>
        /\ d[v].cookie \in Mem /\ IsLive(m, d[v].cookie) /\ IsLive(m2, d[v].cookie)
        /\ UpOf(m2, d[v].cookie) = UpOf(m, d[v].cookie)
        /\ IsPart(m2, d[v].cookie) <=> IsPart(m, d[v].cookie)
  <2> SUFFICES ASSUME NEW v \in Ud, Wrapped(d, v)
               PROVE  /\ d[v].cookie \in Mem /\ IsLive(m, d[v].cookie) /\ IsLive(m2, d[v].cookie)
                      /\ UpOf(m2, d[v].cookie) = UpOf(m, d[v].cookie)
                      /\ IsPart(m2, d[v].cookie) <=> IsPart(m, d[v].cookie)
    OBVIOUS
  <2>1. d[v].cookie \in Mem /\ IsLive(m, d[v].cookie) /\ m[d[v].cookie].whole \in Mem
    BY Below
  <2> QED BY <1>1, <2>1 DEF UpOf, IsPart
<1>3. HandlesTypeOK(m2, d)
  BY <1>1 DEF HandlesTypeOK
<1>4. ObjectShape(m2)
  <2> SUFFICES ASSUME NEW p \in Mem, IsLive(m2, p)
               PROVE  /\ m2[p].whole \in Mem
                      /\ IsLive(m2, m2[p].whole) /\ ~IsPart(m2, m2[p].whole)
                      /\ m2[p].up # 0 => /\ m2[p].up \in Mem \ {p} /\ ~IsPart(m2, p)
                                         /\ IsLive(m2, m2[p].up) /\ ~IsPart(m2, m2[p].up)
    BY DEF ObjectShape
  <2>1. /\ IsLive(m, p) /\ m[p].whole \in Mem
        /\ IsLive(m, m[p].whole) /\ m[m[p].whole].whole = m[p].whole
        /\ m[p].up # 0 => /\ m[p].up \in Mem \ {p} /\ ~IsPart(m, p)
                          /\ IsLive(m, m[p].up) /\ m[m[p].up].whole = m[p].up
    BY <1>1 DEF ObjectShape, IsPart
  <2> QED BY <1>1, <2>1 DEF IsPart
<1>5. UdShape(m2, d)
  BY <1>2 DEF UdShape
<1>6. Owned(m2, d)
  BY <1>1 DEF Owned, IsPart
<1>7. Aged(m2, d)
  BY <1>1, <1>2 DEF Aged
<1>8. Referred(m2, d)
  BY <1>1, <1>2 DEF Referred
<1>9. Minded(m2, d)
  <2>1. \A p \in Mem : IsLive(m2, p) => IsLive(m, p) /\ m2[p].up = m[p].up /\ (IsPart(m2, p) <=> IsPart(m, p))
    BY <1>1 DEF IsPart
  <2> QED BY <1>1, <1>2, <2>1 DEF Minded
<1>10. Lost(m2, d)
  BY <1>1 DEF Lost
<1>11. Shape(m2, d)
  BY <1>3, <1>4, <1>5, <1>6, <1>7, <1>8, <1>9, <1>10
<1> QED BY <1>1, <1>11 DEF m2
-----------------------------------------------------------------------------
(* The shape of the next state.                                            *)
LEMMA ShapeNext ==
  ASSUME lib' = lib, Shape(mem', ud')
  PROVE  Shape(mem, ud)'
<1>1. /\ HandlesTypeOK(mem', ud') /\ ObjectShape(mem') /\ UdShape(mem', ud') /\ Owned(mem', ud')
      /\ Aged(mem', ud') /\ Referred(mem', ud') /\ Minded(mem', ud') /\ Lost(mem', ud')
      /\ Strayed(ud')
  BY DEF Shape
<1>2. HandlesTypeOK(mem, ud)' /\ ObjectShape(mem)'
  BY <1>1 DEF HandlesTypeOK, ObjectShape, IsLive, IsPart
<1>3. UdShape(mem, ud)'
  BY <1>1 DEF UdShape, KindsOf, Wrapped, Held, IsLive, IsPart
<1>4. Owned(mem, ud)'
  BY <1>1 DEF Owned, Wrapped, Held, IsLive, IsPart
<1>5. Aged(mem, ud)' /\ Referred(mem, ud)'
  BY <1>1 DEF Aged, Referred, Wrapped, Held, IsPart, UpOf
<1>6. Minded(mem, ud)'
  BY <1>1 DEF Minded, Wrapped, Held, IsLive, IsPart
<1>7. Lost(mem, ud)' /\ Strayed(ud)'
  BY <1>1 DEF Lost, Strayed, Held, IsLive
<1> QED BY <1>2, <1>3, <1>4, <1>5, <1>6, <1>7 DEF Shape

(* A pointer that leads nowhere comes from a stray.                        *)
LEMMA FollowedLive ==
  ASSUME Shape(mem, ud), NEW r, NEW a, NEW i \in DOMAIN r.on, a[i] \in Ud, Wrapped(ud, a[i])
  PROVE  \A o \in Followed(r, a, i) : Live(o)
<1> DEFINE f == Cookie(a[i])
<1>1. f \in Mem /\ f # 0 /\ IsLive(mem, f)
  BY Below DEF Cookie, Wrapped, Held
<1>2. Up(f) # 0 => IsLive(mem, Up(f))
  BY Below DEF Cookie, Up, UpOf
<1>3. Followed(r, a, i) \subseteq {f, Up(f)} /\ 0 \notin Followed(r, a, i)
  BY <1>1 DEF Followed
<1> QED BY <1>1, <1>2, <1>3 DEF Live, IsLive

(* Where the table refers, there are no strays.                            *)
LEMMA RefWrapped ==
  ASSUME Shape(mem, ud), NEW r \in Rows[lib], r.how = "ref", NEW x \in Ud, Held(ud, x)
  PROVE  Wrapped(ud, x)
  BY DEF Shape, Strayed, Wrapped

(* The arguments that pass checkcookie have objects, which are live or a   *)
(* stray's.                                                                *)
LEMMA ArgFacts ==
  ASSUME lib \in DOMAIN Table, Covered(lib), NEW r \in Rows[lib], Shape(mem, ud),
         NEW a \in ArgsOf(r), ~Expired(r, a)
  PROVE  /\ \A i \in DOMAIN r.on : /\ a[i] \in Ud /\ Held(ud, a[i]) /\ ud[a[i]].kind = r.on[i]
                                   /\ ud[a[i]].cookie \in Mem
         /\ r.on # <<>> => /\ 1 \in DOMAIN r.on /\ First(r, a) = ud[a[1]].cookie
                           /\ First(r, a) \in Mem
         /\ First(r, a) \in 0..NMem
         /\ Blameless(Faults(r, a))
         /\ Faults(r, a) = {} => \A i \in DOMAIN r.on : IsLive(mem, ud[a[i]].cookie)
<1>1. \A i \in DOMAIN r.on : a[i] \in Ud /\ Held(ud, a[i]) /\ ud[a[i]].kind = r.on[i]
  BY DEF ArgsOf, Expired, Cookie, Held
<1>2. \A i \in DOMAIN r.on : ud[a[i]] \in UdType /\ ud[a[i]].cookie \in Mem
  BY <1>1, HandlesAssumption DEF Shape, HandlesTypeOK, UdType, Held, Mem
<1>3. r.on # <<>> => 1 \in DOMAIN r.on
  BY RowFacts
<1>4. /\ r.on # <<>> => First(r, a) = ud[a[1]].cookie /\ First(r, a) \in Mem
      /\ First(r, a) \in 0..NMem
  <2>1. r.on # <<>> => First(r, a) = ud[a[1]].cookie /\ First(r, a) \in Mem
    BY <1>2, <1>3 DEF First, Cookie
  <2>2. r.on = <<>> => First(r, a) = 0
    BY DEF First
  <2> QED BY <2>1, <2>2, HandlesAssumption DEF Mem
<1>5. ASSUME NEW i \in DOMAIN r.on, \E o \in Followed(r, a, i) : ~Live(o)
      PROVE  Wrong("use", a[i]) = {<<"use", TRUE>>}
  <2>1. ~Wrapped(ud, a[i])
    BY <1>1, <1>5, FollowedLive
  <2>2. ud[a[i]].stray # FALSE /\ ud[a[i]].stray \in BOOLEAN
    BY <1>1, <1>2, <2>1 DEF Wrapped, UdType
  <2>3. ud[a[i]].stray = TRUE
    BY <2>2
  <2> QED BY <2>3 DEF Wrong
<1>6. Blameless(Faults(r, a))
  <2>1. ASSUME NEW b \in Faults(r, a) PROVE b = <<"use", TRUE>>
    <3>1. PICK i \in DOMAIN r.on : /\ \E o \in Followed(r, a, i) : ~Live(o)
                                   /\ b \in Wrong("use", a[i])
      BY DEF Faults
    <3>2. Wrong("use", a[i]) = {<<"use", TRUE>>}
      BY <1>5, <3>1
    <3> QED BY <3>1, <3>2
  <2> QED BY <2>1 DEF Blameless
<1>7. ASSUME Faults(r, a) = {}, NEW i \in DOMAIN r.on PROVE IsLive(mem, ud[a[i]].cookie)
  <2>1. Wrong("use", a[i]) # {}
    BY DEF Wrong
  <2>2. \A o \in Followed(r, a, i) : Live(o)
    BY <1>7, <2>1 DEF Faults
  <2> QED BY <2>2 DEF Followed, Cookie, Live, IsLive
<1> QED BY <1>1, <1>2, <1>3, <1>4, <1>6, <1>7

(* What a call makes, from the state or after what it consumed is gone.    *)
LEMMA BearsShape ==
  ASSUME lib \in DOMAIN Table, Covered(lib), NEW r \in Rows[lib], r.mk # "-", NEW a,
         NEW m, NEW d, Shape(m, d), Bears(r, a, m, d),
         r.how # "own" =>
            /\ m = mem /\ d = ud
            /\ \A i \in DOMAIN r.on : /\ a[i] \in Ud /\ Held(ud, a[i])
                                      /\ ud[a[i]].cookie \in Mem /\ IsLive(mem, ud[a[i]].cookie),
         \A o \in Mem : Unused(o) => Spare(m, d, o),
         \A u \in Ud : d[u].st = "none" <=> ud[u].st = "none"
  PROVE  /\ Shape(mem', ud')
         /\ \A v \in Ud : Held(d, v) => ud'[v] = d[v]
<1>1. /\ r.how \in {"own", "child", "bare", "ref"} \cup StrayHows
      /\ r.how # "own" => r.on # <<>>
      /\ r.on # <<>> => 1 \in DOMAIN r.on /\ Len(r.on) \in DOMAIN r.on
      /\ r.mk \in Kinds /\ r.mk \in KindsOf(lib)
      /\ r.how \in StrayHows => \A q \in Rows[lib] : q.how # "ref"
  BY RowFacts DEF Kinds
<1>2. PICK o \in (IF r.how = "again" THEN {Cookie(a[Len(r.on)])} ELSE NewMem), u \in NewUd :
        /\ mem' = IF r.how = "again" THEN m ELSE [m EXCEPT ![o] = BornObject(r, a, o)]
        /\ ud' = [d EXCEPT ![u] = Born(r, a, o)]
  BY DEF Bears
<1>3. r.how # "again" => o \in Mem /\ Spare(m, d, o)
  BY <1>2 DEF NewMem, Lowest
<1>4. Next1(d, u)
  BY DEF NewUd, Lowest, Next1
<1>5. /\ Shape(mem', ud')
      /\ \A v \in Ud \ {u} : ud'[v] = d[v]
  <2>1. CASE r.how \notin StrayHows
    <3> DEFINE x == a[1]
    <3>1. /\ BornObject(r, a, o) = ObjectOf(m, d, r, x, o)
          /\ Born(r, a, o) = UdOf(r, x, o)
      <4>1. r.how \in {"own", "child", "bare", "ref"}
        BY <1>1, <2>1
      <4>2. Born(r, a, o) = UdOf(r, x, o)
        <5>1. (r.how \in StrayHows) = FALSE
          BY <2>1
        <5>2. (IF r.how \in {"ref", "reflent"} THEN a[1] ELSE 0)
                = (IF r.how = "ref" THEN a[1] ELSE 0)
          BY <4>1
        <5> QED BY <5>1, <5>2, Zenon DEF Born, UdOf
      <4>3. CASE r.how = "own"
        BY <4>2, <4>3 DEF BornObject, ObjectOf
      <4>4. CASE r.how # "own"
        <5>1. First(r, a) = d[x].cookie
          BY <1>1, <4>4 DEF First, Cookie
        <5> QED BY <4>1, <4>2, <4>4, <5>1 DEF BornObject, ObjectOf, Root, Up, UpOf
      <4> QED BY <4>3, <4>4
    <3>2. mem' = Put(m, o, ObjectOf(m, d, r, x, o)) /\ ud' = Put(d, u, UdOf(r, x, o))
      <4>1. r.how # "again"
        BY <2>1 DEF StrayHows
      <4> QED BY <1>2, <3>1, <4>1 DEF Put
    <3>3. MayBear(m, d, r, x, o, u)
      <4>1. r.how # "again"
        BY <2>1 DEF StrayHows
      <4>2. r.how = "ref" => Wrapped(d, x)
        BY <1>1, RefWrapped
      <4> QED BY <1>1, <1>3, <1>4, <2>1, <4>1, <4>2 DEF MayBear
    <3> HIDE DEF x
    <3>4. /\ Shape(Put(m, o, ObjectOf(m, d, r, x, o)), Put(d, u, UdOf(r, x, o)))
          /\ \A v \in Ud \ {u} : Put(d, u, UdOf(r, x, o))[v] = d[v]
      BY <3>3, BearOne
    <3> QED BY <3>2, <3>4
  <2>2. CASE r.how \in StrayHows
    <3> DEFINE c == Born(r, a, o)
               w == IF r.how = "again" THEN m ELSE Put(m, o, BornObject(r, a, o))
    <3>1. /\ r.how # "own" /\ m = mem /\ d = ud
          /\ a[1] \in Ud /\ Held(d, a[1]) /\ d[a[1]].cookie \in Mem /\ IsLive(m, d[a[1]].cookie)
          /\ LET l == a[Len(r.on)]
             IN  l \in Ud /\ Held(d, l) /\ d[l].cookie \in Mem /\ IsLive(m, d[l].cookie)
          /\ First(r, a) = d[a[1]].cookie
      BY <1>1, <2>2 DEF StrayHows, First, Cookie
    <3>2. Shape(w, d) /\ o \in Mem /\ w[o].kind # "-"
      <4>1. CASE r.how = "again"
        <5>1. o = d[a[Len(r.on)]].cookie
          BY <1>2, <3>1, <4>1 DEF Cookie
        <5>2. m[o].kind # "-"
          BY <3>1, <5>1, NotLost
        <5> QED BY <3>1, <4>1, <5>1, <5>2
      <4>2. CASE r.how # "again"
        <5> DEFINE b == BornObject(r, a, o)
                   f == d[a[1]].cookie
        <5>1. r.how \in {"lent", "reflent"}
          BY <2>2, <4>2 DEF StrayHows
        <5>2. b = [st |-> "live", kind |-> r.mk, whole |-> m[f].whole, up |-> 0]
          BY <3>1, <5>1 DEF BornObject
        <5>3. /\ m[f].whole \in Mem /\ IsLive(m, m[f].whole)
              /\ m[m[f].whole].whole = m[f].whole
          BY <3>1, Under
        <5>4. m[m[f].whole].kind # "-"
          BY <3>1, NotLost
        <5>5. m[f].whole \in 0..NMem /\ 0 \in 0..NMem
          BY <5>3, HandlesAssumption DEF Mem
        <5>6. Loose(m, o, b)
          <6>1. b \in MemType
            BY <1>1, <5>2, <5>5 DEF MemType
          <6> QED BY <5>2, <5>3, <5>4, <6>1 DEF Loose
        <5>7. w = Put(m, o, b) /\ w[o] = b
          BY <1>3, <4>2 DEF Put, Shape, HandlesTypeOK
        <5>8. b.kind # "-"
          BY <5>2
        <5> HIDE DEF b
        <5> QED BY <1>3, <4>2, <5>6, <5>7, <5>8, AddLoose
      <4> QED BY <4>1, <4>2
    <3>3. /\ c \in UdType /\ c.st = "live" /\ c.stray = TRUE /\ c.kind \in KindsOf(lib)
          /\ c.cookie = o
      <4>1. c = [st |-> "live", kind |-> r.mk, cookie |-> o,
                 ref |-> IF r.how \in {"ref", "reflent"} THEN a[1] ELSE 0, stray |-> TRUE]
        BY <2>2 DEF Born
      <4>2. /\ o \in 0..NMem
            /\ (IF r.how \in {"ref", "reflent"} THEN a[1] ELSE 0) \in 0..NUd
        BY <3>1, <3>2, HandlesAssumption DEF Mem, Ud
      <4>3. /\ c.st = "live" /\ c.stray = TRUE /\ c.kind = r.mk /\ c.cookie = o
        BY <4>1
      <4>4. c \in UdType
        BY <1>1, <4>1, <4>2 DEF UdType
      <4> QED BY <1>1, <4>3, <4>4
    <3>4. mem' = w /\ ud' = Put(d, u, c)
      BY <1>2 DEF Put
    <3> HIDE DEF c, w
    <3>5. Shape(w, Put(d, u, c)) /\ \A v \in Ud \ {u} : Put(d, u, c)[v] = d[v]
      <4>1. (\A q \in Rows[lib] : q.how # "ref") /\ c.cookie \in Mem /\ w[c.cookie].kind # "-"
        BY <1>1, <2>2, <3>2, <3>3
      <4>2. c \in UdType /\ c.st = "live" /\ c.stray # FALSE /\ c.kind \in KindsOf(lib)
        BY <3>3
      <4>3. MayStray(w, d, u, c)
        BY <1>4, <3>2, <4>1, <4>2 DEF MayStray
      <4> QED BY <4>3, AddStray
    <3> QED BY <3>4, <3>5
  <2> QED BY <2>1, <2>2
<1> QED BY <1>4, <1>5 DEF Next1, Held

LEMMA UnusedSpare == \A o \in Mem : Unused(o) => Spare(mem, ud, o)
  BY HandlesAssumption DEF Unused, Spare, Live, IsLive, Cookie, Mem
-----------------------------------------------------------------------------
(* Whoever frees an object is the last to need it.  The program does so by *)
(* its duty,                                                               *)
LEMMA CloseAlone ==
  ASSUME lib \in DOMAIN Table, Covered(lib), Shape(mem, ud),
         NEW u \in Ud, Wrapped(ud, u), MayClose(u),
         \/ \E r \in Rows[lib] : r.takes # 0
         \/ Metatables[ud[u].kind].close # "none"
  PROVE  Needs(mem, ud, u) = {}
<1> SUFFICES ASSUME NEW v \in Ud, v # u, Wrapped(ud, v),
                    ud[u].cookie \in {mem[ud[v].cookie].whole, UpOf(mem, ud[v].cookie)}
             PROVE  FALSE
  BY DEF Needs
<1>1. v \in Dependents(u)
  BY DEF Dependents, Cookie, Wrapped, Held, Up, UpOf
<1>2. lib \in CloseParents
  BY <1>1 DEF MayClose
<1>3. /\ ud[v].cookie \in Mem /\ IsLive(mem, ud[v].cookie)
      /\ mem[ud[v].cookie].whole \in Mem /\ IsLive(mem, mem[ud[v].cookie].whole)
      /\ ud[u].cookie # 0 /\ ud[u].cookie # ud[v].cookie
  BY Below DEF Wrapped, Held, Shape, UdShape
<1>4. CASE ud[u].cookie = mem[ud[v].cookie].whole
  <2>1. IsPart(mem, ud[v].cookie)
    BY <1>3, <1>4 DEF IsPart
  <2>2. PICK q \in Rows[lib] : q.how \in {"ref", "bare"}
    BY <1>3, <2>1 DEF Shape, Minded
  <2>3. q.how = "ref"
    BY <1>2, <2>2, RowFacts DEF StrayHows
  <2>4. \A r \in Rows[lib] : r.takes = 0 /\ (r.mk # "-" => Metatables[r.mk].close = "none")
    BY <1>2, <2>3, RowFacts
  <2>5. ud[u].kind \in KindsOf(lib)
    BY DEF Shape, UdShape, Wrapped, Held
  <2>6. PICK r \in Rows[lib] : r.mk = ud[u].kind /\ r.mk # "-"
    BY <2>5 DEF KindsOf
  <2> QED BY <2>4, <2>6
<1>5. CASE ud[u].cookie = UpOf(mem, ud[v].cookie)
  BY <1>2, <1>3, <1>5 DEF Shape, Minded, UpOf
<1> QED BY <1>4, <1>5

(* the collector because the oldest part of an object refers to its owner, *)
LEMMA CollectAlone ==
  ASSUME lib \in DOMAIN Table, Covered(lib), Shape(mem, ud),
         NEW u \in Ud, Wrapped(ud, u), ~IsPart(mem, ud[u].cookie), MayCollect(u)
  PROVE  Needs(mem, ud, u) = {}
<1> DEFINE o == ud[u].cookie
           P == {v \in Ud : Wrapped(ud, v) /\ IsPart(mem, ud[v].cookie) /\ mem[ud[v].cookie].whole = o}
<1>1. \A v \in Ud : Wrapped(ud, v) =>
        /\ ud[v].cookie \in Mem /\ IsLive(mem, ud[v].cookie)
        /\ mem[ud[v].cookie].whole \in Mem /\ IsLive(mem, mem[ud[v].cookie].whole)
  BY Below
<1>2. \A v \in Needs(mem, ud, u) : v \in Dependents(u)
  BY DEF Needs, Dependents, Cookie, Wrapped, Held, Up, UpOf
<1>3. \A v \in Needs(mem, ud, u) : UpOf(mem, ud[v].cookie) # o
  <2> SUFFICES ASSUME NEW v \in Needs(mem, ud, u), UpOf(mem, ud[v].cookie) = o
               PROVE  FALSE
    OBVIOUS
  <2>1. /\ v \in Ud /\ v # u /\ Wrapped(ud, v) /\ o # 0
        /\ ud[v].cookie \in Mem /\ IsLive(mem, ud[v].cookie)
        /\ mem[ud[v].cookie].whole \in Mem /\ IsLive(mem, mem[ud[v].cookie].whole)
    BY <1>1 DEF Needs, Wrapped, Held
  <2>2. lib \notin DropParents
    BY <2>1 DEF Shape, Minded, UpOf
  <2>3. ud[v].kind \in Kept
    BY <1>2, <2>2 DEF MayCollect
  <2>4. CASE ~IsPart(mem, ud[v].cookie)
    BY <2>1, <2>3, <2>4 DEF Shape, Minded, UpOf, IsPart
  <2>5. CASE IsPart(mem, ud[v].cookie)
    (* A part of an object that was opened through u's: the owner of the    *)
    (* whole depends on u as well, and does not keep it.                    *)
    <3> DEFINE w == mem[ud[v].cookie].whole
    <3>1. w \in Mem /\ IsLive(mem, w) /\ ~IsPart(mem, w) /\ mem[w].up = o
      BY <2>1 DEF Shape, ObjectShape, UpOf
    <3>2. PICK t \in Ud : Wrapped(ud, t) /\ ud[t].cookie = w
      BY <2>1, <3>1 DEF Shape, Owned
    <3>3. t # u
      BY <2>1, <3>1, <3>2 DEF Shape, ObjectShape
    <3>4. t \in Dependents(u) /\ mem[ud[t].cookie].up # 0
      BY <2>1, <3>1, <3>2, <3>3 DEF Dependents, Cookie, Wrapped, Held, Up, IsPart
    <3>5. ud[t].kind \in Kept /\ ud[t].kind \notin Kept
      BY <2>2, <3>2, <3>4 DEF MayCollect, Shape, Minded
    <3> QED BY <3>5
  <2> QED BY <2>4, <2>5
<1>4. \A v \in Needs(mem, ud, u) : v \in P
  <2>1. \A v \in Ud : Wrapped(ud, v) /\ v # u => ud[v].cookie # o
    BY DEF Shape, UdShape
  <2> QED BY <1>3, <2>1 DEF Needs, IsPart
<1>5. ASSUME P # {} PROVE FALSE
  <2>1. PICK v \in P : \A t \in P : v <= t
    <3>1. P \in SUBSET (1..NUd) /\ NUd \in Nat
      BY HandlesAssumption DEF Ud
    <3> QED BY <1>5, <3>1, Least
  <2>2. ud[v].kind \in Kept
    <3>1. v # u
      BY DEF IsPart
    <3>2. v \in Dependents(u)
      BY <3>1 DEF Dependents, Cookie, Wrapped, Held
    <3> QED BY <3>2 DEF MayCollect, Shape, Minded
  <2> DEFINE x == ud[v].ref
  <2>3. /\ x \in Ud /\ x < v /\ Wrapped(ud, x)
        /\ mem[ud[x].cookie].whole = o
    BY <2>2 DEF Shape, Referred
  <2>4. x \notin P
    BY <2>1, <2>3, HandlesAssumption DEF Ud
  <2>5. ud[x].cookie = o
    BY <2>3, <2>4 DEF IsPart
  <2>6. x = u
    BY <2>3, <2>5 DEF Shape, UdShape
  <2> QED BY <2>6 DEF MayCollect, Wrapped, Held
<1> QED BY <1>4, <1>5

(* and lua_close because it goes from the youngest to the oldest.          *)
LEMMA FinalizeAlone ==
  ASSUME Shape(mem, ud), NEW u \in Ud, Wrapped(ud, u),
         \A v \in Ud : ud[v].st = "live" => v <= u
  PROVE  Needs(mem, ud, u) = {}
<1>1. \A v \in Ud : Wrapped(ud, v) => ~(u < v)
  BY HandlesAssumption DEF Wrapped, Held, Ud
<1> QED BY <1>1 DEF Needs, Shape, Aged

(* What the owner of a whole frees is there and nobody else's; what a      *)
(* stray frees may be someone's.                                           *)
LEMMA FreeIsRight ==
  ASSUME Shape(mem, ud), NEW u \in Ud, Held(ud, u), Metatables[ud[u].kind].gc
  PROVE  /\ Blameless(FreeFault(u))
         /\ FreeFault(u) = {} => Wrapped(ud, u) /\ ~IsPart(mem, ud[u].cookie)
<1>1. ud[u].stray \in BOOLEAN
  BY DEF Shape, HandlesTypeOK, UdType
<1>2. CASE ud[u].stray = FALSE
  <2>1. Wrapped(ud, u) /\ ~IsPart(mem, ud[u].cookie) /\ IsLive(mem, ud[u].cookie)
    BY <1>2 DEF Shape, UdShape, Wrapped
  <2>2. FreeFault(u) = {}
    BY <1>2, <2>1 DEF FreeFault, Live, Part, IsPart, IsLive, Held, Cookie
  <2> QED BY <2>1, <2>2 DEF Blameless
<1>3. CASE ud[u].stray = TRUE
  <2>1. FreeFault(u) = {<<"free", TRUE>>}
    BY <1>3 DEF FreeFault, Wrong
  <2> QED BY <2>1 DEF Blameless
<1> QED BY <1>1, <1>2, <1>3

(* A step on which nothing has gone wrong so far.                          *)
LEMMA StepInv ==
  ASSUME lib \in DOMAIN Table, lib' = lib, Blameless(bad'), bad' = {} => Sound'
  PROVE  HandlesInv'
<1>1. Blameless(bad)'
  BY DEF Blameless
<1> QED BY <1>1 DEF HandlesInv

(* A finalizer runs.                                                       *)
LEMMA EndedInv ==
  ASSUME HandlesInv, bad = {}, NEW u \in Ud, ud[u].st = "live",
         Wrapped(ud, u) /\ ~IsPart(mem, ud[u].cookie) => Needs(mem, ud, u) = {},
         \A v \in Ud : ud[v].st = "live" /\ u < v => ud[v].ref # u,
         walk = 0 \/ Cookie(u) # walk,
         Ended(u, [NoUd EXCEPT !.st = "dead"]), UNCHANGED <<lib, walk, closing>>
  PROVE  HandlesInv'
<1> DEFINE e == [NoUd EXCEPT !.st = "dead"]
<1>1. /\ Sound /\ Shape(mem, ud) /\ lib \in DOMAIN Table
      /\ lib' = lib /\ walk' = walk /\ closing' = closing
  BY DEF HandlesInv, Sound
<1>2. ud' = Put(ud, u, e)
  BY DEF Ended, Put
<1>3. /\ Blameless(bad')
      /\ bad' = {} => Shape(mem', ud') /\ \A v \in Ud \ {u} : ud'[v] = ud[v]
  <2>1. CASE Cookie(u) # 0 /\ Metatables[ud[u].kind].gc
    <3>1. Held(ud, u)
      BY <2>1 DEF Held, Cookie
    <3>2. /\ Blameless(FreeFault(u))
          /\ FreeFault(u) = {} => Wrapped(ud, u) /\ ~IsPart(mem, ud[u].cookie)
      BY <1>1, <2>1, <3>1, FreeIsRight
    <3>3. mem' = Freed(mem, TreeOf(mem, ud[u].cookie)) /\ bad' = FreeFault(u)
      BY <2>1 DEF Ended, Cookie, Tree, TreeOf
    <3>4. FreeFault(u) = {} =>
            /\ Shape(Freed(mem, TreeOf(mem, ud[u].cookie)), Put(ud, u, e))
            /\ \A v \in Ud \ {u} : Put(ud, u, e)[v] = ud[v]
      BY <1>1, <3>2, FreeOne
    <3> QED BY <1>2, <3>2, <3>3, <3>4
  <2>2. CASE ~(Cookie(u) # 0 /\ Metatables[ud[u].kind].gc)
    <3>1. Wrapped(ud, u) => IsPart(mem, ud[u].cookie)
      BY <1>1, <2>2 DEF Cookie, Shape, UdShape, Wrapped, Held
    <3>2. mem' = mem /\ bad' = {}
      BY <2>2 DEF Ended
    <3>3. /\ Shape(mem, Put(ud, u, e))
          /\ \A v \in Ud \ {u} : Put(ud, u, e)[v] = ud[v]
      BY <1>1, <3>1, DropOne
    <3> QED BY <1>2, <3>2, <3>3 DEF Blameless
  <2> QED BY <2>1, <2>2
<1>4. ASSUME bad' = {} PROVE Sound'
  <2>1. Shape(mem, ud)'
    BY <1>1, <1>3, <1>4, ShapeNext
  <2>2. Visited(ud)'
    BY <1>1, <1>3, <1>4 DEF Sound, Visited, Held, Cookie
  <2> QED BY <1>1, <2>1, <2>2 DEF Sound
<1> QED BY <1>1, <1>3, <1>4, StepInv

LEMMA CollectInv ==
  ASSUME HandlesInv, bad = {}, Covered(lib), NEW u \in Ud, Collect(u) PROVE HandlesInv'
<1>1. Shape(mem, ud) /\ lib \in DOMAIN Table
  BY DEF HandlesInv, Sound
<1>2. Wrapped(ud, u) /\ ~IsPart(mem, ud[u].cookie) => Needs(mem, ud, u) = {}
  BY <1>1, CollectAlone DEF Collect
<1> QED BY <1>2, EndedInv DEF Collect, MayCollect

LEMMA FinalizeInv ==
  ASSUME HandlesInv, bad = {}, closing, NEW u \in Ud, Finalize(u) PROVE HandlesInv'
<1>1. Shape(mem, ud) /\ walk = 0
  BY DEF HandlesInv, Sound
<1>2. Wrapped(ud, u) => Needs(mem, ud, u) = {}
  BY <1>1, FinalizeAlone DEF Finalize
<1>3. \A v \in Ud : ud[v].st = "live" /\ u < v => ud[v].ref # u
  BY HandlesAssumption DEF Finalize, Ud
<1> QED BY <1>1, <1>2, <1>3, EndedInv DEF Finalize

(* A method or __close ends the object, and the cookie is NULL, or the     *)
(* userdata a stray.                                                       *)
LEMMA CloseInv ==
  ASSUME HandlesInv, bad = {}, Covered(lib), NEW u \in Ud, Close(u) PROVE HandlesInv'
<1>1. /\ Sound /\ Shape(mem, ud) /\ lib \in DOMAIN Table /\ ud \in [Ud -> UdType]
      /\ lib' = lib /\ walk' = walk /\ closing' = closing
      /\ Held(ud, u) /\ MayClose(u) /\ Metatables[ud[u].kind].close # "none"
  BY DEF HandlesInv, Sound, Close, Held, Cookie, Shape, HandlesTypeOK
<1>2. PICK r \in Rows[lib] : r.mk = ud[u].kind /\ r.mk # "-"
  BY <1>1 DEF Shape, UdShape, KindsOf, Held
<1>3. Metatables[ud[u].kind].gc
  <2>1. ud[u].kind \in DOMAIN Metatables
    BY <1>1, <1>2, RowFacts
  <2> QED BY <1>1, <2>1, HandlesAssumption
<1>4. /\ Blameless(FreeFault(u))
      /\ FreeFault(u) = {} => Wrapped(ud, u) /\ ~IsPart(mem, ud[u].cookie)
  BY <1>1, <1>3, FreeIsRight
<1>5. PICK e : /\ ud' = Put(ud, u, e)
               /\ \/ e = [ud[u] EXCEPT !.cookie = 0]
                  \/ /\ e = [ud[u] EXCEPT !.stray = TRUE]
                     /\ \A q \in Rows[lib] : q.how # "ref"
  <2>1. CASE ud' = [ud EXCEPT ![u].cookie = 0]
    BY <2>1 DEF Put
  <2>2. CASE Metatables[ud[u].kind].close = "fallible" /\ ud' = [ud EXCEPT ![u].stray = TRUE]
    <3>1. \A q \in Rows[lib] : q.how # "ref"
      BY <1>1, <1>2, <2>2, RowFacts
    <3> QED BY <2>2, <3>1 DEF Put
  <2> QED BY <2>1, <2>2 DEF Close
<1>6. mem' = Freed(mem, TreeOf(mem, ud[u].cookie)) /\ bad' = FreeFault(u)
  BY DEF Close, Cookie, Tree, TreeOf
<1>7. ASSUME FreeFault(u) = {} PROVE Sound'
  <2>1. Needs(mem, ud, u) = {}
    BY <1>1, <1>4, <1>7, CloseAlone
  <2>2. /\ Shape(Freed(mem, TreeOf(mem, ud[u].cookie)), Put(ud, u, e))
        /\ \A v \in Ud \ {u} : Put(ud, u, e)[v] = ud[v]
    BY <1>1, <1>4, <1>5, <1>7, <2>1, FreeOne
  <2>3. Shape(mem, ud)'
    BY <1>1, <1>5, <1>6, <2>2, ShapeNext
  <2>4. walk # 0 => ud[u].cookie # walk
    BY <1>1 DEF MayClose, Sound, Visited, Cookie
  <2>5. Visited(ud)'
    BY <1>1, <1>5, <2>2, <2>4 DEF Sound, Visited, Held
  <2> QED BY <1>1, <2>3, <2>5 DEF Sound
<1> QED BY <1>1, <1>4, <1>6, <1>7, StepInv

(* What a function leaves behind, in m, which the call has made of mem.    *)
LEMMA LoseShape ==
  ASSUME NEW r, NEW m, NEW d, Shape(m, d), NEW o \in Left(r),
         \A p \in Mem : Unused(p) => Spare(m, d, p)
  PROVE  Shape(Lose(m, o), d)
<1>1. CASE o = 0
  BY <1>1 DEF Lose
<1>2. CASE o # 0
  <2> DEFINE b == [NoObject EXCEPT !.st = "live", !.whole = o]
  <2>1. o \in Mem /\ Spare(m, d, o)
    BY <1>2 DEF Left, NewMem, Lowest
  <2>2. b \in [st : {"live"}, kind : {"-"}, whole : {o}, up : {0}]
    BY DEF NoObject
  <2>3. "-" \in Kinds /\ o \in 0..NMem /\ 0 \in 0..NMem
    BY <2>1, HandlesAssumption DEF Kinds, Mem
  <2>4. Loose(m, o, b)
    BY <2>2, <2>3 DEF Loose, MemType
  <2>5. Lose(m, o) = Put(m, o, b)
    BY <1>2 DEF Lose, Put
  <2> HIDE DEF b
  <2> QED BY <2>1, <2>4, <2>5, AddLoose
<1> QED BY <1>1, <1>2

(* A function that makes nothing: it frees parts that nobody has any more, *)
(* and leaves a block behind.                                              *)
LEMMA CallInv ==
  ASSUME HandlesInv, bad = {}, Covered(lib), NEW r \in Rows[lib], Call(r) PROVE HandlesInv'
<1>1. PICK a \in ArgsOf(r), o \in Left(r) :
        /\ r.chk \/ lib \notin UseClosed => ~Expired(r, a)
        /\ r.cuts => lib \in CloseParents \/ Dependents(a[1]) = {}
        /\ bad' = bad \cup Faults(r, a)
        /\ LET cut == IF r.cuts THEN Freed(mem, Tree(First(r, a)) \ {First(r, a)}) ELSE mem
           IN  mem' = Lose(cut, o)
  BY DEF Call
<1>2. /\ Sound /\ Shape(mem, ud) /\ lib \in DOMAIN Table
      /\ lib' = lib /\ ud' = ud /\ walk' = walk /\ closing' = closing /\ r.takes = 0
  BY DEF HandlesInv, Sound, Call
<1>3. ~Expired(r, a)
  BY <1>1, <1>2, RowFacts
<1>4. /\ \A i \in DOMAIN r.on : a[i] \in Ud /\ Held(ud, a[i])
      /\ r.on # <<>> => 1 \in DOMAIN r.on /\ First(r, a) = ud[a[1]].cookie
      /\ First(r, a) \in 0..NMem /\ Blameless(Faults(r, a))
  BY <1>2, <1>3, ArgFacts
<1> DEFINE f == First(r, a)
           cut == IF r.cuts THEN Freed(mem, TreeOf(mem, f) \ {f}) ELSE mem
<1>5. ASSUME r.cuts, NEW v \in Ud, Wrapped(ud, v), mem[ud[v].cookie].whole = f, ud[v].cookie # f
      PROVE  FALSE
  <2>1. /\ ud[v].cookie \in Mem /\ IsLive(mem, ud[v].cookie) /\ f \in Mem /\ f # 0
        /\ IsPart(mem, ud[v].cookie)
    BY <1>2, <1>5, Below, HandlesAssumption DEF Mem, IsPart
  <2>2. r.on # <<>>
    BY <2>1 DEF First
  <2>3. a[1] \in Ud /\ Held(ud, a[1]) /\ f = ud[a[1]].cookie /\ v # a[1]
    BY <1>4, <1>5, <2>2
  <2>4. v \in Dependents(a[1])
    BY <1>5, <2>3 DEF Dependents, Cookie, Wrapped, Held
  <2>5. lib \in CloseParents
    BY <1>1, <1>5, <2>4
  <2>6. PICK q \in Rows[lib] : q.how \in {"ref", "bare"}
    BY <1>2, <1>5, <2>1 DEF Shape, Minded
  <2>7. q.how = "ref"
    BY <1>2, <2>5, <2>6, RowFacts DEF StrayHows
  <2> QED BY <1>2, <1>5, <2>5, <2>7, RowFacts
<1>6. /\ Shape(cut, ud)
      /\ \A p \in Mem : cut[p].whole = mem[p].whole /\ cut[p].up = mem[p].up
      /\ \A p \in Mem : IsLive(cut, p) => IsLive(mem, p)
  <2>1. CASE r.cuts
    BY <1>2, <1>4, <1>5, <2>1, CutOne
  <2>2. CASE ~r.cuts
    BY <1>2, <2>2
  <2> QED BY <2>1, <2>2
<1>7. mem' = Lose(cut, o)
  BY <1>1 DEF Tree, TreeOf
<1> HIDE DEF cut, f
<1>8. \A p \in Mem : Unused(p) => Spare(cut, ud, p)
  BY <1>6, UnusedSpare DEF Spare
<1>9. Shape(mem, ud)'
  <2>1. Shape(Lose(cut, o), ud)
    BY <1>6, <1>8, LoseShape
  <2> QED BY <1>2, <1>7, <2>1, ShapeNext
<1>10. Visited(ud)'
  BY <1>2 DEF Sound, Visited, Held
<1>11. Sound'
  BY <1>2, <1>9, <1>10 DEF Sound
<1>12. Blameless(bad')
  BY <1>1, <1>4 DEF Blameless
<1> QED BY <1>2, <1>11, <1>12, StepInv

(* A function that makes an object, or an iterator that calls back for it. *)
LEMMA BearsInv ==
  ASSUME HandlesInv, bad = {}, Covered(lib), NEW r \in Rows[lib], r.mk # "-",
         NEW a \in ArgsOf(r), ~Expired(r, a), Bears(r, a, mem, ud),
         bad' = bad \cup Faults(r, a), UNCHANGED <<lib, walk, closing>>
  PROVE  HandlesInv'
<1>1. /\ Sound /\ Shape(mem, ud) /\ lib \in DOMAIN Table
      /\ lib' = lib /\ walk' = walk /\ closing' = closing /\ bad' = Faults(r, a)
  BY DEF HandlesInv, Sound
<1>2. /\ \A i \in DOMAIN r.on : a[i] \in Ud /\ Held(ud, a[i]) /\ ud[a[i]].cookie \in Mem
      /\ Blameless(Faults(r, a))
      /\ Faults(r, a) = {} => \A i \in DOMAIN r.on : IsLive(mem, ud[a[i]].cookie)
  BY <1>1, ArgFacts
<1>3. ASSUME Faults(r, a) = {} PROVE Sound'
  <2>1. \A i \in DOMAIN r.on : /\ a[i] \in Ud /\ Held(ud, a[i])
                               /\ ud[a[i]].cookie \in Mem /\ IsLive(mem, ud[a[i]].cookie)
    BY <1>2, <1>3
  <2>2. /\ Shape(mem', ud')
        /\ \A v \in Ud : Held(ud, v) => ud'[v] = ud[v]
    BY <1>1, <2>1, UnusedSpare, BearsShape
  <2>3. Shape(mem, ud)'
    BY <1>1, <2>2, ShapeNext
  <2>4. Visited(ud)'
    BY <1>1, <2>2 DEF Sound, Visited, Held
  <2> QED BY <1>1, <2>3, <2>4 DEF Sound
<1> QED BY <1>1, <1>2, <1>3, StepInv

LEMMA MakeInv ==
  ASSUME HandlesInv, bad = {}, Covered(lib), NEW r \in Rows[lib], Make(r) PROVE HandlesInv'
<1>1. PICK a \in ArgsOf(r) :
        ~Expired(r, a) /\ Bears(r, a, mem, ud) /\ bad' = bad \cup Faults(r, a)
  BY DEF Make
<1>2. r.mk # "-" /\ UNCHANGED <<lib, walk, closing>>
  BY DEF Make
<1> QED BY <1>1, <1>2, BearsInv

(* A function that consumes an argument, and may make an object.           *)
LEMMA TakeInv ==
  ASSUME HandlesInv, bad = {}, Covered(lib), NEW r \in Rows[lib], Take(r) PROVE HandlesInv'
<1>1. PICK a \in ArgsOf(r) :
        LET v == a[r.takes]
            m == Freed(mem, Tree(Cookie(v)))
            d == [ud EXCEPT ![v].cookie = 0]
        IN  /\ ~Expired(r, a) /\ MayClose(v)
            /\ bad' = bad \cup Faults(r, a) \cup FreeFault(v)
            /\ \/ ud' = d /\ \E o \in Left(r) : mem' = Lose(m, o)
               \/ r.mk # "-" /\ Bears(r, a, m, d)
  BY DEF Take
<1> DEFINE v == a[r.takes]
           e == [ud[v] EXCEPT !.cookie = 0]
           m == Freed(mem, TreeOf(mem, ud[v].cookie))
           d == Put(ud, v, e)
<1>2. /\ Sound /\ Shape(mem, ud) /\ lib \in DOMAIN Table /\ r.takes # 0
      /\ ud \in [Ud -> UdType] /\ mem \in [Mem -> MemType]
      /\ lib' = lib /\ walk' = walk /\ closing' = closing
  BY DEF HandlesInv, Sound, Take, Shape, HandlesTypeOK
<1>3. /\ r.takes \in DOMAIN r.on /\ r.how = "own" /\ Metatables[r.on[r.takes]].gc
  BY <1>2, RowFacts
<1>4. /\ v \in Ud /\ Held(ud, v) /\ Metatables[ud[v].kind].gc /\ MayClose(v)
      /\ Blameless(Faults(r, a))
  BY <1>1, <1>2, <1>3, ArgFacts
<1>5. /\ Blameless(FreeFault(v))
      /\ FreeFault(v) = {} => Wrapped(ud, v) /\ ~IsPart(mem, ud[v].cookie)
  BY <1>2, <1>4, FreeIsRight
<1>6. /\ bad' = Faults(r, a) \cup FreeFault(v)
      /\ \/ ud' = d /\ \E o \in Left(r) : mem' = Lose(m, o)
         \/ r.mk # "-" /\ Bears(r, a, m, d)
  <2>1. m = Freed(mem, Tree(Cookie(v))) /\ d = [ud EXCEPT ![v].cookie = 0]
    BY DEF Tree, TreeOf, Cookie, Put
  <2> QED BY <1>1, <2>1
<1>7. Blameless(bad')
  BY <1>4, <1>5, <1>6 DEF Blameless
<1>8. ASSUME FreeFault(v) = {} PROVE Sound'
  <2>1. Wrapped(ud, v) /\ ~IsPart(mem, ud[v].cookie) /\ Needs(mem, ud, v) = {}
    BY <1>2, <1>4, <1>5, <1>8, CloseAlone
  <2>2. Shape(m, d) /\ \A t \in Ud \ {v} : d[t] = ud[t]
    BY <1>2, <1>4, <2>1, FreeOne
  <2>3. d[v].st = ud[v].st /\ d[v].cookie = 0
    <3>1. d[v] = e
      BY <1>2, <1>4 DEF Put
    <3>2. ud[v] \in UdType
      BY <1>2, <1>4
    <3> QED BY <3>1, <3>2, EndedUd
  <2>4. \A o \in Mem : Unused(o) => Spare(m, d, o)
    <3>1. /\ \A p \in Mem : m[p].whole = mem[p].whole /\ m[p].up = mem[p].up
          /\ \A p \in Mem : IsLive(m, p) => IsLive(mem, p)
      BY <1>2 DEF Freed, IsLive, MemType
    <3>2. \A o \in Mem : o # 0
      BY HandlesAssumption DEF Mem
    <3> HIDE DEF m, d
    <3> QED BY <2>2, <2>3, <3>1, <3>2, UnusedSpare DEF Spare
  <2>5. \A t \in Ud : d[t].st = "none" <=> ud[t].st = "none"
    BY <2>2, <2>3
  <2> HIDE DEF m, d
  <2>6. /\ Shape(mem', ud')
        /\ \A t \in Ud : Held(d, t) => ud'[t] = d[t]
    <3>1. CASE ud' = d /\ \E o \in Left(r) : mem' = Lose(m, o)
      BY <2>2, <2>4, <3>1, LoseShape
    <3>2. CASE r.mk # "-" /\ Bears(r, a, m, d)
      BY <1>2, <1>3, <2>2, <2>4, <2>5, <3>2, BearsShape
    <3> QED BY <1>6, <3>1, <3>2
  <2>7. Shape(mem, ud)'
    BY <1>2, <2>6, ShapeNext
  <2>8. Visited(ud)'
    <3>1. walk # 0 => ud[v].cookie # walk
      BY <1>2, <1>4 DEF MayClose, Sound, Visited, Cookie
    <3>2. \A t \in Ud : Held(ud, t) /\ t # v => Held(ud, t)' /\ ud'[t] = ud[t]
      BY <2>2, <2>6 DEF Held
    <3> QED BY <1>2, <3>1, <3>2 DEF Sound, Visited
  <2> QED BY <1>2, <2>7, <2>8 DEF Sound
<1> QED BY <1>2, <1>6, <1>7, <1>8, StepInv

(* What an iterator visits is there when it begins, goes on and ends, or   *)
(* was a stray's.                                                          *)
LEMMA WalkLive ==
  ASSUME Sound, walk # 0, ~Live(walk)
  PROVE  (\E u \in Ud : ud[u].stray /\ Cookie(u) = walk) = TRUE
<1>1. PICK u \in Ud : Held(ud, u) /\ ud[u].cookie = walk
  BY DEF Sound, Visited
<1>2. ~Wrapped(ud, u)
  BY <1>1, Below DEF Sound, Live, IsLive
<1>3. ud[u].stray \in BOOLEAN /\ ud[u].stray # FALSE
  BY <1>1, <1>2 DEF Sound, Shape, HandlesTypeOK, UdType, Wrapped
<1>4. ud[u].stray
  BY <1>3
<1> QED BY <1>1, <1>4 DEF Cookie

LEMMA WalkInv ==
  ASSUME HandlesInv, bad = {}, Covered(lib), ~closing,
         (\E r \in Rows[lib] : WalkBegin(r) \/ WalkItem(r)) \/ WalkEnd
  PROVE  HandlesInv'
<1>1. Sound /\ Shape(mem, ud) /\ lib \in DOMAIN Table
  BY DEF HandlesInv, Sound
<1>2. ASSUME NEW r \in Rows[lib], WalkBegin(r) PROVE HandlesInv'
  <2>1. PICK a \in ArgsOf(r) :
          ~Expired(r, a) /\ walk' = First(r, a) /\ bad' = bad \cup Faults(r, a)
    BY <1>2 DEF WalkBegin
  <2>2. /\ mem' = mem /\ ud' = ud /\ lib' = lib /\ closing' = closing /\ lib \notin CloseInWalk
    BY <1>1, <1>2, RowFacts DEF WalkBegin
  <2>3. /\ First(r, a) \in 0..NMem /\ Blameless(Faults(r, a))
        /\ First(r, a) # 0 => a[1] \in Ud /\ Held(ud, a[1]) /\ ud[a[1]].cookie = First(r, a)
    <3>1. First(r, a) # 0 => r.on # <<>>
      BY DEF First
    <3> QED BY <1>1, <2>1, <3>1, ArgFacts
  <2>4. Shape(mem, ud)'
    BY <1>1, <2>2, ShapeNext
  <2>5. Visited(ud)'
    BY <2>1, <2>2, <2>3 DEF Visited, Held
  <2>6. Sound'
    BY <1>1, <2>1, <2>2, <2>3, <2>4, <2>5 DEF Sound
  <2>7. Blameless(bad')
    BY <2>1, <2>3 DEF Blameless
  <2> QED BY <1>1, <2>2, <2>6, <2>7, StepInv
<1>3. ASSUME NEW r \in Rows[lib], WalkItem(r) PROVE HandlesInv'
  <2>1. PICK a \in ArgsOf(r) :
          ~Expired(r, a) /\ Bears(r, a, mem, ud) /\ bad' = bad \cup Faults(r, a)
    BY <1>3 DEF WalkItem
  <2>2. r.mk # "-" /\ UNCHANGED <<lib, walk, closing>>
    BY <1>3 DEF WalkItem
  <2> QED BY <2>1, <2>2, BearsInv
<1>4. CASE WalkEnd
  <2>1. /\ mem' = mem /\ ud' = ud /\ lib' = lib /\ closing' = closing /\ walk' = 0
    BY <1>4 DEF WalkEnd
  <2>2. Shape(mem, ud)'
    BY <1>1, <2>1, ShapeNext
  <2>3. Sound'
    BY <1>1, <2>1, <2>2, HandlesAssumption DEF Sound, Visited
  <2>4. Blameless(bad')
    <3>1. CASE Live(walk)
      BY <1>4, <3>1 DEF WalkEnd, Blameless
    <3>2. CASE ~Live(walk)
      <4> DEFINE s == \E u \in Ud : ud[u].stray /\ Cookie(u) = walk
      <4>1. bad' = {<<"use", s>>}
        BY <1>4, <3>2 DEF WalkEnd
      <4>2. s = TRUE
        BY <1>1, <1>4, <3>2, WalkLive DEF WalkEnd
      <4> HIDE DEF s
      <4> QED BY <4>1, <4>2 DEF Blameless
    <3> QED BY <3>1, <3>2
  <2> QED BY <1>1, <2>1, <2>3, <2>4, StepInv
<1> QED BY <1>2, <1>3, <1>4

(* lua_close begins, never inside a callback.                              *)
LEMMA CloseStateInv == ASSUME HandlesInv, bad = {}, CloseState PROVE HandlesInv'
<1>1. /\ Shape(mem, ud) /\ lib' = lib /\ mem' = mem /\ ud' = ud /\ walk' = walk /\ walk = 0
      /\ bad' = bad /\ closing' = TRUE /\ lib \in DOMAIN Table /\ walk \in 0..NMem
  BY DEF HandlesInv, Sound, CloseState
<1>2. Shape(mem, ud)'
  BY <1>1, ShapeNext
<1>3. Sound'
  BY <1>1, <1>2 DEF Sound, Visited
<1> QED BY <1>1, <1>3, StepInv DEF Blameless

(* A state in which nothing has been made.                                 *)
LEMMA HandlesInvInit == HandlesInit => HandlesInv
<1> SUFFICES ASSUME HandlesInit PROVE HandlesInv
  OBVIOUS
<1>1. /\ \A o \in Mem : mem[o] = NoObject
      /\ \A u \in Ud : ud[u] = NoUd
      /\ lib \in DOMAIN Table /\ walk = 0 /\ bad = {} /\ closing = FALSE
  BY DEF HandlesInit
<1>2. 0 \in 0..NMem /\ 0 \in 0..NUd /\ "-" \in Kinds
  BY HandlesAssumption DEF Kinds
<1>3. HandlesTypeOK(mem, ud)
  <2>1. NoObject \in MemType /\ NoUd \in UdType
    BY <1>2 DEF NoObject, NoUd, MemType, UdType
  <2> QED BY <2>1 DEF HandlesInit, HandlesTypeOK
<1>4. /\ \A o \in Mem : ~IsLive(mem, o)
      /\ \A u \in Ud : ~Held(ud, u) /\ ~Wrapped(ud, u) /\ ud[u].st = "none"
  BY <1>1 DEF IsLive, Wrapped, Held, NoObject, NoUd
<1>5. Shape(mem, ud)
  BY <1>3, <1>4 DEF Shape, ObjectShape, UdShape, Owned, Aged, Referred, Minded, Lost, Strayed
<1>6. Sound
  BY <1>1, <1>2, <1>5 DEF Sound, Visited
<1>7. Blameless(bad)
  BY <1>1 DEF Blameless
<1> QED BY <1>1, <1>6, <1>7 DEF HandlesInv

(* Every step of a program, of the collector and of lua_close preserves    *)
(* the invariant.                                                          *)
LEMMA HandlesInvNext ==
  ASSUME DutiesCover, HandlesInv, [HandlesNext]_hVars PROVE HandlesInv'
<1>1. Covered(lib)
  BY DEF DutiesCover, HandlesInv
<1>2. CASE UNCHANGED hVars
  <2>1. bad = {} => Shape(mem, ud)'
    BY <1>2, ShapeNext DEF hVars, HandlesInv, Sound
  <2>2. bad = {} => Sound'
    BY <1>2, <2>1 DEF hVars, HandlesInv, Sound, Visited, Held
  <2>3. lib' = lib /\ bad' = bad /\ lib \in DOMAIN Table /\ Blameless(bad')
    BY <1>2 DEF hVars, HandlesInv
  <2> QED BY <2>2, <2>3, StepInv
<1>3. CASE HandlesNext
  <2> USE <1>1, <1>3 DEF HandlesNext
  <2>1. ASSUME NEW r \in Rows[lib], Call(r) PROVE HandlesInv'
    BY <2>1, CallInv
  <2>2. ASSUME NEW r \in Rows[lib], Make(r) PROVE HandlesInv'
    BY <2>2, MakeInv
  <2>3. ASSUME NEW r \in Rows[lib], Take(r) PROVE HandlesInv'
    BY <2>3, TakeInv
  <2>4. ASSUME ~closing, (\E r \in Rows[lib] : WalkBegin(r) \/ WalkItem(r)) \/ WalkEnd
        PROVE  HandlesInv'
    BY <2>4, WalkInv
  <2>5. ASSUME NEW u \in Ud, Close(u) PROVE HandlesInv'
    BY <2>5, CloseInv
  <2>6. ASSUME NEW u \in Ud, Collect(u) PROVE HandlesInv'
    BY <2>6, CollectInv
  <2>7. CASE CloseState
    BY <2>7, CloseStateInv
  <2>8. ASSUME closing, NEW u \in Ud, Finalize(u) PROVE HandlesInv'
    BY <2>8, FinalizeInv
  <2> QED BY <2>1, <2>2, <2>3, <2>4, <2>5, <2>6, <2>7, <2>8
<1> QED BY <1>2, <1>3
-----------------------------------------------------------------------------
(* When the duties of its programs cover a binding: as long as nothing has *)
(* gone wrong, every userdata but a stray has a live object to itself,     *)
(* every whole object has a userdata that frees it or is a block left      *)
(* behind, and every object is younger than what it depends on; and what   *)
(* goes wrong goes wrong through a stray.                                  *)
THEOREM HandlesInvariant == DutiesCover /\ HandlesSpec => []HandlesInv
<1>1. CASE DutiesCover
  <2>1. HandlesInv /\ [HandlesNext]_hVars => HandlesInv'
    BY <1>1, HandlesInvNext
  <2> QED BY HandlesInvInit, <2>1, PTL DEF HandlesSpec
<1> QED BY <1>1

(* No function, iterator or failure report of a covered binding follows a  *)
(* pointer to an object that was freed, however its objects depend on each *)
(* other and in whatever order they are closed and collected, unless the   *)
(* pointer came from a stray userdata.                                     *)
THEOREM LiveUses == DutiesCover /\ HandlesSpec => []UsesLive
<1>1. HandlesInv => UsesLive
  BY DEF HandlesInv, Blameless, UsesLive
<1> QED BY HandlesInvariant, <1>1, PTL

(* Every function may be called, every new() may fail and every close may  *)
(* report an error, and the first free that goes wrong, of an object that  *)
(* is gone already or is part of another, is a stray userdata's: one that  *)
(* wraps what it does not own, or kept its cookie when its close failed.   *)
THEOREM FreesOnce == DutiesCover /\ HandlesSpec => []FreedOnce
<1>1. HandlesInv => FreedOnce
  BY DEF HandlesInv, Blameless, FreedOnce
<1> QED BY HandlesInvariant, <1>1, PTL

(* A live userdata of a covered binding, unless it is a stray, holds the   *)
(* address of a live object whose handle, the one it was opened through,   *)
(* is still open.                                                          *)
THEOREM NoneDangling == DutiesCover /\ HandlesSpec => []NoDangling
<1>1. HandlesInv => NoDangling
  <2> SUFFICES ASSUME HandlesInv, bad = {}, NEW u \in Ud,
                      ud[u].st = "live", ~ud[u].stray, Cookie(u) # 0
               PROVE  /\ Live(Cookie(u))
                      /\ Up(Cookie(u)) # 0 => Live(Up(Cookie(u)))
    BY DEF NoDangling
  <2>1. Shape(mem, ud) /\ Held(ud, u) /\ ud[u].stray \in BOOLEAN
    BY DEF HandlesInv, Sound, Shape, HandlesTypeOK, UdType, Held, Cookie
  <2>2. Wrapped(ud, u)
    BY <2>1, Zenon DEF Wrapped
  <2>3. /\ IsLive(mem, ud[u].cookie)
        /\ UpOf(mem, ud[u].cookie) # 0 => IsLive(mem, UpOf(mem, ud[u].cookie))
    BY <2>1, <2>2, Below
  <2> QED BY <2>3 DEF Live, IsLive, Up, UpOf, Cookie
<1> QED BY HandlesInvariant, <1>1, PTL

(* lua_close gives back every object that ever had a userdata: whatever    *)
(* was closed, consumed, collected or failed before, the finalizers of     *)
(* what is left free the rest, and only blocks that a function left behind *)
(* and objects whose new() failed remain.                                  *)
THEOREM AllGivenBack == DutiesCover /\ HandlesSpec => []NothingLeft
<1>1. HandlesInv => NothingLeft
  <2> SUFFICES ASSUME HandlesInv, bad = {}, \A u \in Ud : ud[u].st # "live",
                      NEW o \in Mem, Live(o)
               PROVE  mem[o].kind = "-"
    BY DEF NothingLeft
  <2> DEFINE w == mem[o].whole
  <2>1. Shape(mem, ud) /\ IsLive(mem, o)
    BY DEF HandlesInv, Sound, Live, IsLive
  <2>2. w \in Mem /\ IsLive(mem, w) /\ ~IsPart(mem, w)
    BY <2>1, Under DEF IsPart
  <2>3. mem[w].kind = "-"
    BY <2>1, <2>2 DEF Shape, Owned, Wrapped, Held
  <2>4. o = w
    BY <2>1, <2>2, <2>3 DEF Shape, Lost
  <2> QED BY <2>3, <2>4
<1> QED BY HandlesInvariant, <1>1, PTL
=============================================================================
