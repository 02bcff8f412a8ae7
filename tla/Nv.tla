--------------------------------- MODULE Nv ---------------------------------
(***************************************************************************)
(* Ownership of name/value lists in libnv/lua_nv.c: who destroys a list,   *)
(* and which userdata may point into it meanwhile.                         *)
(*                                                                         *)
(* Lists form a forest.  An "own" userdata (nvlist_t) owns a root: its     *)
(* __gc destroys the list with everything below.  A "const" userdata       *)
(* (const nvlist_t) borrows a list and a "pair" userdata (nvlist_t cookie) *)
(* borrows the pair that holds a list in its parent; both have no __gc     *)
(* and keep another userdata alive through REF (utils.h: newref).          *)
(*                                                                         *)
(* Values that are no lists are left out: adding, getting, taking or       *)
(* freeing them changes no list, except that adding under a name that is   *)
(* taken puts the list in error.                                           *)
(***************************************************************************)
EXTENDS Functions

CONSTANTS
  Lists,        \* heap addresses of lists
  Handles,      \* userdata that can exist
  Nil,          \* NULL
  KeepDefaults  \* a default given to get_nvlist is kept as long as there are
                \* userdata obtained from it

ASSUME NvAssumption ==
  /\ Nil \notin Lists \cup Handles
  /\ KeepDefaults \in BOOLEAN

VARIABLES
  life,    \* life[l]: "none", "live", "freed"
  anc,     \* anc[l]: l and the lists above it (the chain of parent pointers)
  bad,     \* bad[l]: nvlist_error(l) # 0
  kind,    \* kind[h]: "none", "own", "const", "pair"
  cookie,  \* cookie[h]: COOKIE; of a pair, the list the pair holds
  ref,     \* ref[h]: REF
  stale,   \* stale[h]: what h points to has changed hands or was freed by
           \* the program itself, which does not use h any more
  dflt     \* dflt[h]: the default argument from which h was obtained, or Nil

nvvars == <<life, anc, bad, kind, cookie, ref, stale, dflt>>

NvTypeOK ==
  /\ life \in [Lists -> {"none", "live", "freed"}]
  /\ anc \in [Lists -> SUBSET Lists]
  /\ bad \in [Lists -> BOOLEAN]
  /\ kind \in [Handles -> {"none", "own", "const", "pair"}]
  /\ cookie \in [Handles -> Lists \cup {Nil}]
  /\ ref \in [Handles -> Handles \cup {Nil}]
  /\ stale \in [Handles -> BOOLEAN]
  /\ dflt \in [Handles -> Handles \cup {Nil}]

NvInit ==
  /\ life = [l \in Lists |-> "none"]
  /\ anc = [l \in Lists |-> {}]
  /\ bad = [l \in Lists |-> FALSE]
  /\ kind = [h \in Handles |-> "none"]
  /\ cookie = [h \in Handles |-> Nil]
  /\ ref = [h \in Handles |-> Nil]
  /\ stale = [h \in Handles |-> FALSE]
  /\ dflt = [h \in Handles |-> Nil]
-----------------------------------------------------------------------------
Fresh == {l \in Lists : life[l] = "none"}
Below(l) == {m \in Lists : l \in anc[m]}
IsRoot(l) == anc[l] = {l}
Parent(p, l) == p # l /\ p \in anc[l] /\ anc[p] = anc[l] \ {l}

Exists(h) == kind[h] # "none"
Borrowers(S) == {h \in Handles : kind[h] \in {"const", "pair"} /\ cookie[h] \in S}

(* checknvlist, checkconstnvlist: a list that is in error is refused.      *)
Sound(h) == cookie[h] # Nil /\ ~stale[h] /\ ~bad[cookie[h]]
Own(h) == kind[h] = "own" /\ Sound(h)
Const(h) == kind[h] = "const" /\ Sound(h)

(* checkanynvlist: the two metatables are compared with each other and the *)
(* second with the argument's, so that only const lists get through.       *)
AnyNvlist(h) == Const(h)

(* nvlist_destroy of every list in S.                                      *)
Destroy(S) ==
  /\ life' = [l \in Lists |-> IF l \in S THEN "freed" ELSE life[l]]
  /\ anc' = [l \in Lists |-> IF l \in S THEN {} ELSE anc[l]]

(* The lists in S go to another owner or to the heap, by the program's own *)
(* call: from here on it does not use what it has borrowed from them.      *)
Retire(S) == stale' = [h \in Handles |-> stale[h] \/ h \in Borrowers(S)]

(* new(L, l, NVLIST_METATABLE) *)
NewOwn(k, l) ==
  /\ ~Exists(k)
  /\ kind' = [kind EXCEPT ![k] = "own"]
  /\ cookie' = [cookie EXCEPT ![k] = l]
  /\ UNCHANGED <<ref, dflt>>

(* Mutant: the two arguments of newref are swapped.                        *)
NewConstSwapped(k, r, l) ==
  /\ ~Exists(k)
  /\ kind' = [kind EXCEPT ![k] = "const"]
  /\ cookie' = [cookie EXCEPT ![k] = r]
  /\ ref' = [ref EXCEPT ![k] = l]

(* newref(L, r, l, CONST_NVLIST_METATABLE) *)
NewConst(k, r, l) ==
  /\ ~Exists(k)
  /\ kind' = [kind EXCEPT ![k] = "const"]
  /\ cookie' = [cookie EXCEPT ![k] = l]
  /\ ref' = [ref EXCEPT ![k] = r]

(* A new tree: list r, and lists C in it.                                  *)
Grow(r, C) ==
  /\ {r} \cup C \subseteq Fresh
  /\ r \notin C
  /\ life' = [l \in Lists |-> IF l \in {r} \cup C THEN "live" ELSE life[l]]
  /\ anc' = [l \in Lists |-> IF l = r THEN {r}
                             ELSE IF l \in C THEN {r, l} ELSE anc[l]]

(* nv.create, nv.recv, nv.unpack, and channel:recv of libcasper.           *)
Make(k, r, C) ==
  /\ Grow(r, C)
  /\ NewOwn(k, r)
  /\ UNCHANGED <<bad, stale>>

(* nvlist_create or nvlist_clone returns NULL: a userdata with no list.    *)
MakeNull(k) ==
  /\ NewOwn(k, Nil)
  /\ UNCHANGED <<life, anc, bad, stale>>

(* set_error *)
SetError(h) ==
  /\ kind[h] = "own" /\ cookie[h] # Nil
  /\ bad' = [bad EXCEPT ![cookie[h]] = TRUE]
  /\ UNCHANGED <<life, anc, kind, cookie, ref, stale, dflt>>

(* A scalar is added under a name that is taken.                           *)
AddFails(h) == Own(h) /\ SetError(h)

(* Lua collects a userdata that the program has dropped and no userdata    *)
(* refers to.  __gc of an own list destroys the tree, NULL being no list.  *)
Gc(h) ==
  /\ Exists(h)
  /\ \A k \in Handles : Exists(k) => ref[k] # h
  /\ KeepDefaults => \A k \in Handles : Exists(k) => dflt[k] # h
  /\ Destroy(IF kind[h] = "own" /\ cookie[h] # Nil THEN Below(cookie[h]) ELSE {})
  /\ kind' = [kind EXCEPT ![h] = "none"]
  /\ cookie' = [cookie EXCEPT ![h] = Nil]
  /\ ref' = [ref EXCEPT ![h] = Nil]
  /\ stale' = [stale EXCEPT ![h] = FALSE]
  /\ dflt' = [k \in Handles |-> IF k = h \/ dflt[k] = h THEN Nil ELSE dflt[k]]
  /\ UNCHANGED bad
-----------------------------------------------------------------------------
(* f maps the tree under l to fresh lists, whose top goes under the lists  *)
(* in above.                                                               *)
Copy(l, f, above) ==
  /\ life' = [m \in Lists |-> IF m \in Range(f) THEN "live" ELSE life[m]]
  /\ anc' = [m \in Lists |->
               IF m \in Range(f)
               THEN {f[x] : x \in Below(l) \cap anc[AntiFunction(f)[m]]} \cup above
               ELSE anc[m]]

(* clone *)
Clone(h, k) ==
  /\ Own(h) \/ Const(h)
  /\ \E f \in Injection(Below(cookie[h]), Fresh) :
       /\ Copy(cookie[h], f, {})
       /\ NewOwn(k, f[cookie[h]])
  /\ UNCHANGED <<bad, stale>>

(* add_nvlist, append_nvlist_array: a clone of the value goes into the     *)
(* list.  (A name that is taken is AddFails: the clone is destroyed.)      *)
Add(h, v) ==
  /\ Own(h)
  /\ AnyNvlist(v)
  /\ \E f \in Injection(Below(cookie[v]), Fresh) :
       Copy(cookie[v], f, anc[cookie[h]])
  /\ UNCHANGED <<bad, kind, cookie, ref, stale, dflt>>

(* Mutant: the cookie of the value moved is not cleared.                   *)
MoveKeepsCookie(h, v) ==
  /\ Own(h) /\ Own(v) /\ h # v
  /\ anc' = [m \in Lists |-> IF m \in Below(cookie[v])
                             THEN anc[m] \cup anc[cookie[h]] ELSE anc[m]]
  /\ Retire(Below(cookie[v]))
  /\ UNCHANGED <<life, bad, kind, cookie, ref, dflt>>

(* move_nvlist: the value leaves its userdata and goes into the list.      *)
(* (Moving a list into itself is left out, see the README.)                *)
Move(h, v) ==
  /\ Own(h) /\ Own(v) /\ h # v
  /\ anc' = [m \in Lists |-> IF m \in Below(cookie[v])
                             THEN anc[m] \cup anc[cookie[h]] ELSE anc[m]]
  /\ cookie' = [cookie EXCEPT ![v] = Nil]
  /\ Retire(Below(cookie[v]))
  /\ UNCHANGED <<life, bad, kind, ref, dflt>>

(* ... or the name is taken: the value is destroyed, the list is in error. *)
MoveFails(h, v) ==
  /\ Own(h) /\ Own(v) /\ h # v
  /\ Destroy(Below(cookie[v]))
  /\ bad' = [bad EXCEPT ![cookie[h]] = TRUE]
  /\ cookie' = [cookie EXCEPT ![v] = Nil]
  /\ Retire(Below(cookie[v]))
  /\ UNCHANGED <<kind, ref, dflt>>

(* The library consumes the list: xfer when sending or receiving fails,    *)
(* and libcasper's limit(limits), initnv, cinitnv.                         *)
Consume(h) ==
  /\ Own(h)
  /\ cookie' = [cookie EXCEPT ![h] = Nil]
  /\ Destroy(Below(cookie[h]))
  /\ Retire(Below(cookie[h]))
  /\ UNCHANGED <<bad, kind, ref, dflt>>

(* xfer: the list is sent and destroyed, the answer is a new one.          *)
Xfer(h, k, r, C) ==
  /\ Own(h) /\ ~Exists(k)
  /\ {r} \cup C \subseteq Fresh /\ r \notin C
  /\ life' = [l \in Lists |-> IF l \in Below(cookie[h]) THEN "freed"
                              ELSE IF l \in {r} \cup C THEN "live" ELSE life[l]]
  /\ anc' = [l \in Lists |-> IF l \in Below(cookie[h]) THEN {}
                             ELSE IF l = r THEN {r}
                             ELSE IF l \in C THEN {r, l} ELSE anc[l]]
  /\ cookie' = [cookie EXCEPT ![h] = Nil, ![k] = r]
  /\ kind' = [kind EXCEPT ![k] = "own"]
  /\ Retire(Below(cookie[h]))
  /\ UNCHANGED <<bad, ref, dflt>>
-----------------------------------------------------------------------------
(* Mutant: the borrowed list does not keep its parent's userdata alive.    *)
GetUnreferenced(h, k, c) ==
  /\ Own(h) \/ Const(h)
  /\ Parent(cookie[h], c)
  /\ NewConst(k, Nil, c)
  /\ UNCHANGED <<life, anc, bad, stale, dflt>>

(* get_nvlist, get_nvlist_array: borrow a child.                           *)
Get(h, k, c) ==
  /\ Own(h) \/ Const(h)
  /\ Parent(cookie[h], c)
  /\ NewConst(k, h, c)
  /\ UNCHANGED <<life, anc, bad, stale, dflt>>

(* get_nvlist(name, default) when there is no such name: the list of the   *)
(* default is borrowed, and REF is the list that was searched.             *)
GetDefault(h, d, k) ==
  /\ Own(h) \/ Const(h)
  /\ AnyNvlist(d)
  /\ NewConst(k, h, cookie[d])
  /\ dflt' = [dflt EXCEPT ![k] = d]
  /\ UNCHANGED <<life, anc, bad, stale>>

(* get_parent, get_pararr: borrow the list above, with the REF of this     *)
(* one, and the pair this one is in.                                       *)
GetParent(b, k, i, p) ==
  /\ Const(b)
  /\ Parent(p, cookie[b])
  /\ ~Exists(k) /\ ~Exists(i) /\ k # i
  /\ kind' = [kind EXCEPT ![k] = "const", ![i] = "pair"]
  /\ cookie' = [cookie EXCEPT ![k] = p, ![i] = cookie[b]]
  /\ ref' = [ref EXCEPT ![k] = ref[b], ![i] = b]
  /\ dflt' = [dflt EXCEPT ![k] = dflt[b]]
  /\ UNCHANGED <<life, anc, bad, stale>>

(* get_array_next: another list in the same parent, with the same REF.     *)
GetArrayNext(b, k, c) ==
  /\ Const(b)
  /\ c # cookie[b]
  /\ \E p \in Lists : Parent(p, cookie[b]) /\ Parent(p, c)
  /\ NewConst(k, ref[b], c)
  /\ dflt' = [dflt EXCEPT ![k] = dflt[b]]
  /\ UNCHANGED <<life, anc, bad, stale>>

(* cookie:get_nvlist(), cookie:get_nvlist_array()                          *)
PairGet(i, k) ==
  /\ kind[i] = "pair" /\ ~stale[i]
  /\ NewConst(k, i, cookie[i])
  /\ UNCHANGED <<life, anc, bad, stale, dflt>>
-----------------------------------------------------------------------------
(* List c leaves its parent and becomes a root.                            *)
Detach(c) ==
  anc' = [m \in Lists |-> IF c \in anc[m] THEN anc[m] \ (anc[c] \ {c}) ELSE anc[m]]

(* take_nvlist, take_nvlist_array: a child gets a userdata of its own.     *)
Take(h, k, c) ==
  /\ Own(h)
  /\ Parent(cookie[h], c)
  /\ Detach(c)
  /\ NewOwn(k, c)
  /\ Retire(Below(c))
  /\ UNCHANGED <<life, bad>>

(* cookie:take_nvlist(), cookie:take_nvlist_array()                        *)
PairTake(i, k) ==
  /\ kind[i] = "pair" /\ ~stale[i]
  /\ Detach(cookie[i])
  /\ NewOwn(k, cookie[i])
  /\ Retire(Below(cookie[i]))
  /\ UNCHANGED <<life, bad>>

(* free, free_type, free_nvlist, free_nvlist_array; free takes its list    *)
(* with checkcookie, so that also a list in error can lose a member.       *)
Free(h, c) ==
  /\ kind[h] = "own" /\ cookie[h] # Nil
  /\ Parent(cookie[h], c)
  /\ Destroy(Below(c))
  /\ Retire(Below(c))
  /\ UNCHANGED <<bad, kind, cookie, ref, dflt>>

(* cookie:free_nvlist(), cookie:free_nvlist_array()                        *)
PairFree(i) ==
  /\ kind[i] = "pair" /\ ~stale[i]
  /\ Destroy(Below(cookie[i]))
  /\ Retire(Below(cookie[i]))
  /\ UNCHANGED <<bad, kind, cookie, ref, dflt>>

NvNext ==
  \E h \in Handles :
    \/ MakeNull(h) \/ SetError(h) \/ AddFails(h) \/ Gc(h) \/ Consume(h) \/ PairFree(h)
    \/ \E r \in Lists, C \in SUBSET Lists : Make(h, r, C)
    \/ \E c \in Lists : Free(h, c)
    \/ \E k \in Handles :
         \/ Clone(h, k) \/ Add(h, k) \/ Move(h, k) \/ MoveFails(h, k)
         \/ PairGet(h, k) \/ PairTake(h, k)
         \/ \E r \in Lists, C \in SUBSET Lists : Xfer(h, k, r, C)
         \/ \E d \in Handles : GetDefault(h, d, k)
         \/ \E c \in Lists : \/ Get(h, k, c) \/ GetArrayNext(h, k, c)
                             \/ Take(h, k, c)
                             \/ \E i \in Handles : GetParent(h, k, i, c)

NvSpec == NvInit /\ [][NvNext]_nvvars
-----------------------------------------------------------------------------
(* Every live list is destroyed by exactly one userdata: a root is owned   *)
(* by one, a child by none, and no userdata owns a list that is gone.      *)
(* Otherwise __gc destroys it twice, or never.                             *)
OneOwner ==
  /\ \A h \in Handles : kind[h] = "own" /\ cookie[h] # Nil =>
       life[cookie[h]] = "live" /\ IsRoot(cookie[h])
  /\ \A l \in Lists : life[l] = "live" /\ IsRoot(l) =>
       \E h \in Handles : kind[h] = "own" /\ cookie[h] = l
  /\ \A h, k \in Handles :
       kind[h] = "own" /\ kind[k] = "own" /\ cookie[h] = cookie[k] /\ cookie[h] # Nil
         => h = k

(* "pointer into another object (at idx) with a ref to keep it alive": a   *)
(* borrowed userdata the program may still use points to a live list, and  *)
(* a pair to one that is still in its parent.                              *)
KeptAlive ==
  \A b \in Handles :
    kind[b] \in {"const", "pair"} /\ ~stale[b] =>
      /\ life[cookie[b]] = "live"
      /\ kind[b] = "pair" => ~IsRoot(cookie[b])
=============================================================================
