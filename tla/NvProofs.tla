------------------------------ MODULE NvProofs ------------------------------
(***************************************************************************)
(* For any number of lists and userdata: every list that libnv/lua_nv.c    *)
(* has made is destroyed by exactly one userdata, and what is borrowed is  *)
(* kept alive by the chain of REF values.                                  *)
(***************************************************************************)
EXTENDS Nv, TLAPS

(* The lists above a list form a chain, with the list itself at its end.   *)
Forest ==
  /\ \A l \in Lists : life[l] = "live" <=> l \in anc[l]
  /\ \A l \in Lists : anc[l] # {} => l \in anc[l]
  /\ \A l \in Lists : \A m \in anc[l] : m \in anc[m] /\ anc[m] \subseteq anc[l]
  /\ \A l \in Lists : \A m, n \in anc[l] : m \in anc[n] \/ n \in anc[m]
  /\ \A l, m \in Lists : l \in anc[m] /\ m \in anc[l] => l = m

(* up[b] is what userdata b keeps from being collected: b itself, and each *)
(* other userdata because REF, or the program's duty to a default, refers  *)
(* to it from inside.                                                      *)
Chain(up) ==
  \A b \in Handles :
    Exists(b) =>
      /\ b \in up[b]
      /\ \A x \in up[b] :
           /\ Exists(x)
           /\ x # b => \E k \in up[b] : ref[k] = x \/ dflt[k] = x

(* What may still be used keeps the owner of its tree from being collected.*)
Anchored(up) ==
  \A b \in Handles :
    kind[b] \in {"const", "pair"} /\ ~stale[b] =>
      /\ cookie[b] \in Lists
      /\ \E o \in up[b] : kind[o] = "own" /\ cookie[o] \in anc[cookie[b]]

(* A pair is in a list.                                                    *)
PairsInside ==
  \A b \in Handles : kind[b] = "pair" /\ ~stale[b] => ~IsRoot(cookie[b])

Kept == \E up \in [Handles -> SUBSET Handles] : Chain(up) /\ Anchored(up)

NvInv ==
  /\ NvTypeOK
  /\ Forest
  /\ OneOwner
  /\ PairsInside
  /\ Kept
-----------------------------------------------------------------------------
(* A list has one root above it.                                           *)
LEMMA RootUnique ==
  ASSUME NvTypeOK, Forest, NEW l \in Lists, NEW r \in anc[l], NEW s \in anc[l],
         IsRoot(r), IsRoot(s)
  PROVE  r = s
  BY DEF NvTypeOK, Forest, IsRoot

(* Destroying everything below a list leaves a forest.                     *)
LEMMA ForestDestroy ==
  ASSUME NvTypeOK, Forest, NEW c \in Lists, Destroy(Below(c))
  PROVE  /\ Forest'
         /\ \A l \in Lists \ Below(c) : life'[l] = life[l] /\ anc'[l] = anc[l]
         /\ \A l \in Below(c) : life'[l] = "freed" /\ anc'[l] = {}
  BY DEF NvTypeOK, Forest, Destroy, Below

(* A new tree is apart from the others.                                    *)
LEMMA ForestGrow ==
  ASSUME NvTypeOK, Forest, NEW r \in Lists, NEW C \in SUBSET Lists, Grow(r, C)
  PROVE  Forest'
  BY DEF NvTypeOK, Forest, Grow, Fresh

(* A root and its tree go under another root.                              *)
LEMMA ForestMove ==
  ASSUME NvTypeOK, Forest, NEW r \in Lists, NEW s \in Lists, r # s,
         IsRoot(r), IsRoot(s), life' = life,
         anc' = [m \in Lists |-> IF m \in Below(s) THEN anc[m] \cup anc[r] ELSE anc[m]]
  PROVE  Forest'
  BY DEF NvTypeOK, Forest, IsRoot, Below

(* A list and what is below it leave the lists above.                      *)
LEMMA ForestDetach ==
  ASSUME NvTypeOK, Forest, NEW c \in Lists, life[c] = "live", life' = life, Detach(c)
  PROVE  /\ Forest'
         /\ anc'[c] = {c}
         /\ \A l \in Lists \ Below(c) : anc'[l] = anc[l]
         /\ \A l \in Below(c) : l # c => ~IsRoot(l)'
  BY DEF NvTypeOK, Forest, Detach, Below, IsRoot

(* A copy of the tree under l is made of fresh lists; the chain above the  *)
(* copy of a list is the copy of its chain up to l, and what l goes under. *)
LEMMA CopyShape ==
  ASSUME NvTypeOK, NEW l \in Lists, NEW f \in Injection(Below(l), Fresh),
         NEW above \in SUBSET Lists, Copy(l, f, above)
  PROVE  /\ \A x \in Below(l) :
              /\ f[x] \in Lists /\ life[f[x]] = "none" /\ life'[f[x]] = "live"
              /\ anc'[f[x]] = {f[y] : y \in Below(l) \cap anc[x]} \cup above
         /\ \A m \in Lists :
              (\A x \in Below(l) : m # f[x]) => life'[m] = life[m] /\ anc'[m] = anc[m]
         /\ life' \in [Lists -> {"none", "live", "freed"}] /\ anc' \in [Lists -> SUBSET Lists]
  <1>1. /\ f \in [Below(l) -> Fresh] /\ DOMAIN f = Below(l)
        /\ \A x, y \in Below(l) : f[x] = f[y] => x = y
        /\ Below(l) \subseteq Lists /\ Fresh \subseteq Lists
    BY DEF Injection, IsInjective, Below, Fresh
  <1>2. ASSUME NEW x \in Below(l) PROVE AntiFunction(f)[f[x]] = x
    <2>1. f[x] \in Range(f)
      BY <1>1 DEF Range
    <2>2. AntiFunction(f)[f[x]] = CHOOSE s \in DOMAIN f : f[x] \in Range(f) => f[s] = f[x]
      BY <2>1 DEF AntiFunction, Inverse
    <2> QED BY <1>1, <2>1, <2>2
  <1>3. \A m : m \in Range(f) <=> \E x \in Below(l) : m = f[x]
    BY <1>1 DEF Range
  <1>4. \A x \in Below(l) : f[x] \in Lists /\ life[f[x]] = "none"
    BY <1>1 DEF Fresh
  <1>5. ASSUME NEW x \in Below(l)
        PROVE  anc'[f[x]] = {f[y] : y \in Below(l) \cap anc[x]} \cup above
    <2>1. anc'[f[x]] = {f[y] : y \in Below(l) \cap anc[AntiFunction(f)[f[x]]]} \cup above
      BY <1>3, <1>4 DEF Copy
    <2> QED BY <1>2, <2>1
  <1>6. \A x \in Below(l) : life'[f[x]] = "live"
    BY <1>3, <1>4 DEF Copy
  <1>7. \A m \in Lists : m \notin Range(f) => life'[m] = life[m] /\ anc'[m] = anc[m]
    BY DEF Copy
  <1>8. anc' \in [Lists -> SUBSET Lists]
    <2>1. \A m \in Lists : m \in Range(f) => anc'[m] \subseteq Lists
      BY <1>1, <1>3, <1>4, <1>5
    <2>2. \A m \in Lists : m \notin Range(f) => anc'[m] \subseteq Lists
      BY <1>7 DEF NvTypeOK
    <2>3. anc' = [m \in Lists |-> anc'[m]]
      BY DEF Copy
    <2> QED BY <2>1, <2>2, <2>3
  <1>9. life' \in [Lists -> {"none", "live", "freed"}]
    BY DEF Copy, NvTypeOK
  <1> QED BY <1>3, <1>4, <1>5, <1>6, <1>7, <1>8, <1>9

(* The copy goes under a root, or stays by itself.                         *)
LEMMA ForestCopy ==
  ASSUME NvTypeOK, Forest, NEW l \in Lists, NEW f \in Injection(Below(l), Fresh),
         NEW above \in SUBSET Lists, Copy(l, f, above),
         \A r \in above : IsRoot(r) /\ above = {r}
  PROVE  Forest'
  <1>1. /\ \A x \in Below(l) :
             /\ f[x] \in Lists /\ life[f[x]] = "none" /\ life'[f[x]] = "live"
             /\ anc'[f[x]] = {f[y] : y \in Below(l) \cap anc[x]} \cup above
        /\ \A m \in Lists :
             (\A x \in Below(l) : m # f[x]) => life'[m] = life[m] /\ anc'[m] = anc[m]
        /\ anc' \in [Lists -> SUBSET Lists]
    BY CopyShape
  <1>2. \A x, y \in Below(l) : f[x] = f[y] => x = y
    BY DEF Injection, IsInjective
  <1>3. Below(l) \subseteq Lists /\ \A x \in Lists : x \in Below(l) <=> l \in anc[x]
    BY DEF Below
  <1>4. \A x \in Below(l) : anc[f[x]] = {} /\ \A m \in Lists : f[x] \notin anc[m]
    BY <1>1, <1>3 DEF Forest, NvTypeOK
  <1>5. \A r \in above : r \in Lists /\ anc[r] = {r} /\ anc'[r] = {r} /\ life[r] = "live"
    BY <1>1, <1>4 DEF IsRoot, Forest
  <1>6. \A m \in Lists : (\E x \in Below(l) : m = f[x]) \/ anc'[m] = anc[m]
    BY <1>1
  <1>7. \A m \in Lists, x \in Below(l) : anc'[m] = anc[m] => f[x] \notin anc'[m]
    BY <1>4
  <1>8. \A x \in Below(l) : x \in anc[x] /\ f[x] \in anc'[f[x]]
    BY <1>1, <1>3 DEF Forest
  <1>9. \A x \in Below(l) : \A m \in anc'[f[x]] :
          m \in above \/ \E y \in Below(l) : y \in anc[x] /\ m = f[y]
    BY <1>1
  <1>10. \A x, y \in Below(l) : f[y] \in anc'[f[x]] <=> y \in anc[x]
    <2>1. \A x \in Below(l) : f[x] \notin above
      BY <1>1, <1>5
    <2>2. \A x, y \in Below(l) : f[y] \in anc'[f[x]] => y \in anc[x]
      BY <1>2, <1>9, <2>1
    <2>3. \A x, y \in Below(l) : y \in anc[x] => f[y] \in anc'[f[x]]
      BY <1>1
    <2> QED BY <2>2, <2>3
  <1>11. \A x \in Below(l) : above \subseteq anc'[f[x]]
    BY <1>1
  <1>a. \A m \in Lists : life'[m] = "live" <=> m \in anc'[m]
    <2>1. \A m \in Lists : (\E x \in Below(l) : m = f[x]) => (life'[m] = "live" /\ m \in anc'[m])
      BY <1>1, <1>8
    <2>2. \A m \in Lists : (\A x \in Below(l) : m # f[x]) => (life'[m] = "live" <=> m \in anc'[m])
      BY <1>1 DEF Forest
    <2> QED BY <2>1, <2>2
  <1>b. \A m \in Lists : anc'[m] # {} => m \in anc'[m]
    BY <1>6, <1>8 DEF Forest
  <1>c. ASSUME NEW m \in Lists, NEW n \in anc'[m]
        PROVE  n \in anc'[n] /\ anc'[n] \subseteq anc'[m]
    <2>1. CASE anc'[m] = anc[m]
      <3>1. n \in Lists /\ n \in anc[n] /\ anc[n] \subseteq anc[m]
        BY <2>1 DEF Forest, NvTypeOK
      <3>2. anc'[n] = anc[n]
        BY <1>4, <1>6, <2>1, <3>1
      <3> QED BY <2>1, <3>1, <3>2
    <2>2. ASSUME NEW x \in Below(l), m = f[x] PROVE n \in anc'[n] /\ anc'[n] \subseteq anc'[m]
      <3>1. CASE n \in above
        BY <1>5, <1>11, <2>2, <3>1
      <3>2. ASSUME NEW y \in Below(l), y \in anc[x], n = f[y]
            PROVE  n \in anc'[n] /\ anc'[n] \subseteq anc'[m]
        <4>1. anc[y] \subseteq anc[x]
          BY <1>3, <3>2 DEF Forest
        <4> QED BY <1>1, <1>8, <2>2, <3>2, <4>1
      <3> QED BY <1>9, <2>2, <3>1, <3>2
    <2> QED BY <1>6, <2>1, <2>2
  <1>d. ASSUME NEW m \in Lists, NEW n1 \in anc'[m], NEW n2 \in anc'[m]
        PROVE  n1 \in anc'[n2] \/ n2 \in anc'[n1]
    <2>1. CASE anc'[m] = anc[m]
      <3>1. n1 \in Lists /\ n2 \in Lists /\ (n1 \in anc[n2] \/ n2 \in anc[n1])
        BY <2>1 DEF Forest, NvTypeOK
      <3>2. anc'[n1] = anc[n1] /\ anc'[n2] = anc[n2]
        BY <1>4, <1>6, <2>1, <3>1
      <3> QED BY <3>1, <3>2
    <2>2. ASSUME NEW x \in Below(l), m = f[x] PROVE n1 \in anc'[n2] \/ n2 \in anc'[n1]
      <3>1. CASE n1 \in above /\ n2 \in above
        BY <1>5, <3>1
      <3>2. ASSUME NEW y \in Below(l), n1 = f[y], n2 \in above PROVE n2 \in anc'[n1]
        BY <1>11, <3>2
      <3>3. ASSUME NEW y \in Below(l), n2 = f[y], n1 \in above PROVE n1 \in anc'[n2]
        BY <1>11, <3>3
      <3>4. ASSUME NEW y \in Below(l), NEW z \in Below(l), n1 = f[y], n2 = f[z],
                   y \in anc[x], z \in anc[x]
            PROVE  n1 \in anc'[n2] \/ n2 \in anc'[n1]
        <4>1. y \in anc[z] \/ z \in anc[y]
          BY <1>3, <3>4 DEF Forest
        <4> QED BY <1>10, <3>4, <4>1
      <3>5. n1 \in above \/ \E y \in Below(l) : y \in anc[x] /\ n1 = f[y]
        BY <1>9, <2>2
      <3>6. n2 \in above \/ \E y \in Below(l) : y \in anc[x] /\ n2 = f[y]
        BY <1>9, <2>2
      <3> QED BY <3>1, <3>2, <3>3, <3>4, <3>5, <3>6
    <2> QED BY <1>6, <2>1, <2>2
  <1>e. ASSUME NEW m \in Lists, NEW n \in Lists, m \in anc'[n], n \in anc'[m]
        PROVE  m = n
    <2>1. CASE anc'[m] = anc[m] /\ anc'[n] = anc[n]
      BY <1>e, <2>1 DEF Forest
    <2>2. ASSUME NEW x \in Below(l), m = f[x] PROVE m = n
      <3>1. PICK y \in Below(l) : n = f[y]
        BY <1>6, <1>7, <1>e, <2>2
      <3> QED BY <1>3, <1>10, <1>e, <2>2, <3>1 DEF Forest
    <2>3. ASSUME NEW x \in Below(l), n = f[x] PROVE m = n
      <3>1. PICK y \in Below(l) : m = f[y]
        BY <1>6, <1>7, <1>e, <2>3
      <3> QED BY <1>3, <1>10, <1>e, <2>3, <3>1 DEF Forest
    <2> QED BY <1>6, <2>1, <2>2, <2>3
  <1> QED BY <1>a, <1>b, <1>c, <1>d, <1>e DEF Forest
-----------------------------------------------------------------------------
(* Borrowed userdata that may still be used.                               *)
Usable(b) == kind[b] \in {"const", "pair"} /\ ~stale[b]

(* What keeps what alive stays the same when no userdata comes or goes, the*)
(* lists of usable ones keep their place, and so do the owners above them. *)
LEMMA AnchorsStay ==
  ASSUME NvTypeOK, NEW up \in [Handles -> SUBSET Handles], Chain(up), Anchored(up),
         kind' = kind, ref' = ref, dflt' = dflt,
         \A b \in Handles : Usable(b)' =>
           /\ Usable(b) /\ cookie'[b] = cookie[b]
           /\ anc'[cookie[b]] = anc[cookie[b]]
           /\ \A o \in Handles : kind[o] = "own" /\ cookie[o] \in anc[cookie[b]]
                                 => cookie'[o] = cookie[o]
  PROVE  Chain(up)' /\ Anchored(up)'
  <1>1. Chain(up)'
    BY DEF Chain, Exists
  <1>2. Anchored(up)'
    BY DEF Anchored, Usable
  <1> QED BY <1>1, <1>2

(* The same when a userdata that owns a list is added.                     *)
LEMMA AnchorsOwn ==
  ASSUME NvTypeOK, NEW up \in [Handles -> SUBSET Handles], Chain(up), Anchored(up),
         NEW k \in Handles, ~Exists(k),
         kind' = [kind EXCEPT ![k] = "own"], ref' = ref, dflt' = dflt,
         \A b \in Handles : Usable(b)' =>
           /\ Usable(b) /\ cookie'[b] = cookie[b]
           /\ anc'[cookie[b]] = anc[cookie[b]]
           /\ \A o \in Handles : kind[o] = "own" /\ cookie[o] \in anc[cookie[b]]
                                 => cookie'[o] = cookie[o]
  PROVE  Kept'
  <1> DEFINE u == [up EXCEPT ![k] = {k}]
  <1>1. u \in [Handles -> SUBSET Handles] /\ u[k] = {k} /\ \A b \in Handles : b # k => u[b] = up[b]
    OBVIOUS
  <1>2. kind'[k] = "own" /\ \A b \in Handles : b # k => kind'[b] = kind[b]
    BY DEF NvTypeOK
  <1>3. \A b \in Handles : Exists(b)' => b = k \/ Exists(b)
    BY <1>2 DEF Exists
  <1>4. \A b \in Handles : Exists(b) => Exists(b)'
    BY <1>2 DEF Exists
  <1>5. \A b \in Handles : Usable(b)' => b # k
    BY <1>2 DEF Usable
  <1> HIDE DEF u
  <1>6. Chain(u)'
    BY <1>1, <1>2, <1>3, <1>4 DEF Chain, Exists
  <1>7. Anchored(u)'
    <2> SUFFICES ASSUME NEW b \in Handles, Usable(b)'
                 PROVE  cookie'[b] \in Lists /\ \E o \in u[b] : kind'[o] = "own" /\ cookie'[o] \in anc'[cookie'[b]]
      BY DEF Anchored, Usable
    <2>1. b # k /\ u[b] = up[b] /\ Usable(b) /\ cookie'[b] = cookie[b] /\ anc'[cookie[b]] = anc[cookie[b]]
      BY <1>1, <1>5
    <2>2. cookie[b] \in Lists
      BY <2>1 DEF Anchored, Usable
    <2>3. PICK o \in up[b] : kind[o] = "own" /\ cookie[o] \in anc[cookie[b]]
      BY <2>1 DEF Anchored, Usable
    <2>4. o \in Handles /\ o # k /\ kind'[o] = "own" /\ cookie'[o] = cookie[o]
      BY <1>2, <2>1, <2>3 DEF Exists
    <2> QED BY <2>1, <2>2, <2>3, <2>4
  <1> QED BY <1>1, <1>6, <1>7 DEF Kept

(* The same when borrowing userdata K are added; k then keeps U[k] alive.  *)
LEMMA AnchorsBorrow ==
  ASSUME NvTypeOK, Kept, NEW K \in SUBSET Handles, NEW U \in [K -> SUBSET Handles],
         anc' = anc, stale' = stale,
         \A b \in Handles \ K :
           /\ kind'[b] = kind[b] /\ cookie'[b] = cookie[b]
           /\ ref'[b] = ref[b] /\ dflt'[b] = dflt[b],
         \A k \in K :
           /\ ~Exists(k) /\ kind'[k] \in {"const", "pair"} /\ cookie'[k] \in Lists
           /\ \A x \in U[k] :
                Exists(x) /\ \E y \in U[k] \cup {k} : ref'[y] = x \/ dflt'[y] = x
           /\ \E o \in U[k] : kind[o] = "own" /\ cookie[o] \in anc[cookie'[k]]
  PROVE  Kept'
  <1>1. PICK up \in [Handles -> SUBSET Handles] : Chain(up) /\ Anchored(up)
    BY DEF Kept
  <1> DEFINE u == [b \in Handles |-> IF b \in K THEN U[b] \cup {b} ELSE up[b]]
  <1>2. /\ u \in [Handles -> SUBSET Handles]
        /\ \A k \in K : u[k] = U[k] \cup {k}
        /\ \A b \in Handles \ K : u[b] = up[b]
    OBVIOUS
  <1>3. \A b \in Handles : Exists(b)' <=> b \in K \/ Exists(b)
    BY DEF Exists
  <1> HIDE DEF u
  <1>4. Chain(u)'
    <2>1. ASSUME NEW b \in Handles \ K, Exists(b)
          PROVE  /\ b \in u[b]
                 /\ \A x \in u[b] :
                      Exists(x)' /\ (x # b => \E y \in u[b] : ref'[y] = x \/ dflt'[y] = x)
      <3>1. u[b] = up[b] /\ b \in up[b] /\ \A x \in up[b] : x \in Handles \ K /\ Exists(x)
        BY <1>1, <1>2, <2>1 DEF Chain
      <3>2. ASSUME NEW x \in up[b], x # b PROVE \E y \in up[b] : ref'[y] = x \/ dflt'[y] = x
        BY <1>1, <2>1, <3>1, <3>2 DEF Chain
      <3> QED BY <1>3, <3>1, <3>2
    <2>2. ASSUME NEW k \in K
          PROVE  /\ k \in u[k]
                 /\ \A x \in u[k] :
                      Exists(x)' /\ (x # k => \E y \in u[k] : ref'[y] = x \/ dflt'[y] = x)
      BY <1>2, <1>3
    <2> QED BY <1>3, <2>1, <2>2 DEF Chain
  <1>5. Anchored(u)'
    <2>1. ASSUME NEW b \in Handles \ K, Usable(b)
          PROVE  cookie'[b] \in Lists /\ \E o \in u[b] : kind'[o] = "own" /\ cookie'[o] \in anc'[cookie'[b]]
      <3>1. cookie[b] \in Lists
        BY <1>1, <2>1 DEF Anchored, Usable
      <3>2. PICK o \in up[b] : kind[o] = "own" /\ cookie[o] \in anc[cookie[b]]
        BY <1>1, <2>1 DEF Anchored, Usable
      <3>3. o \in Handles \ K
        BY <3>2 DEF Exists
      <3> QED BY <1>2, <2>1, <3>1, <3>2, <3>3
    <2>2. ASSUME NEW k \in K
          PROVE  cookie'[k] \in Lists /\ \E o \in u[k] : kind'[o] = "own" /\ cookie'[o] \in anc'[cookie'[k]]
      <3>1. PICK o \in U[k] : kind[o] = "own" /\ cookie[o] \in anc[cookie'[k]]
        OBVIOUS
      <3>2. o \in Handles \ K
        BY <3>1 DEF Exists
      <3> QED BY <1>2, <3>1, <3>2
    <2>3. \A b \in Handles : Usable(b)' => b \in K \/ Usable(b)
      BY DEF Usable
    <2> QED BY <2>1, <2>2, <2>3 DEF Anchored, Usable
  <1> QED BY <1>2, <1>4, <1>5 DEF Kept
-----------------------------------------------------------------------------
(* An owner has a root.                                                    *)
LEMMA OwnerRoot ==
  ASSUME NvTypeOK, Forest, OneOwner, NEW h \in Handles, kind[h] = "own", cookie[h] # Nil
  PROVE  cookie[h] \in Lists /\ life[cookie[h]] = "live" /\ IsRoot(cookie[h])
  BY DEF NvTypeOK, OneOwner

(* What a usable userdata borrows is live.                                 *)
LEMMA UsableLive ==
  ASSUME NvTypeOK, Forest, OneOwner, Kept, NEW b \in Handles, Usable(b)
  PROVE  /\ cookie[b] \in Lists /\ life[cookie[b]] = "live"
         /\ cookie[b] \in anc[cookie[b]] /\ cookie[b] \in Below(cookie[b])
  <1>1. PICK up \in [Handles -> SUBSET Handles] : Chain(up) /\ Anchored(up)
    BY DEF Kept
  <1>2. cookie[b] \in Lists /\ anc[cookie[b]] # {}
    BY <1>1 DEF Anchored, Usable
  <1> QED BY <1>2 DEF Forest, Below

(* set_error *)
LEMMA ErrorStep ==
  ASSUME NvInv, bad' \in [Lists -> BOOLEAN], UNCHANGED <<life, anc, kind, cookie, ref, stale, dflt>>
  PROVE  NvInv'
  <1>1. NvTypeOK' /\ Forest' /\ OneOwner' /\ PairsInside'
    BY DEF NvInv, NvTypeOK, Forest, OneOwner, PairsInside, IsRoot
  <1>2. PICK up \in [Handles -> SUBSET Handles] : Chain(up) /\ Anchored(up)
    BY DEF NvInv, Kept
  <1>3. Chain(up)' /\ Anchored(up)'
    BY <1>2 DEF Chain, Anchored, Exists
  <1> QED BY <1>1, <1>2, <1>3 DEF NvInv, Kept

(* A list is destroyed with what is below, by its owner or in its parent.  *)
LEMMA DestroyStep ==
  ASSUME NvInv, NEW c \in Lists, life[c] = "live", Destroy(Below(c)), Retire(Below(c)),
         bad' \in [Lists -> BOOLEAN], UNCHANGED <<kind, ref, dflt>>,
         \/ ~IsRoot(c) /\ cookie' = cookie
         \/ \E v \in Handles : /\ kind[v] = "own" /\ cookie[v] = c
                               /\ cookie' = [cookie EXCEPT ![v] = Nil]
  PROVE  NvInv'
  <1> USE DEF NvInv
  <1>1. /\ Forest'
        /\ \A l \in Lists \ Below(c) : life'[l] = life[l] /\ anc'[l] = anc[l]
        /\ \A l \in Below(c) : life'[l] = "freed" /\ anc'[l] = {}
    BY ForestDestroy
  <1>2. NvTypeOK'
    BY DEF NvTypeOK, Destroy, Retire
  <1>3. \A h \in Handles : kind[h] = "own" => cookie'[h] = cookie[h] \/ (cookie[h] = c /\ cookie'[h] = Nil)
    BY DEF NvTypeOK
  <1>4. \A h \in Handles : kind[h] = "own" /\ cookie'[h] # Nil =>
          /\ cookie'[h] = cookie[h] /\ cookie[h] \in Lists /\ cookie[h] \notin Below(c)
    <2> SUFFICES ASSUME NEW h \in Handles, kind[h] = "own", cookie'[h] # Nil
                 PROVE  cookie'[h] = cookie[h] /\ cookie[h] \in Lists /\ cookie[h] \notin Below(c)
      OBVIOUS
    <2>1. cookie'[h] = cookie[h] /\ cookie[h] \in Lists /\ IsRoot(cookie[h])
      BY <1>3, OwnerRoot
    <2>2. cookie[h] \in Below(c) => cookie[h] = c
      BY <2>1 DEF IsRoot, Below
    <2>3. cookie[h] # c
      BY <2>1, <1>3, NvAssumption DEF OneOwner, NvTypeOK
    <2> QED BY <2>1, <2>2, <2>3
  <1>5. OneOwner'
    <2>1. \A h \in Handles : kind'[h] = "own" /\ cookie'[h] # Nil =>
            life'[cookie'[h]] = "live" /\ IsRoot(cookie[h])'
      BY <1>1, <1>4 DEF OneOwner, IsRoot
    <2>2. \A l \in Lists : life'[l] = "live" /\ IsRoot(l)' =>
            \E h \in Handles : kind'[h] = "own" /\ cookie'[h] = l
      <3> SUFFICES ASSUME NEW l \in Lists, life'[l] = "live", IsRoot(l)'
                   PROVE  \E h \in Handles : kind[h] = "own" /\ cookie'[h] = l
        OBVIOUS
      <3>1. l \notin Below(c) /\ life[l] = "live" /\ IsRoot(l)
        BY <1>1 DEF IsRoot
      <3>2. PICK h \in Handles : kind[h] = "own" /\ cookie[h] = l
        BY <3>1 DEF OneOwner
      <3>3. l # c
        BY <3>1 DEF Forest, Below
      <3> QED BY <1>3, <3>2, <3>3
    <2>3. \A h, k \in Handles :
            kind'[h] = "own" /\ kind'[k] = "own" /\ cookie'[h] = cookie'[k] /\ cookie'[h] # Nil
              => h = k
      BY <1>4 DEF OneOwner
    <2> QED BY <2>1, <2>2, <2>3 DEF OneOwner
  <1>6. PICK up \in [Handles -> SUBSET Handles] : Chain(up) /\ Anchored(up)
    BY DEF Kept
  <1>7. \A b \in Handles : Usable(b)' =>
           /\ Usable(b) /\ cookie'[b] = cookie[b]
           /\ cookie[b] \in Lists \ Below(c)
    <2> SUFFICES ASSUME NEW b \in Handles, Usable(b)'
                 PROVE  Usable(b) /\ cookie'[b] = cookie[b] /\ cookie[b] \in Lists \ Below(c)
      OBVIOUS
    <2>1. Usable(b) /\ b \notin Borrowers(Below(c))
      BY DEF Usable, Retire, NvTypeOK
    <2>2. cookie'[b] = cookie[b]
      BY <2>1 DEF Usable, NvTypeOK
    <2> QED BY <2>1, <2>2, UsableLive DEF Borrowers, Usable
  <1>8. \A b \in Handles : Usable(b)' =>
           \A o \in Handles : kind[o] = "own" /\ cookie[o] \in anc[cookie[b]] => cookie'[o] = cookie[o]
    BY <1>3, <1>7 DEF Below
  <1>9. Chain(up)' /\ Anchored(up)'
    BY <1>1, <1>6, <1>7, <1>8, AnchorsStay
  <1>10. PairsInside'
    BY <1>1, <1>7 DEF PairsInside, Usable, IsRoot
  <1> QED BY <1>1, <1>2, <1>5, <1>6, <1>9, <1>10 DEF Kept

LEMMA ConsumeStep ==
  ASSUME NvInv, NEW h \in Handles, Consume(h)
  PROVE  NvInv'
  <1>1. kind[h] = "own" /\ cookie[h] # Nil
    BY DEF Consume, Own, Sound
  <1>2. cookie[h] \in Lists /\ life[cookie[h]] = "live"
    BY <1>1, OwnerRoot DEF NvInv
  <1>3. bad' \in [Lists -> BOOLEAN]
    BY DEF NvInv, NvTypeOK, Consume
  <1> QED BY <1>1, <1>2, <1>3, DestroyStep DEF Consume

LEMMA MoveFailsStep ==
  ASSUME NvInv, NEW h \in Handles, NEW v \in Handles, MoveFails(h, v)
  PROVE  NvInv'
  <1>1. kind[v] = "own" /\ cookie[v] # Nil
    BY DEF MoveFails, Own, Sound
  <1>2. cookie[v] \in Lists /\ life[cookie[v]] = "live"
    BY <1>1, OwnerRoot DEF NvInv
  <1>3. bad' \in [Lists -> BOOLEAN]
    BY DEF NvInv, NvTypeOK, MoveFails
  <1> QED BY <1>1, <1>2, <1>3, DestroyStep DEF MoveFails

(* A child is live and no root.                                            *)
LEMMA ChildInside ==
  ASSUME NvTypeOK, Forest, NEW p \in Lists, NEW c \in Lists, Parent(p, c)
  PROVE  life[c] = "live" /\ ~IsRoot(c) /\ c \in anc[c]
  BY DEF NvTypeOK, Forest, Parent, IsRoot

LEMMA FreeStep ==
  ASSUME NvInv, NEW h \in Handles, NEW c \in Lists, Free(h, c)
  PROVE  NvInv'
  <1>1. cookie[h] \in Lists /\ Parent(cookie[h], c)
    BY OwnerRoot DEF Free, NvInv
  <1>2. life[c] = "live" /\ ~IsRoot(c)
    BY <1>1, ChildInside DEF NvInv
  <1>3. bad' \in [Lists -> BOOLEAN]
    BY DEF NvInv, NvTypeOK, Free
  <1> QED BY <1>2, <1>3, DestroyStep DEF Free

LEMMA PairFreeStep ==
  ASSUME NvInv, NEW i \in Handles, PairFree(i)
  PROVE  NvInv'
  <1>1. Usable(i) /\ kind[i] = "pair"
    BY DEF Usable, PairFree
  <1>2. cookie[i] \in Lists /\ life[cookie[i]] = "live" /\ ~IsRoot(cookie[i])
    BY <1>1, UsableLive DEF NvInv, PairsInside, Usable
  <1>3. bad' \in [Lists -> BOOLEAN]
    BY DEF NvInv, NvTypeOK, PairFree
  <1> QED BY <1>2, <1>3, DestroyStep DEF PairFree
-----------------------------------------------------------------------------
(* A userdata k becomes the owner of the root of a tree of fresh lists T.  *)
LEMMA NewTreeStep ==
  ASSUME NvInv, NEW k \in Handles, NEW T \in SUBSET Lists, NEW r \in T, NewOwn(k, r),
         NvTypeOK', Forest', stale' = stale, T \subseteq Fresh,
         \A l \in Lists \ T : life'[l] = life[l] /\ anc'[l] = anc[l],
         \A l \in T : life'[l] = "live" /\ (anc'[l] = {l} <=> l = r)
  PROVE  NvInv'
  <1> USE DEF NvInv
  <1>1. /\ kind'[k] = "own" /\ cookie'[k] = r
        /\ \A h \in Handles : h # k => kind'[h] = kind[h] /\ cookie'[h] = cookie[h]
    BY DEF NewOwn, NvTypeOK
  <1>2. \A h \in Handles : kind[h] = "own" /\ cookie[h] # Nil => cookie[h] \in Lists \ T
    BY OwnerRoot DEF Fresh
  <1>3. r # Nil
    BY NvAssumption
  <1>4. OneOwner'
    <2>1. \A h \in Handles : kind'[h] = "own" /\ cookie'[h] # Nil =>
            life'[cookie'[h]] = "live" /\ anc'[cookie'[h]] = {cookie'[h]}
      BY <1>1, <1>2 DEF OneOwner, IsRoot
    <2>2. \A l \in Lists : life'[l] = "live" /\ anc'[l] = {l} =>
            \E h \in Handles : kind'[h] = "own" /\ cookie'[h] = l
      <3> SUFFICES ASSUME NEW l \in Lists, life'[l] = "live", anc'[l] = {l}
                   PROVE  \E h \in Handles : kind'[h] = "own" /\ cookie'[h] = l
        OBVIOUS
      <3>1. CASE l \in T
        BY <1>1, <3>1
      <3>2. CASE l \notin T
        <4>1. PICK h \in Handles : kind[h] = "own" /\ cookie[h] = l
          BY <3>2 DEF OneOwner, IsRoot
        <4> QED BY <1>1, <4>1 DEF NewOwn, Exists
      <3> QED BY <3>1, <3>2
    <2>3. \A h, j \in Handles :
            kind'[h] = "own" /\ kind'[j] = "own" /\ cookie'[h] = cookie'[j] /\ cookie'[h] # Nil
              => h = j
      BY <1>1, <1>2 DEF OneOwner
    <2> QED BY <2>1, <2>2, <2>3 DEF OneOwner, IsRoot
  <1>5. \A b \in Handles : Usable(b)' =>
           Usable(b) /\ cookie'[b] = cookie[b] /\ cookie[b] \in Lists \ T
    <2> SUFFICES ASSUME NEW b \in Handles, Usable(b)'
                 PROVE  Usable(b) /\ cookie'[b] = cookie[b] /\ cookie[b] \in Lists \ T
      OBVIOUS
    <2>1. b # k /\ Usable(b)
      BY <1>1 DEF Usable
    <2> QED BY <1>1, <2>1, UsableLive DEF Fresh
  <1>6. \A o \in Handles : kind[o] = "own" => cookie'[o] = cookie[o]
    BY <1>1 DEF NewOwn, Exists
  <1>7. Kept'
    <2>1. PICK up \in [Handles -> SUBSET Handles] : Chain(up) /\ Anchored(up)
      BY DEF Kept
    <2>2. \A b \in Handles : Usable(b)' => anc'[cookie[b]] = anc[cookie[b]]
      BY <1>5
    <2> QED BY <1>5, <1>6, <2>1, <2>2, AnchorsOwn DEF NewOwn
  <1>8. PairsInside'
    BY <1>1, <1>5 DEF PairsInside, Usable, IsRoot
  <1> QED BY <1>4, <1>7, <1>8

LEMMA MakeStep ==
  ASSUME NvInv, NEW k \in Handles, NEW r \in Lists, NEW C \in SUBSET Lists, Make(k, r, C)
  PROVE  NvInv'
  <1>1. Grow(r, C) /\ NewOwn(k, r) /\ bad' = bad /\ stale' = stale
    BY DEF Make
  <1>2. NvTypeOK'
    BY <1>1 DEF NvInv, NvTypeOK, Grow, NewOwn
  <1>3. Forest'
    BY <1>1, ForestGrow DEF NvInv
  <1>4. /\ {r} \cup C \subseteq Fresh
        /\ \A l \in Lists \ ({r} \cup C) : life'[l] = life[l] /\ anc'[l] = anc[l]
        /\ \A l \in {r} \cup C : life'[l] = "live" /\ (anc'[l] = {l} <=> l = r)
    BY <1>1 DEF Grow
  <1> QED BY <1>1, <1>2, <1>3, <1>4, NewTreeStep

LEMMA CloneStep ==
  ASSUME NvInv, NEW h \in Handles, NEW k \in Handles, Clone(h, k)
  PROVE  NvInv'
  <1> DEFINE l == cookie[h]
  <1>1. PICK f \in Injection(Below(l), Fresh) : Copy(l, f, {}) /\ NewOwn(k, f[l])
    BY DEF Clone
  <1>2. l \in Lists /\ l \in Below(l) /\ l \in anc[l]
    <2>1. CASE Own(h)
      BY <2>1, OwnerRoot DEF NvInv, Own, Sound, IsRoot, Below
    <2>2. CASE Const(h)
      BY <2>2, UsableLive DEF NvInv, Const, Sound, Usable
    <2> QED BY <2>1, <2>2 DEF Clone
  <1> HIDE DEF l
  <1>3. /\ \A x \in Below(l) :
             /\ f[x] \in Lists /\ life[f[x]] = "none" /\ life'[f[x]] = "live"
             /\ anc'[f[x]] = {f[y] : y \in Below(l) \cap anc[x]}
        /\ \A m \in Lists :
             (\A x \in Below(l) : m # f[x]) => life'[m] = life[m] /\ anc'[m] = anc[m]
        /\ life' \in [Lists -> {"none", "live", "freed"}] /\ anc' \in [Lists -> SUBSET Lists]
    BY <1>1, <1>2, CopyShape DEF NvInv
  <1>4. NvTypeOK'
    BY <1>1, <1>2, <1>3 DEF NvInv, NvTypeOK, Clone, NewOwn
  <1>5. Forest'
    BY <1>1, <1>2, ForestCopy DEF NvInv
  <1> DEFINE T == {f[x] : x \in Below(l)}
  <1>6. T \in SUBSET Lists /\ T \subseteq Fresh /\ f[l] \in T
    BY <1>2, <1>3 DEF Fresh
  <1>7. \A m \in Lists \ T : life'[m] = life[m] /\ anc'[m] = anc[m]
    BY <1>3
  <1>8. \A x, y \in Below(l) : f[x] = f[y] => x = y
    BY <1>1 DEF Injection, IsInjective
  <1>9. ASSUME NEW x \in Below(l) PROVE life'[f[x]] = "live" /\ (anc'[f[x]] = {f[x]} <=> f[x] = f[l])
    <2>1. anc'[f[x]] = {f[y] : y \in Below(l) \cap anc[x]} /\ life'[f[x]] = "live"
      BY <1>3
    <2>2. x \in Lists /\ l \in anc[x] /\ l \in Below(l)
      BY <1>2 DEF Below
    <2>3. f[l] \in anc'[f[x]]
      BY <2>1, <2>2
    <2>4. ASSUME x = l PROVE anc'[f[x]] = {f[x]}
      <3>1. \A y \in Below(l) : y \in anc[l] => y = l
        BY <1>2 DEF NvInv, Forest, Below
      <3> QED BY <2>1, <2>2, <2>4, <3>1
    <2> QED BY <1>8, <2>1, <2>2, <2>3, <2>4
  <1>10. \A m \in T : life'[m] = "live" /\ (anc'[m] = {m} <=> m = f[l])
    BY <1>9
  <1>11. stale' = stale
    BY DEF Clone
  <1> HIDE DEF T
  <1> QED BY <1>1, <1>4, <1>5, <1>6, <1>7, <1>10, <1>11, NewTreeStep

(* A userdata with no list.                                                *)
LEMMA MakeNullStep ==
  ASSUME NvInv, NEW k \in Handles, MakeNull(k)
  PROVE  NvInv'
  <1> USE DEF NvInv
  <1>1. /\ kind'[k] = "own" /\ cookie'[k] = Nil /\ ~Exists(k)
        /\ \A h \in Handles : h # k => kind'[h] = kind[h] /\ cookie'[h] = cookie[h]
        /\ anc' = anc /\ life' = life /\ stale' = stale
    BY DEF MakeNull, NewOwn, NvTypeOK
  <1>2. NvTypeOK'
    BY DEF NvTypeOK, MakeNull, NewOwn
  <1>3. Forest'
    BY <1>1 DEF Forest
  <1>4. OneOwner'
    BY <1>1, NvAssumption DEF OneOwner, IsRoot, Exists
  <1>5. \A b \in Handles : Usable(b)' => Usable(b) /\ b # k /\ cookie'[b] = cookie[b]
    BY <1>1 DEF Usable
  <1>6. PairsInside'
    BY <1>1, <1>5 DEF PairsInside, Usable, IsRoot
  <1>7. Kept'
    <2>1. PICK up \in [Handles -> SUBSET Handles] : Chain(up) /\ Anchored(up)
      BY DEF Kept
    <2>2. \A o \in Handles : kind[o] = "own" => cookie'[o] = cookie[o]
      BY <1>1 DEF Exists
    <2> QED BY <1>1, <1>5, <2>1, <2>2, AnchorsOwn DEF MakeNull, NewOwn
  <1> QED BY <1>2, <1>3, <1>4, <1>6, <1>7
-----------------------------------------------------------------------------
(* A child leaves its parent for a userdata of its own.                    *)
LEMMA DetachStep ==
  ASSUME NvInv, NEW k \in Handles, NEW c \in Lists, life[c] = "live", ~IsRoot(c),
         Detach(c), NewOwn(k, c), Retire(Below(c)), life' = life, bad' = bad
  PROVE  NvInv'
  <1> USE DEF NvInv
  <1>1. /\ kind'[k] = "own" /\ cookie'[k] = c /\ ~Exists(k)
        /\ \A h \in Handles : h # k => kind'[h] = kind[h] /\ cookie'[h] = cookie[h]
    BY DEF NewOwn, NvTypeOK
  <1>2. /\ Forest'
        /\ anc'[c] = {c}
        /\ \A l \in Lists \ Below(c) : anc'[l] = anc[l]
        /\ \A l \in Below(c) : l # c => anc'[l] # {l}
    BY ForestDetach DEF IsRoot
  <1>3. NvTypeOK'
    BY DEF NvTypeOK, Detach, NewOwn, Retire
  <1>4. \A h \in Handles : kind[h] = "own" /\ cookie[h] # Nil =>
          cookie[h] \in Lists \ Below(c) /\ cookie[h] # c
    <2> SUFFICES ASSUME NEW h \in Handles, kind[h] = "own", cookie[h] # Nil
                 PROVE  cookie[h] \in Lists \ Below(c) /\ cookie[h] # c
      OBVIOUS
    <2>1. cookie[h] \in Lists /\ IsRoot(cookie[h])
      BY OwnerRoot
    <2> QED BY <2>1 DEF IsRoot, Below
  <1>5. OneOwner'
    <2>1. \A h \in Handles : kind'[h] = "own" /\ cookie'[h] # Nil =>
            life'[cookie'[h]] = "live" /\ anc'[cookie'[h]] = {cookie'[h]}
      BY <1>1, <1>2, <1>4 DEF OneOwner, IsRoot
    <2>2. \A l \in Lists : life'[l] = "live" /\ anc'[l] = {l} =>
            \E h \in Handles : kind'[h] = "own" /\ cookie'[h] = l
      <3> SUFFICES ASSUME NEW l \in Lists, life'[l] = "live", anc'[l] = {l}
                   PROVE  \E h \in Handles : kind'[h] = "own" /\ cookie'[h] = l
        OBVIOUS
      <3>1. CASE l \in Below(c)
        BY <1>1, <1>2, <3>1
      <3>2. CASE l \notin Below(c)
        <4>1. PICK h \in Handles : kind[h] = "own" /\ cookie[h] = l
          BY <1>2, <3>2 DEF OneOwner, IsRoot
        <4> QED BY <1>1, <4>1 DEF Exists
      <3> QED BY <3>1, <3>2
    <2>3. \A h, j \in Handles :
            kind'[h] = "own" /\ kind'[j] = "own" /\ cookie'[h] = cookie'[j] /\ cookie'[h] # Nil
              => h = j
      BY <1>1, <1>4 DEF OneOwner
    <2> QED BY <2>1, <2>2, <2>3 DEF OneOwner, IsRoot
  <1>6. \A b \in Handles : Usable(b)' =>
           Usable(b) /\ cookie'[b] = cookie[b] /\ cookie[b] \in Lists \ Below(c)
    <2> SUFFICES ASSUME NEW b \in Handles, Usable(b)'
                 PROVE  Usable(b) /\ cookie'[b] = cookie[b] /\ cookie[b] \in Lists \ Below(c)
      OBVIOUS
    <2>1. b # k /\ Usable(b) /\ b \notin Borrowers(Below(c))
      BY <1>1 DEF Usable, Retire, NvTypeOK
    <2> QED BY <1>1, <2>1, UsableLive DEF Borrowers, Usable
  <1>7. PairsInside'
    BY <1>1, <1>2, <1>6 DEF PairsInside, Usable, IsRoot
  <1>8. Kept'
    <2>1. PICK up \in [Handles -> SUBSET Handles] : Chain(up) /\ Anchored(up)
      BY DEF Kept
    <2>2. \A o \in Handles : kind[o] = "own" => cookie'[o] = cookie[o]
      BY <1>1 DEF Exists
    <2>3. \A b \in Handles : Usable(b)' => anc'[cookie[b]] = anc[cookie[b]]
      BY <1>2, <1>6
    <2> QED BY <1>1, <1>6, <2>1, <2>2, <2>3, AnchorsOwn DEF NewOwn
  <1> QED BY <1>2, <1>3, <1>5, <1>7, <1>8

LEMMA TakeStep ==
  ASSUME NvInv, NEW h \in Handles, NEW k \in Handles, NEW c \in Lists, Take(h, k, c)
  PROVE  NvInv'
  <1>1. cookie[h] \in Lists /\ Parent(cookie[h], c)
    BY OwnerRoot DEF Take, Own, Sound, NvInv
  <1>2. life[c] = "live" /\ ~IsRoot(c)
    BY <1>1, ChildInside DEF NvInv
  <1> QED BY <1>2, DetachStep DEF Take

LEMMA PairTakeStep ==
  ASSUME NvInv, NEW i \in Handles, NEW k \in Handles, PairTake(i, k)
  PROVE  NvInv'
  <1>1. Usable(i) /\ kind[i] = "pair"
    BY DEF Usable, PairTake
  <1>2. cookie[i] \in Lists /\ life[cookie[i]] = "live" /\ ~IsRoot(cookie[i])
    BY <1>1, UsableLive DEF NvInv, PairsInside, Usable
  <1> QED BY <1>2, DetachStep DEF PairTake

(* A root goes under another one; its userdata is left with no list.       *)
LEMMA MoveStep ==
  ASSUME NvInv, NEW h \in Handles, NEW v \in Handles, Move(h, v)
  PROVE  NvInv'
  <1> USE DEF NvInv
  <1> DEFINE r == cookie[h]
             s == cookie[v]
  <1>1. /\ kind[h] = "own" /\ r # Nil /\ kind[v] = "own" /\ s # Nil /\ h # v
        /\ anc' = [m \in Lists |-> IF m \in Below(s) THEN anc[m] \cup anc[r] ELSE anc[m]]
        /\ cookie' = [cookie EXCEPT ![v] = Nil] /\ Retire(Below(s))
        /\ life' = life /\ bad' = bad /\ kind' = kind /\ ref' = ref /\ dflt' = dflt
    BY DEF Move, Own, Sound
  <1>2. r \in Lists /\ s \in Lists /\ r # s /\ anc[r] = {r} /\ anc[s] = {s}
    BY <1>1, OwnerRoot DEF OneOwner, IsRoot
  <1> HIDE DEF r, s
  <1>3. Forest'
    BY <1>1, <1>2, ForestMove DEF IsRoot
  <1>4. NvTypeOK'
    BY <1>1, <1>2 DEF NvTypeOK, Retire
  <1>5. /\ cookie'[v] = Nil /\ cookie[v] = s
        /\ \A j \in Handles : j # v => cookie'[j] = cookie[j]
    BY <1>1 DEF NvTypeOK, s
  <1>6. /\ \A m \in Lists \ Below(s) : anc'[m] = anc[m]
        /\ \A m \in Below(s) : anc'[m] # {m}
        /\ \A m \in Below(s) : IsRoot(m) => m = s
    <2>1. \A m \in Below(s) : anc'[m] = anc[m] \cup {r} /\ m \in Lists /\ s \in anc[m]
      BY <1>1, <1>2 DEF Below
    <2> QED BY <1>1, <1>2, <2>1 DEF IsRoot
  <1>7. \A j \in Handles : kind[j] = "own" /\ cookie'[j] # Nil =>
          j # v /\ cookie'[j] = cookie[j] /\ cookie[j] \in Lists \ Below(s)
    <2> SUFFICES ASSUME NEW j \in Handles, kind[j] = "own", cookie'[j] # Nil
                 PROVE  j # v /\ cookie'[j] = cookie[j] /\ cookie[j] \in Lists \ Below(s)
      OBVIOUS
    <2>1. j # v /\ cookie'[j] = cookie[j]
      BY <1>5
    <2>2. cookie[j] \in Lists /\ IsRoot(cookie[j]) /\ cookie[j] # s
      BY <1>1, <1>5, <2>1, OwnerRoot DEF OneOwner
    <2> QED BY <1>6, <2>1, <2>2
  <1>8. OneOwner'
    <2>1. \A j \in Handles : kind'[j] = "own" /\ cookie'[j] # Nil =>
            life'[cookie'[j]] = "live" /\ anc'[cookie'[j]] = {cookie'[j]}
      BY <1>1, <1>6, <1>7 DEF OneOwner, IsRoot
    <2>2. \A l \in Lists : life'[l] = "live" /\ anc'[l] = {l} =>
            \E j \in Handles : kind'[j] = "own" /\ cookie'[j] = l
      <3> SUFFICES ASSUME NEW l \in Lists, life'[l] = "live", anc'[l] = {l}
                   PROVE  \E j \in Handles : kind'[j] = "own" /\ cookie'[j] = l
        OBVIOUS
      <3>1. l \notin Below(s) /\ life[l] = "live" /\ IsRoot(l)
        BY <1>1, <1>6 DEF IsRoot
      <3>2. l # s
        BY <1>2, <3>1 DEF Below
      <3>3. PICK j \in Handles : kind[j] = "own" /\ cookie[j] = l
        BY <3>1 DEF OneOwner
      <3> QED BY <1>1, <1>5, <3>2, <3>3
    <2>3. \A i, j \in Handles :
            kind'[i] = "own" /\ kind'[j] = "own" /\ cookie'[i] = cookie'[j] /\ cookie'[i] # Nil
              => i = j
      BY <1>1, <1>7 DEF OneOwner
    <2> QED BY <2>1, <2>2, <2>3 DEF OneOwner, IsRoot
  <1>9. \A b \in Handles : Usable(b)' =>
           Usable(b) /\ cookie'[b] = cookie[b] /\ cookie[b] \in Lists \ Below(s)
    <2> SUFFICES ASSUME NEW b \in Handles, Usable(b)'
                 PROVE  Usable(b) /\ cookie'[b] = cookie[b] /\ cookie[b] \in Lists \ Below(s)
      OBVIOUS
    <2>1. b # v /\ Usable(b) /\ b \notin Borrowers(Below(s))
      BY <1>1 DEF Usable, Retire, NvTypeOK
    <2> QED BY <1>5, <2>1, UsableLive DEF Borrowers, Usable
  <1>10. PairsInside'
    BY <1>1, <1>6, <1>9 DEF PairsInside, Usable, IsRoot
  <1>11. Kept'
    <2>1. PICK up \in [Handles -> SUBSET Handles] : Chain(up) /\ Anchored(up)
      BY DEF Kept
    <2>2. \A b \in Handles : Usable(b)' =>
             /\ anc'[cookie[b]] = anc[cookie[b]]
             /\ \A o \in Handles : kind[o] = "own" /\ cookie[o] \in anc[cookie[b]] => cookie'[o] = cookie[o]
      BY <1>5, <1>6, <1>9 DEF Below
    <2>3. Chain(up)' /\ Anchored(up)'
      BY <1>1, <1>9, <2>1, <2>2, AnchorsStay
    <2> QED BY <2>1, <2>3 DEF Kept
  <1> QED BY <1>3, <1>4, <1>8, <1>10, <1>11

(* A copy goes into a list.                                                *)
LEMMA AddStep ==
  ASSUME NvInv, NEW h \in Handles, NEW v \in Handles, Add(h, v)
  PROVE  NvInv'
  <1> USE DEF NvInv
  <1> DEFINE r == cookie[h]
             l == cookie[v]
  <1>1. PICK f \in Injection(Below(l), Fresh) : Copy(l, f, anc[r])
    BY DEF Add
  <1>2. UNCHANGED <<bad, kind, cookie, ref, stale, dflt>>
    BY DEF Add
  <1>3. r \in Lists /\ IsRoot(r) /\ life[r] = "live" /\ anc[r] = {r}
    BY OwnerRoot DEF Add, Own, Sound, IsRoot
  <1>4. l \in Lists
    BY UsableLive DEF Add, AnyNvlist, Const, Sound, Usable
  <1> HIDE DEF r, l
  <1>5. /\ \A x \in Below(l) :
             /\ f[x] \in Lists /\ life[f[x]] = "none" /\ life'[f[x]] = "live"
             /\ anc'[f[x]] = {f[y] : y \in Below(l) \cap anc[x]} \cup {r}
        /\ \A m \in Lists :
             (\A x \in Below(l) : m # f[x]) => life'[m] = life[m] /\ anc'[m] = anc[m]
        /\ life' \in [Lists -> {"none", "live", "freed"}] /\ anc' \in [Lists -> SUBSET Lists]
    BY <1>1, <1>3, <1>4, CopyShape
  <1>6. NvTypeOK'
    BY <1>2, <1>5 DEF NvTypeOK
  <1>7. Forest'
    BY <1>1, <1>3, <1>4, ForestCopy
  <1>8. \A m \in Lists : life[m] # "none" => life'[m] = life[m] /\ anc'[m] = anc[m]
    BY <1>5
  <1>9. \A m \in Lists : life[m] = "none" /\ life'[m] = "live" => anc'[m] # {m}
    <2> SUFFICES ASSUME NEW m \in Lists, life[m] = "none", life'[m] = "live" PROVE anc'[m] # {m}
      OBVIOUS
    <2>1. PICK x \in Below(l) : m = f[x]
      BY <1>5
    <2> QED BY <1>3, <1>5, <2>1
  <1>10. OneOwner'
    <2>1. \A j \in Handles : kind[j] = "own" /\ cookie[j] # Nil =>
            life'[cookie[j]] = "live" /\ anc'[cookie[j]] = {cookie[j]}
      BY <1>8, OwnerRoot DEF IsRoot
    <2>2. \A m \in Lists : life'[m] = "live" /\ anc'[m] = {m} => life[m] = "live" /\ IsRoot(m)
      BY <1>8, <1>9 DEF IsRoot, NvTypeOK
    <2> QED BY <1>2, <2>1, <2>2 DEF OneOwner, IsRoot
  <1>11. \A b \in Handles : Usable(b)' => Usable(b) /\ cookie[b] \in Lists /\ anc'[cookie[b]] = anc[cookie[b]]
    BY <1>2, <1>8, UsableLive DEF Usable
  <1>12. PairsInside'
    BY <1>2, <1>11 DEF PairsInside, Usable, IsRoot
  <1>13. Kept'
    <2>1. PICK up \in [Handles -> SUBSET Handles] : Chain(up) /\ Anchored(up)
      BY DEF Kept
    <2>2. Chain(up)' /\ Anchored(up)'
      BY <1>2, <1>11, <2>1, AnchorsStay
    <2> QED BY <2>1, <2>2 DEF Kept
  <1> QED BY <1>6, <1>7, <1>10, <1>12, <1>13
-----------------------------------------------------------------------------
(* A list is sent and destroyed, and the answer is a new tree.             *)
LEMMA XferStep ==
  ASSUME NvInv, NEW h \in Handles, NEW k \in Handles, NEW r \in Lists,
         NEW C \in SUBSET Lists, Xfer(h, k, r, C)
  PROVE  NvInv'
  <1> USE DEF NvInv
  <1> DEFINE c == cookie[h]
             T == {r} \cup C
  <1>1. /\ kind[h] = "own" /\ c # Nil /\ ~Exists(k) /\ h # k
        /\ T \subseteq Fresh /\ r \notin C /\ r \in T
        /\ Retire(Below(c)) /\ ref' = ref /\ dflt' = dflt
        /\ kind' = [kind EXCEPT ![k] = "own"]
    BY DEF Xfer, Own, Sound, Exists
  <1>2. c \in Lists /\ life[c] = "live" /\ anc[c] = {c}
    BY <1>1, OwnerRoot DEF IsRoot
  <1>3. \A l \in T : l \in Lists /\ life[l] = "none" /\ anc[l] = {} /\ l \notin Below(c)
    BY <1>1 DEF Fresh, Below, Forest
  <1>4. /\ \A l \in Below(c) : life'[l] = "freed" /\ anc'[l] = {}
        /\ \A l \in C : life'[l] = "live" /\ anc'[l] = {r, l}
        /\ life'[r] = "live" /\ anc'[r] = {r}
        /\ \A l \in Lists \ (T \cup Below(c)) : life'[l] = life[l] /\ anc'[l] = anc[l]
    BY <1>1, <1>3 DEF Xfer, Below
  <1>5. NvTypeOK'
    BY <1>2 DEF NvTypeOK, Xfer, Retire
  <1>6. /\ kind'[k] = "own" /\ cookie'[k] = r /\ cookie'[h] = Nil /\ kind'[h] = "own"
        /\ \A j \in Handles : j # k => kind'[j] = kind[j]
        /\ \A j \in Handles : j # k /\ j # h => cookie'[j] = cookie[j]
    BY <1>1 DEF Xfer, NvTypeOK
  <1>7. cookie[h] = c /\ Below(c) \subseteq Lists
    BY DEF Below
  <1>8. \A l \in Lists \ Below(c), m \in Lists : m \in anc[l] => m \notin Below(c) /\ m \notin T
    BY <1>3 DEF Forest, Below
  <1> HIDE DEF c, T
  <1>9. Forest'
    <2> DEFINE Old == Lists \ (T \cup Below(c))
    <2>1. \A l \in Lists : l \in Old \/ l \in Below(c) \/ l = r \/ l \in C
      BY DEF T
    <2>2. \A l \in Old : anc[l] \subseteq Old
      BY <1>8 DEF NvTypeOK
    <2> HIDE DEF Old
    <2>3. \A l \in Old : life'[l] = life[l] /\ anc'[l] = anc[l] /\ l \in Lists /\ l \notin T
      BY <1>4 DEF Old
    <2>a. \A l \in Lists : life'[l] = "live" <=> l \in anc'[l]
      BY <1>4, <2>1, <2>3 DEF Forest
    <2>b. \A l \in Lists : anc'[l] # {} => l \in anc'[l]
      BY <1>4, <2>1, <2>3 DEF Forest
    <2>c. \A l \in Lists : \A m \in anc'[l] : m \in anc'[m] /\ anc'[m] \subseteq anc'[l]
      <3>1. \A l \in Old : \A m \in anc[l] : m \in anc[m] /\ anc[m] \subseteq anc[l]
        BY <2>3 DEF Forest
      <3>2. \A l \in Old : \A m \in anc'[l] : m \in anc'[m] /\ anc'[m] \subseteq anc'[l]
        BY <2>2, <2>3, <3>1
      <3> QED BY <1>4, <2>1, <3>2
    <2>d. \A l \in Lists : \A m, n \in anc'[l] : m \in anc'[n] \/ n \in anc'[m]
      <3>1. \A l \in Old : \A m, n \in anc[l] : m \in anc[n] \/ n \in anc[m]
        BY <2>3 DEF Forest
      <3>2. \A l \in Old : \A m, n \in anc'[l] : m \in anc'[n] \/ n \in anc'[m]
        BY <2>2, <2>3, <3>1
      <3> QED BY <1>4, <2>1, <3>2
    <2>e. \A l, m \in Lists : l \in anc'[m] /\ m \in anc'[l] => l = m
      <3>1. \A l \in Old, m \in Lists : m \in anc'[l] => m \in Old
        BY <2>2, <2>3
      <3>2. \A l, m \in Old : l \in anc[m] /\ m \in anc[l] => l = m
        BY <2>3 DEF Forest
      <3>3. r \notin Old /\ \A l \in C : l \notin Old
        BY <2>3 DEF T
      <3> QED BY <1>4, <2>1, <2>3, <3>1, <3>2, <3>3
    <2> QED BY <2>a, <2>b, <2>c, <2>d, <2>e DEF Forest
  <1>10. \A j \in Handles : kind[j] = "own" /\ cookie[j] # Nil =>
           cookie[j] \in Lists \ T /\ (j # h => cookie[j] \notin Below(c))
    <2> SUFFICES ASSUME NEW j \in Handles, kind[j] = "own", cookie[j] # Nil
                 PROVE  cookie[j] \in Lists \ T /\ (j # h => cookie[j] \notin Below(c))
      OBVIOUS
    <2>1. cookie[j] \in Lists /\ life[cookie[j]] = "live" /\ anc[cookie[j]] = {cookie[j]}
      BY OwnerRoot DEF IsRoot
    <2>2. j # h => cookie[j] # c
      BY <1>1, <1>7 DEF OneOwner
    <2> QED BY <1>3, <2>1, <2>2 DEF Below
  <1>11. OneOwner'
    <2>1. \A j \in Handles : kind'[j] = "own" /\ cookie'[j] # Nil =>
            j # h /\ (j = k \/ (kind[j] = "own" /\ cookie'[j] = cookie[j] /\ cookie[j] \in Lists \ (T \cup Below(c))))
      BY <1>6, <1>10
    <2>2. \A j \in Handles : kind'[j] = "own" /\ cookie'[j] # Nil =>
            life'[cookie'[j]] = "live" /\ anc'[cookie'[j]] = {cookie'[j]}
      BY <1>4, <1>6, <2>1 DEF OneOwner, IsRoot
    <2>3. \A l \in Lists : life'[l] = "live" /\ anc'[l] = {l} =>
            \E j \in Handles : kind'[j] = "own" /\ cookie'[j] = l
      <3> SUFFICES ASSUME NEW l \in Lists, life'[l] = "live", anc'[l] = {l}
                   PROVE  \E j \in Handles : kind'[j] = "own" /\ cookie'[j] = l
        OBVIOUS
      <3>1. CASE l = r
        BY <1>6, <3>1
      <3>2. CASE l # r
        <4>1. l \notin T \cup Below(c)
          BY <1>1, <1>4, <3>2 DEF T
        <4>2. PICK j \in Handles : kind[j] = "own" /\ cookie[j] = l
          BY <1>4, <4>1 DEF OneOwner, IsRoot
        <4>3. j # k /\ j # h
          BY <1>1, <1>2, <1>7, <4>1, <4>2 DEF Exists, Below
        <4> QED BY <1>6, <4>2, <4>3
      <3> QED BY <3>1, <3>2
    <2>4. \A i, j \in Handles :
            kind'[i] = "own" /\ kind'[j] = "own" /\ cookie'[i] = cookie'[j] /\ cookie'[i] # Nil
              => i = j
      BY <1>1, <1>6, <2>1 DEF OneOwner
    <2> QED BY <2>2, <2>3, <2>4 DEF OneOwner, IsRoot
  <1>12. \A b \in Handles : Usable(b)' =>
           Usable(b) /\ cookie'[b] = cookie[b] /\ cookie[b] \in Lists \ (T \cup Below(c))
    <2> SUFFICES ASSUME NEW b \in Handles, Usable(b)'
                 PROVE  Usable(b) /\ cookie'[b] = cookie[b] /\ cookie[b] \in Lists \ (T \cup Below(c))
      OBVIOUS
    <2>1. b # k /\ b # h /\ Usable(b) /\ b \notin Borrowers(Below(c))
      BY <1>1, <1>6 DEF Usable, Retire, NvTypeOK
    <2>2. cookie[b] \in Lists /\ life[cookie[b]] = "live"
      BY <2>1, UsableLive
    <2> QED BY <1>3, <1>6, <2>1, <2>2 DEF Borrowers, Usable
  <1>13. PairsInside'
    BY <1>4, <1>6, <1>12 DEF PairsInside, Usable, IsRoot
  <1>14. Kept'
    <2>1. PICK up \in [Handles -> SUBSET Handles] : Chain(up) /\ Anchored(up)
      BY DEF Kept
    <2>2. \A b \in Handles : Usable(b)' =>
             /\ anc'[cookie[b]] = anc[cookie[b]]
             /\ \A o \in Handles : kind[o] = "own" /\ cookie[o] \in anc[cookie[b]] => cookie'[o] = cookie[o]
      <3>1. \A o \in Handles : kind[o] = "own" => cookie'[o] = cookie[o] \/ cookie[o] = c
        BY <1>1, <1>6, <1>7 DEF Exists
      <3> QED BY <1>4, <1>12, <3>1 DEF Below
    <2> QED BY <1>1, <1>12, <2>1, <2>2, AnchorsOwn
  <1> QED BY <1>5, <1>9, <1>11, <1>13, <1>14
-----------------------------------------------------------------------------
(* Userdata K that borrow are added.                                       *)
LEMMA BorrowStep ==
  ASSUME NvInv, NEW K \in SUBSET Handles, NEW U \in [K -> SUBSET Handles],
         UNCHANGED <<life, anc, bad, stale>>, NvTypeOK',
         \A b \in Handles \ K :
           /\ kind'[b] = kind[b] /\ cookie'[b] = cookie[b]
           /\ ref'[b] = ref[b] /\ dflt'[b] = dflt[b],
         \A k \in K :
           /\ ~Exists(k) /\ kind'[k] \in {"const", "pair"} /\ cookie'[k] \in Lists
           /\ \A x \in U[k] :
                Exists(x) /\ \E y \in U[k] \cup {k} : ref'[y] = x \/ dflt'[y] = x
           /\ \E o \in U[k] : kind[o] = "own" /\ cookie[o] \in anc[cookie'[k]]
           /\ kind'[k] = "pair" => ~IsRoot(cookie'[k])
  PROVE  NvInv'
  <1> USE DEF NvInv
  <1>1. Forest'
    BY DEF Forest
  <1>2. OneOwner'
    <2>1. \A h \in Handles : (kind'[h] = "own" <=> kind[h] = "own") /\ (kind[h] = "own" => cookie'[h] = cookie[h])
      BY DEF Exists
    <2> QED BY <2>1 DEF OneOwner, IsRoot
  <1>3. PairsInside'
    BY DEF PairsInside, IsRoot
  <1>4. Kept'
    BY AnchorsBorrow
  <1> QED BY <1>1, <1>2, <1>3, <1>4

(* Every list in use has its owner among what is kept alive.               *)
LEMMA KeptOwner ==
  ASSUME NvInv, NEW up \in [Handles -> SUBSET Handles], Chain(up), Anchored(up),
         NEW h \in Handles, cookie[h] # Nil, kind[h] = "own" \/ Usable(h)
  PROVE  /\ h \in up[h] /\ cookie[h] \in Lists
         /\ \A x \in up[h] :
              Exists(x) /\ (x # h => \E y \in up[h] : ref[y] = x \/ dflt[y] = x)
         /\ \E o \in up[h] : /\ kind[o] = "own" /\ cookie[o] \in anc[cookie[h]]
                             /\ cookie[o] \in Lists /\ IsRoot(cookie[o])
  <1>1. Exists(h)
    BY DEF Exists, Usable
  <1>2. /\ h \in up[h]
        /\ \A x \in up[h] :
              Exists(x) /\ (x # h => \E y \in up[h] : ref[y] = x \/ dflt[y] = x)
    BY <1>1 DEF Chain
  <1>3. cookie[h] \in Lists
    BY DEF NvInv, NvTypeOK
  <1>4. PICK o \in up[h] : kind[o] = "own" /\ cookie[o] \in anc[cookie[h]]
    <2>1. CASE kind[h] = "own"
      BY <1>2, <2>1, OwnerRoot DEF NvInv, IsRoot
    <2>2. CASE Usable(h)
      BY <2>2 DEF Anchored, Usable
    <2> QED BY <2>1, <2>2
  <1>5. cookie[o] # Nil /\ o \in Handles
    BY <1>3, <1>4, NvAssumption DEF NvInv, NvTypeOK
  <1>6. cookie[o] \in Lists /\ IsRoot(cookie[o])
    BY <1>4, <1>5, OwnerRoot DEF NvInv
  <1> QED BY <1>2, <1>3, <1>4, <1>6

(* One const userdata is added that refers to h, which may be used, and    *)
(* borrows a list under the same root.                                     *)
LEMMA BorrowFrom ==
  ASSUME NvInv, NEW h \in Handles, cookie[h] # Nil, kind[h] = "own" \/ Usable(h),
         NEW k \in Handles, NEW l \in Lists, NEW r \in Handles \cup {Nil}, NewConst(k, r, l),
         UNCHANGED <<life, anc, bad, stale>>, anc[cookie[h]] \subseteq anc[l],
         dflt' \in [Handles -> Handles \cup {Nil}],
         \A b \in Handles : b # k => dflt'[b] = dflt[b],
         r = h \/ dflt'[k] = h
  PROVE  NvInv'
  <1>1. PICK up \in [Handles -> SUBSET Handles] : Chain(up) /\ Anchored(up)
    BY DEF NvInv, Kept
  <1>2. /\ h \in up[h] /\ cookie[h] \in Lists
        /\ \A x \in up[h] :
              Exists(x) /\ (x # h => \E y \in up[h] : ref[y] = x \/ dflt[y] = x)
        /\ \E o \in up[h] : kind[o] = "own" /\ cookie[o] \in anc[cookie[h]]
    BY <1>1, KeptOwner
  <1>3. /\ ~Exists(k) /\ kind'[k] = "const" /\ cookie'[k] = l /\ ref'[k] = r
        /\ \A b \in Handles : b # k => kind'[b] = kind[b] /\ cookie'[b] = cookie[b] /\ ref'[b] = ref[b]
    BY DEF NewConst, NvInv, NvTypeOK
  <1>4. NvTypeOK'
    BY DEF NvInv, NvTypeOK, NewConst
  <1> DEFINE U == [j \in {k} |-> up[h]]
  <1>5. U \in [{k} -> SUBSET Handles] /\ U[k] = up[h] /\ {k} \in SUBSET Handles
    OBVIOUS
  <1>6. \A x \in up[h] : Exists(x) /\ x # k /\ x \in Handles
    BY <1>2, <1>3
  <1>7. \A x \in up[h] : \E y \in up[h] \cup {k} : ref'[y] = x \/ dflt'[y] = x
    BY <1>2, <1>3, <1>6
  <1>8. \E o \in up[h] : kind[o] = "own" /\ cookie[o] \in anc[cookie'[k]]
    BY <1>2, <1>3
  <1> HIDE DEF U
  <1> QED BY <1>3, <1>4, <1>5, <1>6, <1>7, <1>8, BorrowStep

LEMMA GetStep ==
  ASSUME NvInv, NEW h \in Handles, NEW k \in Handles, NEW c \in Lists, Get(h, k, c)
  PROVE  NvInv'
  <1>1. cookie[h] # Nil /\ (kind[h] = "own" \/ Usable(h))
    BY DEF Get, Own, Const, Sound, Usable
  <1>2. anc[cookie[h]] \subseteq anc[c] /\ NewConst(k, h, c)
    BY DEF Get, Parent
  <1>3. dflt' \in [Handles -> Handles \cup {Nil}] /\ dflt' = dflt
    BY DEF Get, NvInv, NvTypeOK
  <1> QED BY <1>1, <1>2, <1>3, BorrowFrom DEF Get

LEMMA PairGetStep ==
  ASSUME NvInv, NEW i \in Handles, NEW k \in Handles, PairGet(i, k)
  PROVE  NvInv'
  <1>1. Usable(i)
    BY DEF PairGet, Usable
  <1>2. cookie[i] \in Lists /\ cookie[i] # Nil
    BY <1>1, UsableLive, NvAssumption DEF NvInv
  <1>3. dflt' \in [Handles -> Handles \cup {Nil}] /\ dflt' = dflt
    BY DEF PairGet, NvInv, NvTypeOK
  <1> QED BY <1>1, <1>2, <1>3, BorrowFrom DEF PairGet

(* REF keeps the list that was searched; the duty keeps the default.       *)
LEMMA GetDefaultStep ==
  ASSUME NvInv, NEW h \in Handles, NEW d \in Handles, NEW k \in Handles, GetDefault(h, d, k)
  PROVE  NvInv'
  <1>1. Usable(d) /\ cookie[d] # Nil
    BY DEF GetDefault, AnyNvlist, Const, Sound, Usable
  <1>2. cookie[d] \in Lists
    BY <1>1 DEF NvInv, NvTypeOK
  <1>3. /\ dflt' \in [Handles -> Handles \cup {Nil}] /\ dflt'[k] = d
        /\ \A b \in Handles : b # k => dflt'[b] = dflt[b]
    BY DEF GetDefault, NvInv, NvTypeOK
  <1> QED BY <1>1, <1>2, <1>3, BorrowFrom DEF GetDefault

(* A const userdata k takes the place of b in what is kept alive.          *)
LEMMA Sibling ==
  ASSUME NvInv, NEW b \in Handles, Const(b), NEW k \in Handles, ~Exists(k),
         NEW up \in [Handles -> SUBSET Handles], Chain(up), Anchored(up),
         NEW p \in Lists, Parent(p, cookie[b]), NEW l \in Lists, anc[p] \subseteq anc[l],
         ref'[k] = ref[b], dflt'[k] = dflt[b],
         \A x \in up[b] : ref'[x] = ref[x] /\ dflt'[x] = dflt[x]
  PROVE  /\ \A x \in up[b] \ {b} :
              Exists(x) /\ \E y \in (up[b] \ {b}) \cup {k} : ref'[y] = x \/ dflt'[y] = x
         /\ \E o \in up[b] \ {b} : kind[o] = "own" /\ cookie[o] \in anc[l]
  <1>1. cookie[b] # Nil /\ Usable(b) /\ kind[b] = "const"
    BY DEF Const, Sound, Usable
  <1>2. /\ b \in up[b] /\ cookie[b] \in Lists
        /\ \A x \in up[b] :
              Exists(x) /\ (x # b => \E y \in up[b] : ref[y] = x \/ dflt[y] = x)
        /\ \E o \in up[b] : /\ kind[o] = "own" /\ cookie[o] \in anc[cookie[b]]
                            /\ cookie[o] \in Lists /\ IsRoot(cookie[o])
    BY <1>1, KeptOwner
  <1>3. PICK o \in up[b] : /\ kind[o] = "own" /\ cookie[o] \in anc[cookie[b]]
                           /\ cookie[o] \in Lists /\ IsRoot(cookie[o])
    BY <1>2
  <1>4. cookie[o] # cookie[b]
    BY <1>2, <1>3, ChildInside DEF NvInv
  <1>5. cookie[o] \in anc[p]
    BY <1>3, <1>4 DEF Parent
  <1> QED BY <1>1, <1>2, <1>3, <1>5

LEMMA GetArrayNextStep ==
  ASSUME NvInv, NEW b \in Handles, NEW k \in Handles, NEW c \in Lists, GetArrayNext(b, k, c)
  PROVE  NvInv'
  <1>1. PICK up \in [Handles -> SUBSET Handles] : Chain(up) /\ Anchored(up)
    BY DEF NvInv, Kept
  <1>2. PICK p \in Lists : Parent(p, cookie[b]) /\ Parent(p, c)
    BY DEF GetArrayNext
  <1>3. /\ ~Exists(k) /\ kind'[k] = "const" /\ cookie'[k] = c /\ ref'[k] = ref[b] /\ dflt'[k] = dflt[b]
        /\ \A j \in Handles : j # k => /\ kind'[j] = kind[j] /\ cookie'[j] = cookie[j]
                                       /\ ref'[j] = ref[j] /\ dflt'[j] = dflt[j]
    BY DEF GetArrayNext, NewConst, NvInv, NvTypeOK
  <1>4. NvTypeOK'
    BY DEF NvInv, NvTypeOK, GetArrayNext, NewConst
  <1>5. Exists(b) /\ \A x \in up[b] : x \in Handles /\ x # k
    BY <1>1, <1>3 DEF Chain, Exists, GetArrayNext, Const
  <1>6. anc[p] \subseteq anc[c]
    BY <1>2 DEF Parent
  <1>7. /\ \A x \in up[b] \ {b} :
              Exists(x) /\ \E y \in (up[b] \ {b}) \cup {k} : ref'[y] = x \/ dflt'[y] = x
        /\ \E o \in up[b] \ {b} : kind[o] = "own" /\ cookie[o] \in anc[c]
    BY <1>1, <1>2, <1>3, <1>5, <1>6, Sibling DEF GetArrayNext
  <1> DEFINE U == [j \in {k} |-> up[b] \ {b}]
  <1>8. U \in [{k} -> SUBSET Handles] /\ U[k] = up[b] \ {b} /\ {k} \in SUBSET Handles
    OBVIOUS
  <1>9. UNCHANGED <<life, anc, bad, stale>>
    BY DEF GetArrayNext
  <1> HIDE DEF U
  <1> QED BY <1>3, <1>4, <1>7, <1>8, <1>9, BorrowStep

LEMMA GetParentStep ==
  ASSUME NvInv, NEW b \in Handles, NEW k \in Handles, NEW i \in Handles, NEW p \in Lists,
         GetParent(b, k, i, p)
  PROVE  NvInv'
  <1>1. PICK up \in [Handles -> SUBSET Handles] : Chain(up) /\ Anchored(up)
    BY DEF NvInv, Kept
  <1>2. cookie[b] # Nil /\ Usable(b) /\ kind[b] = "const" /\ Parent(p, cookie[b]) /\ k # i
    BY DEF GetParent, Const, Sound, Usable
  <1>3. /\ ~Exists(k) /\ kind'[k] = "const" /\ cookie'[k] = p /\ ref'[k] = ref[b] /\ dflt'[k] = dflt[b]
        /\ ~Exists(i) /\ kind'[i] = "pair" /\ cookie'[i] = cookie[b] /\ ref'[i] = b
        /\ \A j \in Handles \ {k, i} :
             /\ kind'[j] = kind[j] /\ cookie'[j] = cookie[j]
             /\ ref'[j] = ref[j] /\ dflt'[j] = dflt[j]
    BY DEF GetParent, NvInv, NvTypeOK
  <1>4. NvTypeOK'
    BY DEF NvInv, NvTypeOK, GetParent
  <1>5. /\ b \in up[b] /\ cookie[b] \in Lists
        /\ \A x \in up[b] :
              Exists(x) /\ (x # b => \E y \in up[b] : ref[y] = x \/ dflt[y] = x)
        /\ \E o \in up[b] : kind[o] = "own" /\ cookie[o] \in anc[cookie[b]]
    BY <1>1, <1>2, KeptOwner
  <1>6. \A x \in up[b] : x \in Handles \ {k, i}
    BY <1>3, <1>5
  <1>7. /\ \A x \in up[b] \ {b} :
              Exists(x) /\ \E y \in (up[b] \ {b}) \cup {k} : ref'[y] = x \/ dflt'[y] = x
        /\ \E o \in up[b] \ {b} : kind[o] = "own" /\ cookie[o] \in anc[p]
    <2>1. Const(b) /\ anc[p] \subseteq anc[p]
      BY DEF GetParent
    <2>2. \A x \in up[b] : ref'[x] = ref[x] /\ dflt'[x] = dflt[x]
      BY <1>3, <1>6
    <2> QED BY <1>1, <1>2, <1>3, <2>1, <2>2, Sibling
  <1>8. /\ \A x \in up[b] : Exists(x) /\ \E y \in up[b] \cup {i} : ref'[y] = x \/ dflt'[y] = x
        /\ \E o \in up[b] : kind[o] = "own" /\ cookie[o] \in anc[cookie'[i]]
    <2>1. ASSUME NEW x \in up[b] PROVE \E y \in up[b] \cup {i} : ref'[y] = x \/ dflt'[y] = x
      BY <1>3, <1>5, <1>6
    <2> QED BY <1>3, <1>5, <2>1
  <1>9. ~IsRoot(cookie'[i])
    BY <1>2, <1>3, <1>5, ChildInside DEF NvInv
  <1> DEFINE U == [j \in {k, i} |-> IF j = k THEN up[b] \ {b} ELSE up[b]]
  <1>10. /\ U \in [{k, i} -> SUBSET Handles] /\ {k, i} \in SUBSET Handles
         /\ U[k] = up[b] \ {b} /\ U[i] = up[b]
    BY <1>2
  <1>11. UNCHANGED <<life, anc, bad, stale>>
    BY DEF GetParent
  <1> HIDE DEF U
  <1>12. ASSUME NEW j \in {k, i}
         PROVE  /\ ~Exists(j) /\ kind'[j] \in {"const", "pair"} /\ cookie'[j] \in Lists
                /\ \A x \in U[j] :
                     Exists(x) /\ \E y \in U[j] \cup {j} : ref'[y] = x \/ dflt'[y] = x
                /\ \E o \in U[j] : kind[o] = "own" /\ cookie[o] \in anc[cookie'[j]]
                /\ kind'[j] = "pair" => ~IsRoot(cookie'[j])
    <2>1. CASE j = k
      BY <1>3, <1>7, <1>10, <2>1
    <2>2. CASE j = i
      BY <1>3, <1>5, <1>8, <1>9, <1>10, <2>2
    <2> QED BY <2>1, <2>2
  <1> QED BY <1>3, <1>4, <1>10, <1>11, <1>12, BorrowStep
-----------------------------------------------------------------------------
(* A userdata that keeps nothing alive is collected.                       *)
LEMMA GcStep ==
  ASSUME KeepDefaults, NvInv, NEW h \in Handles, Gc(h)
  PROVE  NvInv'
  <1> USE DEF NvInv
  <1> DEFINE D == IF kind[h] = "own" /\ cookie[h] # Nil THEN Below(cookie[h]) ELSE {}
  <1>1. PICK up \in [Handles -> SUBSET Handles] : Chain(up) /\ Anchored(up)
    BY DEF Kept
  <1>2. /\ Exists(h) /\ Destroy(D) /\ bad' = bad
        /\ \A k \in Handles : Exists(k) => ref[k] # h /\ dflt[k] # h
    BY DEF Gc
  <1>3. /\ kind'[h] = "none" /\ cookie'[h] = Nil
        /\ \A k \in Handles : k # h => /\ kind'[k] = kind[k] /\ cookie'[k] = cookie[k]
                                       /\ ref'[k] = ref[k] /\ stale'[k] = stale[k]
                                       /\ Exists(k) => dflt'[k] = dflt[k]
    BY <1>2 DEF Gc, NvTypeOK
  <1>4. NvTypeOK'
    BY DEF Gc, Destroy, NvTypeOK
  <1>5. /\ Forest'
        /\ \A l \in Lists \ D : life'[l] = life[l] /\ anc'[l] = anc[l]
        /\ \A l \in Lists : l \in D => life'[l] = "freed"
    <2>1. CASE kind[h] = "own" /\ cookie[h] # Nil
      <3>1. cookie[h] \in Lists /\ Destroy(Below(cookie[h])) /\ D = Below(cookie[h])
        BY <1>2, <2>1, OwnerRoot
      <3> QED BY <3>1, ForestDestroy
    <2>2. CASE ~(kind[h] = "own" /\ cookie[h] # Nil)
      <3>1. D = {} /\ life' = life /\ anc' = anc
        BY <1>2, <2>2 DEF Destroy, NvTypeOK
      <3> QED BY <3>1 DEF Forest
    <2> QED BY <2>1, <2>2
  <1>6. \A l \in D : kind[h] = "own" /\ cookie[h] # Nil /\ cookie[h] \in anc[l]
    BY DEF Below
  <1>7. kind[h] = "own" /\ cookie[h] # Nil => cookie[h] \in D
    BY OwnerRoot DEF IsRoot, Below
  <1> HIDE DEF D
  <1>8. \A b \in Handles : b # h /\ Exists(b) => h \notin up[b]
    BY <1>1, <1>2 DEF Chain
  <1>9. Chain(up)'
    <2> SUFFICES ASSUME NEW b \in Handles, Exists(b)'
                 PROVE  /\ b \in up[b]
                        /\ \A x \in up[b] :
                             Exists(x)' /\ (x # b => \E k \in up[b] : ref'[k] = x \/ dflt'[k] = x)
      BY DEF Chain
    <2>1. b # h /\ Exists(b) /\ h \notin up[b]
      BY <1>3, <1>8 DEF Exists
    <2>2. /\ b \in up[b]
          /\ \A x \in up[b] : Exists(x) /\ (x # b => \E k \in up[b] : ref[k] = x \/ dflt[k] = x)
      BY <1>1, <2>1 DEF Chain
    <2>3. \A x \in up[b] : x \in Handles /\ x # h /\ Exists(x) /\ Exists(x)' /\ ref'[x] = ref[x] /\ dflt'[x] = dflt[x]
      BY <1>3, <2>1, <2>2 DEF Exists
    <2> QED BY <2>2, <2>3
  <1>10. ASSUME NEW b \in Handles, Usable(b)'
         PROVE  /\ b # h /\ Usable(b) /\ cookie'[b] = cookie[b]
                /\ cookie[b] \in Lists \ D
                /\ \E o \in up[b] : o # h /\ kind[o] = "own" /\ cookie[o] \in anc[cookie[b]]
    <2>1. b # h /\ Usable(b) /\ cookie'[b] = cookie[b] /\ Exists(b) /\ h \notin up[b]
      BY <1>3, <1>8, <1>10 DEF Usable, Exists
    <2>2. cookie[b] \in Lists /\ cookie[b] # Nil
      BY <2>1, UsableLive, NvAssumption
    <2>3. PICK o \in up[b] : /\ kind[o] = "own" /\ cookie[o] \in anc[cookie[b]]
                             /\ cookie[o] \in Lists /\ IsRoot(cookie[o])
      BY <1>1, <2>1, <2>2, KeptOwner
    <2>4. o \in Handles /\ o # h
      BY <2>1
    <2>5. cookie[b] \notin D
      <3> SUFFICES ASSUME cookie[b] \in D PROVE FALSE
        OBVIOUS
      <3>1. kind[h] = "own" /\ cookie[h] # Nil /\ cookie[h] \in anc[cookie[b]]
        BY <1>6
      <3>2. IsRoot(cookie[h])
        BY <3>1, OwnerRoot
      <3>3. cookie[h] = cookie[o]
        BY <2>2, <2>3, <3>1, <3>2, RootUnique
      <3> QED BY <2>3, <2>4, <3>1, <3>3 DEF OneOwner
    <2> QED BY <2>1, <2>2, <2>3, <2>4, <2>5
  <1>11. Anchored(up)'
    <2> SUFFICES ASSUME NEW b \in Handles, Usable(b)'
                 PROVE  cookie'[b] \in Lists /\ \E o \in up[b] : kind'[o] = "own" /\ cookie'[o] \in anc'[cookie'[b]]
      BY DEF Anchored, Usable
    <2>1. cookie'[b] = cookie[b] /\ cookie[b] \in Lists /\ anc'[cookie[b]] = anc[cookie[b]]
      BY <1>5, <1>10
    <2>2. PICK o \in up[b] : o # h /\ kind[o] = "own" /\ cookie[o] \in anc[cookie[b]]
      BY <1>10
    <2> QED BY <1>3, <2>1, <2>2
  <1>12. PairsInside'
    BY <1>3, <1>5, <1>10 DEF PairsInside, Usable, IsRoot
  <1>13. OneOwner'
    <2>1. ASSUME NEW j \in Handles, kind'[j] = "own", cookie'[j] # Nil
          PROVE  j # h /\ kind[j] = "own" /\ cookie'[j] = cookie[j] /\ cookie[j] \in Lists \ D
      <3>1. j # h /\ kind[j] = "own" /\ cookie'[j] = cookie[j]
        BY <1>3, <2>1
      <3>2. cookie[j] \in Lists /\ IsRoot(cookie[j])
        BY <2>1, <3>1, OwnerRoot
      <3>3. cookie[j] \in D => cookie[h] = cookie[j] /\ kind[h] = "own"
        BY <1>6, <3>2 DEF IsRoot
      <3> QED BY <2>1, <3>1, <3>2, <3>3 DEF OneOwner
    <2>2. \A j \in Handles : kind'[j] = "own" /\ cookie'[j] # Nil =>
            life'[cookie'[j]] = "live" /\ anc'[cookie'[j]] = {cookie'[j]}
      BY <1>5, <2>1 DEF OneOwner, IsRoot
    <2>3. \A l \in Lists : life'[l] = "live" /\ anc'[l] = {l} =>
            \E j \in Handles : kind'[j] = "own" /\ cookie'[j] = l
      <3> SUFFICES ASSUME NEW l \in Lists, life'[l] = "live", anc'[l] = {l}
                   PROVE  \E j \in Handles : kind'[j] = "own" /\ cookie'[j] = l
        OBVIOUS
      <3>1. l \notin D /\ life[l] = "live" /\ IsRoot(l)
        BY <1>5 DEF IsRoot
      <3>2. PICK j \in Handles : kind[j] = "own" /\ cookie[j] = l
        BY <3>1 DEF OneOwner
      <3>3. j # h
        BY <1>7, <3>1, <3>2, NvAssumption
      <3> QED BY <1>3, <3>2, <3>3
    <2>4. \A i, j \in Handles :
            kind'[i] = "own" /\ kind'[j] = "own" /\ cookie'[i] = cookie'[j] /\ cookie'[i] # Nil
              => i = j
      BY <2>1 DEF OneOwner
    <2> QED BY <2>2, <2>3, <2>4 DEF OneOwner, IsRoot
  <1> QED BY <1>4, <1>5, <1>9, <1>11, <1>12, <1>13 DEF Kept
-----------------------------------------------------------------------------
LEMMA NvInvInit == NvInit => NvInv
  <1> SUFFICES ASSUME NvInit PROVE NvInv
    OBVIOUS
  <1>1. NvTypeOK /\ Forest /\ OneOwner /\ PairsInside
    BY DEF NvInit, NvTypeOK, Forest, OneOwner, PairsInside, IsRoot
  <1>2. Kept
    <2> DEFINE up == [b \in Handles |-> {b}]
    <2>1. up \in [Handles -> SUBSET Handles]
      OBVIOUS
    <2>2. Chain(up) /\ Anchored(up)
      BY DEF NvInit, Chain, Anchored, Exists
    <2> HIDE DEF up
    <2> QED BY <2>1, <2>2 DEF Kept
  <1> QED BY <1>1, <1>2 DEF NvInv

LEMMA NvInvNext == KeepDefaults /\ NvInv /\ [NvNext]_nvvars => NvInv'
  <1> SUFFICES ASSUME KeepDefaults, NvInv, [NvNext]_nvvars PROVE NvInv'
    OBVIOUS
  <1>1. CASE UNCHANGED nvvars
    <2>1. bad' \in [Lists -> BOOLEAN]
      BY <1>1 DEF nvvars, NvInv, NvTypeOK
    <2> QED BY <1>1, <2>1, ErrorStep DEF nvvars
  <1>2. ASSUME NEW h \in Handles, SetError(h) \/ AddFails(h) PROVE NvInv'
    <2>1. SetError(h)
      BY <1>2 DEF AddFails
    <2>2. bad' \in [Lists -> BOOLEAN]
      BY <2>1 DEF SetError, NvInv, NvTypeOK
    <2> QED BY <2>1, <2>2, ErrorStep DEF SetError
  <1>3. ASSUME NEW h \in Handles,
               MakeNull(h) \/ Gc(h) \/ Consume(h) \/ PairFree(h)
        PROVE  NvInv'
    BY <1>3, MakeNullStep, GcStep, ConsumeStep, PairFreeStep
  <1>4. ASSUME NEW h \in Handles, NEW k \in Handles,
               \/ Clone(h, k) \/ Add(h, k) \/ Move(h, k) \/ MoveFails(h, k)
               \/ PairGet(h, k) \/ PairTake(h, k)
        PROVE  NvInv'
    BY <1>4, CloneStep, AddStep, MoveStep, MoveFailsStep, PairGetStep, PairTakeStep
  <1>5. ASSUME NEW h \in Handles, NEW r \in Lists, NEW C \in SUBSET Lists,
               Make(h, r, C) \/ \E k \in Handles : Xfer(h, k, r, C)
        PROVE  NvInv'
    BY <1>5, MakeStep, XferStep
  <1>6. ASSUME NEW h \in Handles, NEW c \in Lists, Free(h, c) PROVE NvInv'
    BY <1>6, FreeStep
  <1>7. ASSUME NEW h \in Handles, NEW k \in Handles, NEW c \in Lists,
               \/ Get(h, k, c) \/ GetArrayNext(h, k, c) \/ Take(h, k, c)
               \/ \E i \in Handles : GetParent(h, k, i, c)
        PROVE  NvInv'
    BY <1>7, GetStep, GetArrayNextStep, TakeStep, GetParentStep
  <1>8. ASSUME NEW h \in Handles, NEW d \in Handles, NEW k \in Handles, GetDefault(h, d, k)
        PROVE  NvInv'
    BY <1>8, GetDefaultStep
  <1> QED BY <1>1, <1>2, <1>3, <1>4, <1>5, <1>6, <1>7, <1>8 DEF NvNext

(* In a program that keeps its defaults the inductive invariant holds.     *)
THEOREM NvInvariant == KeepDefaults /\ NvSpec => []NvInv
  <1>1. KeepDefaults => (NvInv /\ [NvNext]_nvvars => NvInv')
    BY NvInvNext
  <1>2. CASE KeepDefaults
    <2>1. NvInv /\ [NvNext]_nvvars => NvInv'
      BY <1>1, <1>2
    <2> QED BY NvInvInit, <2>1, PTL DEF NvSpec
  <1> QED BY <1>2

(* The variables of the model have their types.                            *)
THEOREM NvTypes == KeepDefaults /\ NvSpec => []NvTypeOK
  <1>1. NvInv => NvTypeOK
    BY DEF NvInv
  <1> QED BY NvInvariant, <1>1, PTL

(* Every list is destroyed by exactly one userdata, however lists were     *)
(* moved, taken, cloned, sent and freed: no nvlist_destroy comes twice, and*)
(* none is missing.                                                        *)
THEOREM SingleOwner == KeepDefaults /\ NvSpec => []OneOwner
  <1>1. NvInv => OneOwner
    BY DEF NvInv
  <1> QED BY NvInvariant, <1>1, PTL

(* A borrowed userdata the program may still use points to a live list,    *)
(* and a pair to one in its parent, through any chain of REF values.       *)
THEOREM BorrowedKeptAlive == KeepDefaults /\ NvSpec => []KeptAlive
  <1>1. NvInv => KeptAlive
    BY UsableLive DEF NvInv, KeptAlive, PairsInside, Usable
  <1> QED BY NvInvariant, <1>1, PTL
=============================================================================
