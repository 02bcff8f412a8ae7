---------------------------- MODULE ZfsIterProofs ---------------------------
(***************************************************************************)
(* What the iterators of libzfs call back with, and what they return, for  *)
(* any number of additional arguments and of handles visited.              *)
(***************************************************************************)
EXTENDS ZfsIter, SequenceTheorems, TLAPS

(* What lies on a stack.                                                   *)
Value == {"hdl", "param", "cb", "handle", "error", Nil, Junk} \cup Others
-----------------------------------------------------------------------------
(* The tables: parameters and removals of the functions.                   *)
Fits(w) == w = Walk(0, <<>>) \/ w = Walk(1, <<2>>)
Unfits(w) == w = Walk(2, <<2, 3>>) \/ w = Walk(3, <<2, 3, 4>>)

LEMMA WalksFacts == \A f \in DOMAIN Walks : Fits(Walks[f]) \/ Unfits(Walks[f])
<1>1. ASSUME NEW t \in WalkTables PROVE \A x \in DOMAIN t : Fits(t[x]) \/ Unfits(t[x])
  <2>1. CASE t = PoolWalks
    BY <2>1 DEF PoolWalks, Fits, Unfits
  <2>2. CASE t = MountWalks
    BY <2>2 DEF MountWalks, Fits, Unfits
  <2>3. CASE t = RootWalks
    BY <2>3 DEF RootWalks, Fits, Unfits
  <2>4. CASE t = DatasetWalks
    BY <2>4 DEF DatasetWalks, Fits, Unfits
  <2>5. CASE t = SpecWalks
    BY <2>5 DEF SpecWalks, Fits, Unfits
  <2>6. CASE t = FlagWalks
    BY <2>6 DEF FlagWalks, Fits, Unfits
  <2>7. CASE t = LastWalks
    BY <2>7 DEF LastWalks, Fits, Unfits
  <2>. QED BY <2>1, <2>2, <2>3, <2>4, <2>5, <2>6, <2>7 DEF WalkTables
<1>2. SUFFICES ASSUME NEW f \in DOMAIN Walks PROVE Fits(Walks[f]) \/ Unfits(Walks[f])
  OBVIOUS
<1>. DEFINE t == CHOOSE t \in WalkTables : f \in DOMAIN t
<1>3. t \in WalkTables /\ f \in DOMAIN t /\ Walks[f] = t[f]
  BY DEF Walks
<1>. QED BY <1>1, <1>3

LEMMA SendApart == Send \notin DOMAIN Walks
<1>1. ASSUME NEW t \in WalkTables PROVE Send \notin DOMAIN t
  BY DEF WalkTables, Send, PoolWalks, MountWalks, RootWalks, DatasetWalks, SpecWalks,
         FlagWalks, LastWalks
<1>. QED BY <1>1 DEF Walks

LEMMA MountUnfit ==
  "foreach_mountpoint" \in DOMAIN Walks /\ Unfits(Walks["foreach_mountpoint"])
<1>. DEFINE f == "foreach_mountpoint"
            t == CHOOSE t \in WalkTables : f \in DOMAIN t
<1>1. MountWalks \in WalkTables /\ f \in DOMAIN MountWalks
  BY DEF WalkTables, MountWalks
<1>2. t \in WalkTables /\ f \in DOMAIN t
  BY <1>1
<1>3. f \in DOMAIN Walks /\ Walks[f] = t[f]
  BY <1>2 DEF Walks
<1>4. \A s \in WalkTables : f \in DOMAIN s => s = MountWalks
  BY DEF WalkTables, PoolWalks, MountWalks, RootWalks, DatasetWalks, SpecWalks,
         FlagWalks, LastWalks
<1>5. t = MountWalks
  BY <1>2, <1>4
<1>6. MountWalks[f] = Walk(2, <<2, 3>>)
  BY DEF MountWalks
<1>. QED BY <1>3, <1>5, <1>6 DEF Unfits
(* Who fits is no misfit.                                                  *)
LEMMA MisfitFacts ==
  /\ Send \in Misfits
  /\ \A f \in DOMAIN Walks : /\ f \in Misfits => Unfits(Walks[f])
                             /\ f \notin Misfits => Fits(Walks[f])
<1>1. \A f \in DOMAIN Walks : /\ Fits(Walks[f]) => ~(Walks[f].params >= 2)
                              /\ Unfits(Walks[f]) => Walks[f].params >= 2
  BY DEF Fits, Unfits, Walk
<1>2. \A f \in DOMAIN Walks : f \in Misfits <=> Walks[f].params >= 2
  BY SendApart DEF Misfits
<1>. QED BY <1>1, <1>2, WalksFacts DEF Misfits
-----------------------------------------------------------------------------
(* Stacks are sequences of named values: what concatenation and SubSeq     *)
(* leave in each place.                                                    *)
LEMMA Joined ==
  ASSUME NEW s \in Seq(Value), NEW t \in Seq(Value)
  PROVE  /\ s \o t \in Seq(Value) /\ Len(s \o t) = Len(s) + Len(t)
         /\ \A j \in 1..Len(s) : (s \o t)[j] = s[j]
         /\ \A j \in 1..Len(t) : (s \o t)[Len(s) + j] = t[j]
<1>1. /\ s \o t \in Seq(Value) /\ Len(s \o t) = Len(s) + Len(t)
      /\ \A i \in 1..Len(s) + Len(t) : (s \o t)[i] = IF i <= Len(s) THEN s[i] ELSE t[i - Len(s)]
  BY ConcatProperties
<1>2. Len(s) \in Nat /\ Len(t) \in Nat
  OBVIOUS
<1>3. ASSUME NEW j \in 1..Len(t) PROVE (s \o t)[Len(s) + j] = t[j]
  <2>1. Len(s) + j \in 1..Len(s) + Len(t) /\ ~(Len(s) + j <= Len(s)) /\ Len(s) + j - Len(s) = j
    BY <1>2
  <2>. QED BY <1>1, <2>1
<1>. QED BY <1>1, <1>2, <1>3

LEMMA Regrouped ==
  ASSUME NEW s \in Seq(Value), NEW t \in Seq(Value), NEW u \in Seq(Value), NEW w, w = s \o t
  PROVE  w \o u = s \o (t \o u)
BY ConcatAssociative

LEMMA Cut ==
  ASSUME NEW s \in Seq(Value), NEW m \in Nat, NEW n \in Nat, 1 <= m, m <= n + 1, n <= Len(s)
  PROVE  /\ SubSeq(s, m, n) \in Seq(Value) /\ Len(SubSeq(s, m, n)) = n - m + 1
         /\ \A j \in 1..(n - m + 1) : SubSeq(s, m, n)[j] = s[m + j - 1]
<1>1. Len(s) \in Nat /\ \A i \in 1..Len(s) : s[i] \in Value
  OBVIOUS
<1>2. \A i \in m..n : s[i] \in Value
  BY <1>1
<1>. QED BY <1>2, SubSeqProperties

LEMMA Names == /\ "hdl" \in Value /\ "param" \in Value /\ "cb" \in Value /\ "handle" \in Value
               /\ "error" \in Value /\ Nil \in Value /\ Junk \in Value
BY DEF Value

LEMMA ExtraFacts == ASSUME NEW xs \in Extras PROVE xs \in Seq(Value) /\ Len(xs) \in Nat
<1>1. xs \in Seq(Others) /\ Others \subseteq Value
  BY IterAssumption DEF Value
<1>2. Len(xs) \in Nat /\ xs \in [1..Len(xs) -> Others]
  BY <1>1, LenProperties
<1>3. xs \in [1..Len(xs) -> Value]
  BY <1>1, <1>2
<1>. QED BY <1>2, <1>3, SeqDef

LEMMA One == ASSUME NEW x \in Value
             PROVE  <<x>> \in Seq(Value) /\ Len(<<x>>) = 1 /\ <<x>>[1] = x
OBVIOUS

LEMMA Two == ASSUME NEW x \in Value, NEW y \in Value
             PROVE  /\ <<x, y>> \in Seq(Value) /\ Len(<<x, y>>) = 2
                    /\ <<x, y>>[1] = x /\ <<x, y>>[2] = y
OBVIOUS

(* lua_remove takes one value, at index 2 or above it.                     *)
LEMMA RemoveSecond ==
  ASSUME NEW s \in Seq(Value), Len(s) >= 3
  PROVE  /\ LuaRemove(s, 2) \in Seq(Value)
         /\ Len(LuaRemove(s, 2)) = Len(s) - 1
         /\ \A j \in 1..(Len(s) - 1) : LuaRemove(s, 2)[j] = IF j = 1 THEN s[1] ELSE s[j + 1]
<1>. DEFINE a == SubSeq(s, 1, 1)
            b == SubSeq(s, 3, Len(s))
<1>1. LuaRemove(s, 2) = a \o b /\ Len(s) \in Nat
  BY DEF LuaRemove, RemoveAt
<1>2. a \in Seq(Value) /\ Len(a) = 1 /\ a[1] = s[1]
  BY <1>1, Cut
<1>3. /\ b \in Seq(Value) /\ Len(b) = Len(s) - 2
      /\ \A j \in 1..(Len(s) - 2) : b[j] = s[j + 2]
  BY <1>1, Cut
<1>. HIDE DEF a, b
<1>4. /\ a \o b \in Seq(Value) /\ Len(a \o b) = Len(s) - 1 /\ (a \o b)[1] = s[1]
      /\ \A j \in 1..(Len(s) - 2) : (a \o b)[1 + j] = s[j + 2]
  <2>1. /\ a \o b \in Seq(Value) /\ Len(a \o b) = Len(a) + Len(b)
        /\ \A j \in 1..Len(a) : (a \o b)[j] = a[j]
        /\ \A j \in 1..Len(b) : (a \o b)[Len(a) + j] = b[j]
    BY <1>2, <1>3, Joined
  <2>. QED BY <1>1, <1>2, <1>3, <2>1
<1>5. ASSUME NEW j \in 1..(Len(s) - 1), j # 1 PROVE (a \o b)[j] = s[j + 1]
  <2>1. j - 1 \in 1..(Len(s) - 2) /\ 1 + (j - 1) = j /\ (j - 1) + 2 = j + 1
    BY <1>1, <1>5
  <2>. QED BY <1>4, <2>1
<1>. QED BY <1>1, <1>4, <1>5

LEMMA RemoveAbove ==
  ASSUME NEW s \in Seq(Value), Len(s) >= 3, NEW i \in {3, 4}
  PROVE  /\ LuaRemove(s, i) \in Seq(Value)
         /\ Len(LuaRemove(s, i)) = Len(s) - 1
         /\ LuaRemove(s, i)[2] = s[2]
<1>1. CASE i <= Len(s)
  <2>. DEFINE a == SubSeq(s, 1, i - 1)
              b == SubSeq(s, i + 1, Len(s))
  <2>1. LuaRemove(s, i) = a \o b /\ Len(s) \in Nat
    <3>1. LuaRemove(s, i) = RemoveAt(s, i)
      BY <1>1 DEF LuaRemove
    <3>2. RemoveAt(s, i) = a \o b
      BY DEF RemoveAt
    <3>. QED BY <3>1, <3>2, LenProperties
  <2>2. a \in Seq(Value) /\ Len(a) = i - 1 /\ a[2] = s[2]
    BY <1>1, <2>1, Cut
  <2>3. b \in Seq(Value) /\ Len(b) = Len(s) - i
    BY <1>1, <2>1, Cut
  <2>. HIDE DEF a, b
  <2>. QED BY <2>1, <2>2, <2>3, Joined
<1>2. CASE ~(i <= Len(s))
  BY <1>2 DEF LuaRemove, Front
<1>. QED BY <1>1, <1>2

(* The arguments of a function, value by value.                            *)
LEMMA ArgumentFacts ==
  ASSUME NEW n \in Nat, NEW xs \in Extras
  PROVE  LET s == Arguments(n, xs)
         IN  /\ s \in Seq(Value) /\ Len(s) = n + 2 + Len(xs)
             /\ s[1] = "hdl" /\ s[n + 2] = "cb"
             /\ \A j \in 2..(n + 1) : s[j] = "param"
             /\ \A j \in 1..Len(xs) : s[n + 2 + j] = xs[j]
<1>. DEFINE ps == [i \in 1..n |-> "param"]
            q == <<"hdl">> \o ps
            h == q \o <<"cb">>
<1>. DEFINE c == <<"cb">>
            d == <<"hdl">>
<1>1. ps \in Seq(Value) /\ Len(ps) = n /\ \A j \in 1..n : ps[j] = "param"
  <2>1. ps \in [1..n -> Value]
    BY Names
  <2>2. ps \in Seq(Value)
    BY <2>1, SeqDef
  <2>3. DOMAIN ps = 1..n /\ Len(ps) \in Nat /\ DOMAIN ps = 1..Len(ps)
    BY <2>1, <2>2, LenProperties
  <2>. QED BY <2>2, <2>3
<1>2. /\ c \in Seq(Value) /\ Len(c) = 1 /\ c[1] = "cb"
      /\ d \in Seq(Value) /\ Len(d) = 1 /\ d[1] = "hdl"
  BY Names, One
<1>3. xs \in Seq(Value) /\ Len(xs) \in Nat
  BY ExtraFacts
<1>. HIDE DEF ps, c, d
<1>4. /\ q \in Seq(Value) /\ Len(q) = n + 1 /\ q[1] = "hdl"
      /\ \A j \in 1..n : q[1 + j] = "param"
  <2>1. /\ d \o ps \in Seq(Value) /\ Len(d \o ps) = Len(d) + Len(ps)
        /\ \A j \in 1..Len(d) : (d \o ps)[j] = d[j]
        /\ \A j \in 1..Len(ps) : (d \o ps)[Len(d) + j] = ps[j]
    BY <1>1, <1>2, Joined
  <2>2. q = d \o ps
    BY DEF d
  <2>. HIDE DEF q
  <2>. QED BY <1>1, <1>2, <2>1, <2>2
<1>. HIDE DEF q
<1>5. /\ h \in Seq(Value) /\ Len(h) = n + 2 /\ h[n + 2] = "cb"
      /\ \A j \in 1..(n + 1) : h[j] = q[j]
  <2>1. /\ q \o c \in Seq(Value) /\ Len(q \o c) = Len(q) + Len(c)
        /\ \A j \in 1..Len(q) : (q \o c)[j] = q[j]
        /\ \A j \in 1..Len(c) : (q \o c)[Len(q) + j] = c[j]
    BY <1>2, <1>4, Joined
  <2>2. h = q \o c
    BY DEF c
  <2>. HIDE DEF h
  <2>3. 1 \in 1..Len(c) /\ Len(q) + 1 = n + 2
    BY <1>2, <1>4
  <2>. QED BY <1>2, <1>4, <2>1, <2>2, <2>3
<1>. HIDE DEF h
<1>6. /\ h \o xs \in Seq(Value) /\ Len(h \o xs) = n + 2 + Len(xs)
      /\ \A j \in 1..(n + 2) : (h \o xs)[j] = h[j]
      /\ \A j \in 1..Len(xs) : (h \o xs)[n + 2 + j] = xs[j]
  <2>1. /\ h \o xs \in Seq(Value) /\ Len(h \o xs) = Len(h) + Len(xs)
        /\ \A j \in 1..Len(h) : (h \o xs)[j] = h[j]
        /\ \A j \in 1..Len(xs) : (h \o xs)[Len(h) + j] = xs[j]
    BY <1>3, <1>5, Joined
  <2>. QED BY <1>5, <2>1
<1>7. Arguments(n, xs) = h \o xs
  BY DEF Arguments, h, q, ps
<1>8. ASSUME NEW j \in 2..(n + 1) PROVE (h \o xs)[j] = "param"
  <2>1. j - 1 \in 1..n /\ 1 + (j - 1) = j /\ j \in 1..(n + 1) /\ j \in 1..(n + 2)
    OBVIOUS
  <2>2. q[j] = "param"
    BY <1>4, <2>1
  <2>. QED BY <1>5, <1>6, <2>1, <2>2
<1>9. (h \o xs)[1] = "hdl" /\ (h \o xs)[n + 2] = "cb"
  BY <1>4, <1>5, <1>6
<1>. QED BY <1>6, <1>7, <1>8, <1>9

(* The stack a function leaves to its callbacks.                           *)
Base(f, xs) == Massaged(Arguments(Walks[f].params, xs), Walks[f].rm)

LEMMA BaseFacts ==
  ASSUME NEW f \in DOMAIN Walks, NEW xs \in Extras
  PROVE  /\ Base(f, xs) \in Seq(Value) /\ Len(Base(f, xs)) >= 2
         /\ f \notin Misfits => Base(f, xs) = <<"hdl", "cb">> \o xs
         /\ f \in Misfits => Base(f, xs)[2] = "param"
<1>. DEFINE r == <<"hdl", "cb">> \o xs
<1>1. /\ r \in Seq(Value) /\ Len(r) = 2 + Len(xs) /\ r[1] = "hdl" /\ r[2] = "cb"
      /\ \A j \in 1..Len(xs) : r[2 + j] = xs[j]
  <2>. DEFINE d == <<"hdl", "cb">>
  <2>1. d \in Seq(Value) /\ Len(d) = 2 /\ d[1] = "hdl" /\ d[2] = "cb"
    BY Names, Two
  <2>2. r = d \o xs /\ xs \in Seq(Value) /\ Len(xs) \in Nat
    BY ExtraFacts
  <2>. HIDE DEF d, r
  <2>3. /\ d \o xs \in Seq(Value) /\ Len(d \o xs) = Len(d) + Len(xs)
        /\ \A j \in 1..Len(d) : (d \o xs)[j] = d[j]
        /\ \A j \in 1..Len(xs) : (d \o xs)[Len(d) + j] = xs[j]
    BY <2>1, <2>2, Joined
  <2>. QED BY <2>1, <2>2, <2>3
<1>. HIDE DEF r
<1>2. CASE Walks[f] = Walk(0, <<>>)
  <2>1. Base(f, xs) = Arguments(0, xs)
    BY <1>2 DEF Base, Massaged, Walk
  <2>2. Arguments(0, xs) = r
    <3>. DEFINE s == Arguments(0, xs)
    <3>1. /\ s \in Seq(Value) /\ Len(s) = 2 + Len(xs) /\ s[1] = "hdl" /\ s[2] = "cb"
          /\ \A j \in 1..Len(xs) : s[2 + j] = xs[j]
      BY ArgumentFacts
    <3>. HIDE DEF s
    <3>2. \A j \in 1..Len(s) : s[j] = r[j]
      <4>. SUFFICES ASSUME NEW j \in 1..Len(s) PROVE s[j] = r[j]
        OBVIOUS
      <4>1. CASE j <= 2
        BY <1>1, <3>1, <4>1
      <4>2. CASE j > 2
        <5>1. j - 2 \in 1..Len(xs) /\ j = 2 + (j - 2)
          BY <3>1, <4>2
        <5>. QED BY <1>1, <3>1, <5>1
      <4>. QED BY <4>1, <4>2
    <3>. QED BY <1>1, <3>1, <3>2, SeqEqual DEF s
  <2>3. f \notin Misfits
    BY <1>2, MisfitFacts DEF Unfits, Walk
  <2>4. Len(xs) \in Nat
    BY ExtraFacts
  <2>5. Base(f, xs) = r /\ Len(r) >= 2
    BY <1>1, <2>1, <2>2, <2>4
  <2>. QED BY <1>1, <2>3, <2>5 DEF r
<1>3. CASE Walks[f] = Walk(1, <<2>>)
  <2>. DEFINE a == Arguments(1, xs)
              s == LuaRemove(a, 2)
  <2>1. Base(f, xs) = s
    BY <1>3 DEF Base, Massaged, Walk
  <2>2. /\ a \in Seq(Value) /\ Len(a) = 3 + Len(xs) /\ a[1] = "hdl" /\ a[3] = "cb"
        /\ \A j \in 1..Len(xs) : a[3 + j] = xs[j]
    BY ArgumentFacts
  <2>. HIDE DEF a
  <2>3. /\ s \in Seq(Value) /\ Len(s) = 2 + Len(xs)
        /\ \A j \in 1..(Len(a) - 1) : s[j] = IF j = 1 THEN a[1] ELSE a[j + 1]
    BY <2>2, RemoveSecond
  <2>. HIDE DEF s
  <2>4. \A j \in 1..Len(s) : s[j] = r[j]
    <3>. SUFFICES ASSUME NEW j \in 1..Len(s) PROVE s[j] = r[j]
      OBVIOUS
    <3>1. CASE j <= 2
      BY <1>1, <2>2, <2>3, <3>1
    <3>2. CASE j > 2
      <4>1. /\ j - 2 \in 1..Len(xs) /\ j = 2 + (j - 2) /\ j + 1 = 3 + (j - 2)
            /\ j \in 1..(Len(a) - 1) /\ j # 1
        BY <2>2, <2>3, <3>2
      <4>2. s[j] = a[j + 1]
        BY <2>3, <4>1
      <4>3. a[j + 1] = xs[j - 2]
        BY <2>2, <4>1
      <4>4. r[j] = xs[j - 2]
        BY <1>1, <4>1
      <4>. QED BY <4>2, <4>3, <4>4
    <3>. QED BY <3>1, <3>2
  <2>5. s = r
    BY <1>1, <2>3, <2>4, SeqEqual
  <2>6. f \notin Misfits
    BY <1>3, MisfitFacts DEF Unfits, Walk
  <2>7. Len(xs) \in Nat
    BY ExtraFacts
  <2>8. Base(f, xs) = r /\ Len(r) >= 2
    BY <1>1, <2>1, <2>5, <2>7
  <2>. QED BY <1>1, <2>6, <2>8 DEF r
<1>4. CASE Unfits(Walks[f])
  <2>1. f \in Misfits
    BY <1>4, MisfitFacts DEF Fits, Unfits, Walk
  <2>. DEFINE n == Walks[f].params
              a == Arguments(n, xs)
              b == LuaRemove(a, 2)
              c == LuaRemove(b, 3)
  <2>2. n \in {2, 3} /\ Base(f, xs) = IF n = 2 THEN c ELSE LuaRemove(c, 4)
    <3>1. CASE Walks[f] = Walk(2, <<2, 3>>)
      BY <3>1 DEF Base, Massaged, Walk
    <3>2. CASE Walks[f] = Walk(3, <<2, 3, 4>>)
      BY <3>2 DEF Base, Massaged, Walk
    <3>. QED BY <1>4, <3>1, <3>2 DEF Unfits
  <2>3. a \in Seq(Value) /\ Len(a) >= n + 2 /\ a[3] = "param"
    <3>1. n \in Nat /\ 3 \in 2..(n + 1)
      BY <2>2
    <3>. HIDE DEF n
    <3>2. a \in Seq(Value) /\ Len(a) = n + 2 + Len(xs) /\ \A j \in 2..(n + 1) : a[j] = "param"
      BY <3>1, ArgumentFacts
    <3>. QED BY <3>1, <3>2, ExtraFacts
  <2>. HIDE DEF a
  <2>4. b \in Seq(Value) /\ Len(b) >= n + 1 /\ b[2] = "param"
    BY <2>2, <2>3, RemoveSecond
  <2>. HIDE DEF b
  <2>5. c \in Seq(Value) /\ Len(c) >= n /\ c[2] = "param"
    BY <2>2, <2>4, RemoveAbove
  <2>. HIDE DEF c, n
  <2>6. CASE n = 2
    BY <2>1, <2>2, <2>5, <2>6
  <2>7. CASE n = 3
    <3>1. /\ LuaRemove(c, 4) \in Seq(Value) /\ Len(LuaRemove(c, 4)) = Len(c) - 1
          /\ LuaRemove(c, 4)[2] = c[2]
      BY <2>5, <2>7, RemoveAbove
    <3>. QED BY <2>1, <2>2, <2>5, <2>7, <3>1
  <2>. QED BY <2>2, <2>6, <2>7
<1>. QED BY <1>2, <1>3, <1>4, WalksFacts DEF Fits
-----------------------------------------------------------------------------
LEMMA Pushed1 ==
  ASSUME NEW s \in Seq(Value), NEW x \in Value
  PROVE  /\ Append(s, x) \in Seq(Value) /\ Len(Append(s, x)) = Len(s) + 1
         /\ \A j \in 1..Len(s) : Append(s, x)[j] = s[j]
         /\ Append(s, x)[Len(s) + 1] = x
BY AppendProperties, LenProperties

LEMMA Entry == ASSUME NEW s \in Seq(Value), NEW j \in 1..Len(s) PROVE s[j] \in Value
BY LenProperties

(* What the pushes for a callback leave, with nargs values to copy: the    *)
(* arguments come from one place above where the function came from, and   *)
(* so the last of them is the copy of the function.                        *)
LEMMA PushedFacts ==
  ASSUME NEW s \in Seq(Value), NEW n \in Nat, 1 <= n, n <= Len(s)
  PROVE  LET p == Pushed(s, n)
             c == Len(s) + 1 - n
         IN  /\ p \in Seq(Value) /\ Len(p) = Len(s) + 1 + n
             /\ \A j \in 1..Len(s) : p[j] = s[j]
             /\ p[Len(s) + 1] = s[c] /\ p[Len(s) + 2] = "handle"
             /\ \A i \in 1..(n - 1) : p[Len(s) + 2 + i] = IF i = n - 1 THEN s[c] ELSE s[c + 1 + i]
<1>. DEFINE L == Len(s)
            c == L + 1 - n
            a == Append(s, s[c])
            t == Append(a, "handle")
            y == [i \in 1..(n - 1) |-> At(t, i - 1 - n)]
<1>1. L \in Nat /\ c \in 1..L /\ s[c] \in Value
  BY Entry, LenProperties
<1>2. At(s, -n) = s[c]
  BY <1>1 DEF At
<1>3. /\ a \in Seq(Value) /\ Len(a) = L + 1 /\ a[L + 1] = s[c]
      /\ \A j \in 1..L : a[j] = s[j]
  BY <1>1, Pushed1
<1>4. /\ t \in Seq(Value) /\ Len(t) = L + 2 /\ t[L + 2] = "handle" /\ t[L + 1] = s[c]
      /\ \A j \in 1..L : t[j] = s[j]
  <2>. HIDE DEF a
  <2>1. /\ t \in Seq(Value) /\ Len(t) = Len(a) + 1 /\ t[Len(a) + 1] = "handle"
        /\ \A j \in 1..Len(a) : t[j] = a[j]
    BY <1>3, Names, Pushed1
  <2>. QED BY <1>1, <1>3, <2>1
<1>5. Pushed(s, n) = t \o y
  BY <1>2 DEF Pushed, PushValue
<1>. HIDE DEF t
<1>6. ASSUME NEW i \in 1..(n - 1)
      PROVE  /\ At(t, i - 1 - n) = IF i = n - 1 THEN s[c] ELSE s[c + 1 + i]
             /\ At(t, i - 1 - n) \in Value
  <2>1. i - 1 - n \in Int /\ ~(i - 1 - n > 0) /\ i - 1 - n # 0 /\ ~(i - 1 - n > Len(t))
    BY <1>1, <1>4
  <2>2. Len(t) + 1 + (i - 1 - n) = c + 1 + i /\ c + 1 + i >= 1 /\ c + 1 + i \in 1..(L + 1)
    BY <1>1, <1>4
  <2>3. At(t, i - 1 - n) = t[c + 1 + i]
    BY <2>1, <2>2 DEF At
  <2>4. CASE i = n - 1
    <3>1. c + 1 + i = L + 1
      BY <1>1, <2>4
    <3>. QED BY <1>1, <1>4, <2>3, <2>4, <3>1
  <2>5. CASE i # n - 1
    <3>1. c + 1 + i \in 1..L
      BY <1>1, <2>5
    <3>. QED BY <1>4, <2>3, <2>5, <3>1, Entry
  <2>. QED BY <2>4, <2>5
<1>7. /\ y \in Seq(Value) /\ Len(y) = n - 1
      /\ \A i \in 1..(n - 1) : y[i] = IF i = n - 1 THEN s[c] ELSE s[c + 1 + i]
  <2>1. y \in [1..(n - 1) -> Value] /\ n - 1 \in Nat
    <3>1. \A i \in 1..(n - 1) : At(t, i - 1 - n) \in Value
      BY <1>6
    <3>2. n - 1 \in Nat
      OBVIOUS
    <3>. QED BY <3>1, <3>2
  <2>2. y \in Seq(Value)
    BY <2>1, SeqDef
  <2>3. Len(y) = n - 1
    <3>. HIDE DEF y
    <3>1. DOMAIN y = 1..(n - 1) /\ Len(y) \in Nat /\ DOMAIN y = 1..Len(y)
      BY <2>1, <2>2, LenProperties
    <3>. QED BY <2>1, <3>1
  <2>. QED BY <1>6, <2>2, <2>3
<1>. HIDE DEF y, c, L
<1>8. /\ t \o y \in Seq(Value) /\ Len(t \o y) = Len(t) + Len(y)
      /\ \A j \in 1..Len(t) : (t \o y)[j] = t[j]
      /\ \A j \in 1..Len(y) : (t \o y)[Len(t) + j] = y[j]
  BY <1>4, <1>7, Joined
<1>9. /\ t \o y \in Seq(Value) /\ Len(t \o y) = L + 1 + n
      /\ \A j \in 1..L : (t \o y)[j] = s[j]
      /\ (t \o y)[L + 1] = s[c] /\ (t \o y)[L + 2] = "handle"
  BY <1>1, <1>4, <1>7, <1>8
<1>10. ASSUME NEW i \in 1..(n - 1)
       PROVE  (t \o y)[L + 2 + i] = IF i = n - 1 THEN s[c] ELSE s[c + 1 + i]
  BY <1>4, <1>7, <1>8
<1>. QED BY <1>5, <1>9, <1>10 DEF L, c

(* The call of a callback: the function and its arguments; the stack is as *)
(* it was.                                                                 *)
LEMMA CallFacts ==
  ASSUME NEW s \in Seq(Value), NEW n \in Nat, 1 <= n, n <= Len(s)
  PROVE  LET p == Pushed(s, n)
             q == SubSeq(p, Len(p) - n, Len(p))
             c == Len(s) + 1 - n
         IN  /\ SubSeq(p, 1, Len(p) - n - 1) = s
             /\ q \in Seq(Value) /\ Len(q) = n + 1
             /\ q[1] = s[c] /\ q[2] = "handle"
             /\ \A i \in 1..(n - 1) : q[2 + i] = IF i = n - 1 THEN s[c] ELSE s[c + 1 + i]
<1>. DEFINE p == Pushed(s, n)
            L == Len(s)
            c == L + 1 - n
<1>1. /\ p \in Seq(Value) /\ Len(p) = L + 1 + n
      /\ \A j \in 1..L : p[j] = s[j]
      /\ p[L + 1] = s[c] /\ p[L + 2] = "handle"
      /\ \A i \in 1..(n - 1) : p[L + 2 + i] = IF i = n - 1 THEN s[c] ELSE s[c + 1 + i]
  BY PushedFacts
<1>2. L \in Nat
  BY LenProperties
<1>. HIDE DEF p, L, c
<1>3. Len(p) - n = L + 1 /\ Len(p) - n - 1 = L
  BY <1>1, <1>2
<1>4. SubSeq(p, 1, L) = s
  <2>1. /\ SubSeq(p, 1, L) \in Seq(Value) /\ Len(SubSeq(p, 1, L)) = L - 1 + 1
        /\ \A j \in 1..(L - 1 + 1) : SubSeq(p, 1, L)[j] = p[1 + j - 1]
    BY <1>1, <1>2, Cut
  <2>2. \A j \in 1..L : SubSeq(p, 1, L)[j] = s[j]
    BY <1>1, <1>2, <2>1
  <2>. QED BY <1>2, <2>1, <2>2, SeqEqual DEF L
<1>. DEFINE q == SubSeq(p, L + 1, Len(p))
<1>5. /\ q \in Seq(Value) /\ Len(q) = Len(p) - (L + 1) + 1
      /\ \A j \in 1..(Len(p) - (L + 1) + 1) : q[j] = p[L + 1 + j - 1]
  BY <1>1, <1>2, Cut
<1>. HIDE DEF q
<1>6. q \in Seq(Value) /\ Len(q) = n + 1 /\ \A j \in 1..(n + 1) : q[j] = p[L + j]
  BY <1>1, <1>2, <1>5
<1>7. q[1] = s[c] /\ q[2] = "handle"
  BY <1>1, <1>2, <1>6
<1>8. ASSUME NEW i \in 1..(n - 1) PROVE q[2 + i] = IF i = n - 1 THEN s[c] ELSE s[c + 1 + i]
  <2>1. 2 + i \in 1..(n + 1) /\ L + (2 + i) = L + 2 + i
    BY <1>2
  <2>. QED BY <1>1, <1>6, <2>1
<1>. QED BY <1>3, <1>4, <1>6, <1>7, <1>8 DEF p, q, L, c

(* What a callback that raised an error leaves on the stack.               *)
LEMMA SwapFacts ==
  ASSUME NEW s \in Seq(Value)
  PROVE  SwapTop(Append(Append(s, "error"), Nil)) = s \o <<Nil, "error">>
<1>. DEFINE L == Len(s)
            a == Append(s, "error")
            b == Append(a, Nil)
            w == SwapTop(b)
            d == <<Nil, "error">>
<1>1. L \in Nat
  BY LenProperties
<1>2. /\ a \in Seq(Value) /\ Len(a) = L + 1 /\ a[L + 1] = "error"
      /\ \A j \in 1..L : a[j] = s[j]
  BY Names, Pushed1
<1>3. /\ b \in Seq(Value) /\ Len(b) = L + 2 /\ b[L + 2] = Nil /\ b[L + 1] = "error"
      /\ \A j \in 1..L : b[j] = s[j]
  <2>. HIDE DEF a
  <2>1. /\ b \in Seq(Value) /\ Len(b) = Len(a) + 1 /\ b[Len(a) + 1] = Nil
        /\ \A j \in 1..Len(a) : b[j] = a[j]
    BY <1>2, Names, Pushed1
  <2>. QED BY <1>1, <1>2, <2>1
<1>. HIDE DEF b
<1>4. b \in [1..(L + 2) -> Value] /\ DOMAIN b = 1..(L + 2)
  BY <1>3, LenProperties
<1>5. w = [b EXCEPT ![L + 2] = b[L + 1], ![L + 1] = b[L + 2]]
  <2>1. w = [b EXCEPT ![Len(b)] = b[Len(b) - 1], ![Len(b) - 1] = b[Len(b)]]
    BY DEF SwapTop
  <2>2. Len(b) = L + 2 /\ Len(b) - 1 = L + 1
    BY <1>1, <1>3
  <2>. HIDE DEF w, L
  <2>. QED BY <2>1, <2>2
<1>6. /\ w \in [1..(L + 2) -> Value] /\ w[L + 1] = Nil /\ w[L + 2] = "error"
      /\ \A j \in 1..L : w[j] = s[j]
  <2>. HIDE DEF w
  <2>. QED BY <1>1, <1>3, <1>4, <1>5, Names
<1>7. w \in Seq(Value) /\ Len(w) = L + 2
  <2>. HIDE DEF w
  <2>1. L + 2 \in Nat
    BY <1>1
  <2>2. w \in Seq(Value)
    BY <1>6, <2>1, SeqDef
  <2>3. DOMAIN w = 1..(L + 2) /\ Len(w) \in Nat /\ DOMAIN w = 1..Len(w)
    BY <1>6, <2>2, LenProperties
  <2>. QED BY <2>1, <2>2, <2>3
<1>8. d \in Seq(Value) /\ Len(d) = 2 /\ d[1] = Nil /\ d[2] = "error"
  BY Names, Two
<1>. HIDE DEF w, d
<1>9. /\ s \o d \in Seq(Value) /\ Len(s \o d) = Len(s) + Len(d)
      /\ \A j \in 1..Len(s) : (s \o d)[j] = s[j]
      /\ \A j \in 1..Len(d) : (s \o d)[Len(s) + j] = d[j]
  BY <1>8, Joined
<1>10. \A j \in 1..Len(w) : w[j] = (s \o d)[j]
  <2>1. (s \o d)[L + 1] = Nil /\ (s \o d)[L + 2] = "error"
    BY <1>1, <1>8, <1>9
  <2>2. ASSUME NEW j \in 1..(L + 2) PROVE w[j] = (s \o d)[j]
    <3>1. CASE j \in 1..L
      BY <1>6, <1>9, <3>1
    <3>2. CASE j = L + 1
      BY <1>6, <2>1, <3>2
    <3>3. CASE j = L + 2
      BY <1>6, <2>1, <3>3
    <3>4. j \in 1..L \/ j = L + 1 \/ j = L + 2
      BY <1>1
    <3>. QED BY <3>1, <3>2, <3>3, <3>4
  <2>. QED BY <1>7, <2>2
<1>11. w = s \o d
  BY <1>1, <1>7, <1>8, <1>9, <1>10, SeqEqual
<1>. QED BY <1>11 DEF w, d, b
-----------------------------------------------------------------------------
(* What callbacks that raise an error leave grows by two values a time.     *)
LEMMA LeftoverFacts ==
  ASSUME NEW n \in Nat
  PROVE  /\ Leftovers(n) \in Seq(Value) /\ Len(Leftovers(n)) = 2 * n
         /\ \A i \in 1..(2 * n) : Leftovers(n)[i] = IF i % 2 = 1 THEN Nil ELSE "error"
<1>. DEFINE y == Leftovers(n)
<1>1. y \in [1..(2 * n) -> Value] /\ 2 * n \in Nat
  BY Names DEF Leftovers
<1>2. y \in Seq(Value)
  BY <1>1, SeqDef
<1>3. \A i \in 1..(2 * n) : y[i] = IF i % 2 = 1 THEN Nil ELSE "error"
  BY DEF Leftovers
<1>. HIDE DEF y
<1>4. Len(y) = 2 * n
  <2>1. DOMAIN y = 1..(2 * n) /\ Len(y) \in Nat /\ DOMAIN y = 1..Len(y)
    BY <1>1, <1>2, LenProperties
  <2>. QED BY <1>1, <2>1
<1>. QED BY <1>2, <1>3, <1>4 DEF y

LEMMA LeftoversGrow ==
  ASSUME NEW n \in Nat PROVE Leftovers(n + 1) = Leftovers(n) \o <<Nil, "error">>
<1>0. PICK m \in Nat : m = n + 1
  OBVIOUS
<1>. DEFINE d == <<Nil, "error">>
            y == Leftovers(n)
            z == Leftovers(m)
<1>1. d \in Seq(Value) /\ Len(d) = 2 /\ d[1] = Nil /\ d[2] = "error"
  BY Names, Two
<1>2. /\ y \in Seq(Value) /\ Len(y) = 2 * n
      /\ \A i \in 1..(2 * n) : y[i] = IF i % 2 = 1 THEN Nil ELSE "error"
  BY LeftoverFacts
<1>3. /\ z \in Seq(Value) /\ Len(z) = 2 * (n + 1)
      /\ \A i \in 1..(2 * (n + 1)) : z[i] = IF i % 2 = 1 THEN Nil ELSE "error"
  <2>1. /\ z \in Seq(Value) /\ Len(z) = 2 * m
        /\ \A i \in 1..(2 * m) : z[i] = IF i % 2 = 1 THEN Nil ELSE "error"
    BY LeftoverFacts
  <2>. QED BY <1>0, <2>1
<1>. HIDE DEF d, y, z
<1>4. /\ y \o d \in Seq(Value) /\ Len(y \o d) = Len(y) + Len(d)
      /\ \A j \in 1..Len(y) : (y \o d)[j] = y[j]
      /\ \A j \in 1..Len(d) : (y \o d)[Len(y) + j] = d[j]
  BY <1>1, <1>2, Joined
<1>5. Len(z) = Len(y \o d)
  BY <1>1, <1>2, <1>3, <1>4
<1>6. ASSUME NEW j \in 1..Len(z) PROVE z[j] = (y \o d)[j]
  <2>1. j \in 1..(2 * n) \/ j = 2 * n + 1 \/ j = 2 * n + 2
    BY <1>3
  <2>2. CASE j \in 1..(2 * n)
    <3>1. j \in 1..(2 * (n + 1)) /\ j \in 1..Len(y)
      BY <1>2, <2>2
    <3>. QED BY <1>2, <1>3, <1>4, <2>2, <3>1
  <2>3. CASE j = 2 * n + 1
    <3>1. (2 * n + 1) % 2 = 1 /\ 2 * n + 1 \in 1..(2 * (n + 1))
      OBVIOUS
    <3>2. z[j] = Nil
      BY <1>3, <2>3, <3>1
    <3>. QED BY <1>1, <1>2, <1>4, <2>3, <3>2
  <2>4. CASE j = 2 * n + 2
    <3>1. (2 * n + 2) % 2 # 1 /\ 2 * n + 2 \in 1..(2 * (n + 1))
      OBVIOUS
    <3>2. z[j] = "error"
      BY <1>3, <2>4, <3>1
    <3>. QED BY <1>1, <1>2, <1>4, <2>4, <3>2
  <2>. QED BY <2>1, <2>2, <2>3, <2>4
<1>7. z = y \o d
  BY <1>3, <1>4, <1>5, <1>6, SeqEqual
<1>. QED BY <1>0, <1>7 DEF z, y, d

LEMMA LeftoversOfFew == Leftovers(0) = <<>> /\ Leftovers(1) = <<Nil, "error">>
<1>1. Leftovers(0) = <<>>
  BY LeftoverFacts, EmptySeq
<1>2. Leftovers(0 + 1) = <<>> \o <<Nil, "error">>
  BY <1>1, LeftoversGrow
<1>3. <<Nil, "error">> \in Seq(Value)
  BY Names, Two
<1>. QED BY <1>1, <1>2, <1>3, ConcatEmptySeq

(* lua_zfs.c:1623, :2185: a misfit never calls its callback.               *)
MisfitsCallOthers == phase = "call" /\ fn \in Misfits => call[1] # "cb"

Running == phase \in {"walk", "call"}

(* The callee is the second value of a stack, a parameter for misfits.     *)
CalleeShape ==
  Running /\ fn \in DOMAIN Walks =>
    Len(stk) >= 2 /\ (fn \in Misfits => stk[2] = "param")

(* An iterator's stack is what Enter left, with fail and a message above   *)
(* for every callback that has raised an error; another callback follows   *)
(* such a one only where libzfs goes on.                                    *)
PlainShape ==
  Running /\ fn \in DOMAIN Walks \ {"foreach_mountpoint"} =>
    /\ top = Len(Base(fn, args))
    /\ phase = "call" => throws = 0 \/ fn \in GoesOn
    /\ throws > 1 => fn \in GoesOn
    /\ stk = Base(fn, args) \o Leftovers(throws)

(* The filter of send finds no callback above the six arguments.           *)
SendShape ==
  Running /\ fn = Send => Len(stk) >= 6 /\ \A j \in 7..Len(stk) : stk[j] # "cb"

IterInv ==
  /\ phase \in {"idle", "walk", "call", "done"} /\ throws \in Nat
  /\ Running => fn \in IterFunctions /\ args \in Extras /\ stk \in Seq(Value)
  /\ CalleeShape
  /\ PlainShape
  /\ SendShape
  /\ CallbackGetsShifted
  /\ MisfitsCallOthers
  /\ IterResults
-----------------------------------------------------------------------------
(* The call of a function that fits, as the manual would put it.           *)
LEMMA ShiftFacts ==
  ASSUME NEW xs \in Seq(Value), NEW s, s = <<"hdl", "cb">> \o xs,
         NEW q \in Seq(Value), Len(q) = Len(xs) + 2, q[1] = s[2], q[2] = "handle",
         \A i \in 1..Len(xs) : q[2 + i] = IF i = Len(xs) THEN s[2] ELSE s[3 + i]
  PROVE  q = <<"cb", "handle">> \o Shifted(xs)
<1>. DEFINE k == Len(xs)
            d == <<"hdl", "cb">>
            e == <<"cb", "handle">>
            y == Shifted(xs)
<1>1. xs \in Seq(Value) /\ k \in Nat
  BY LenProperties
<1>2. d \in Seq(Value) /\ Len(d) = 2 /\ d[1] = "hdl" /\ d[2] = "cb"
  BY Names, Two
<1>3. e \in Seq(Value) /\ Len(e) = 2 /\ e[1] = "cb" /\ e[2] = "handle"
  BY Names, Two
<1>4. s = d \o xs
  OBVIOUS
<1>. HIDE DEF d, e
<1>5. /\ s \in Seq(Value) /\ Len(s) = 2 + k /\ s[2] = "cb"
      /\ \A j \in 1..k : s[2 + j] = xs[j]
  <2>1. /\ d \o xs \in Seq(Value) /\ Len(d \o xs) = Len(d) + Len(xs)
        /\ \A j \in 1..Len(d) : (d \o xs)[j] = d[j]
        /\ \A j \in 1..Len(xs) : (d \o xs)[Len(d) + j] = xs[j]
    BY <1>1, <1>2, Joined
  <2>. QED BY <1>1, <1>2, <1>4, <2>1
<1>6. /\ y \in Seq(Value) /\ Len(y) = k
      /\ \A i \in 1..k : y[i] = IF i = k THEN "cb" ELSE xs[i + 1]
  <2>1. CASE xs = <<>>
    BY <2>1 DEF Shifted
  <2>2. CASE xs # <<>>
    <3>. DEFINE t == Tail(xs)
                a == Append(t, "cb")
    <3>1. k # 0
      BY <1>1, <2>2, EmptySeq
    <3>2. t \in Seq(Value) /\ Len(t) = k - 1 /\ \A i \in 1..Len(t) : t[i] = xs[i + 1]
      BY <1>1, <2>2, HeadTailProperties
    <3>. HIDE DEF t
    <3>3. /\ a \in Seq(Value) /\ Len(a) = Len(t) + 1
          /\ \A j \in 1..Len(t) : a[j] = t[j]
          /\ a[Len(t) + 1] = "cb"
      BY <3>2, Names, Pushed1
    <3>4. y = a
      BY <2>2 DEF Shifted, t
    <3>. HIDE DEF a, k, y
    <3>5. a \in Seq(Value) /\ Len(a) = k
      BY <1>1, <3>1, <3>2, <3>3
    <3>6. ASSUME NEW i \in 1..k PROVE a[i] = IF i = k THEN "cb" ELSE xs[i + 1]
      <4>1. CASE i = k
        <5>1. Len(t) + 1 = i
          BY <1>1, <3>2, <4>1
        <5>. QED BY <3>3, <4>1, <5>1
      <4>2. CASE i # k
        <5>1. i \in 1..Len(t)
          BY <1>1, <3>2, <4>2
        <5>. QED BY <3>2, <3>3, <4>2, <5>1
      <4>. QED BY <4>1, <4>2
    <3>. QED BY <3>4, <3>5, <3>6
  <2>. QED BY <2>1, <2>2
<1>. HIDE DEF y
<1>7. /\ e \o y \in Seq(Value) /\ Len(e \o y) = Len(e) + Len(y)
      /\ \A j \in 1..Len(e) : (e \o y)[j] = e[j]
      /\ \A j \in 1..Len(y) : (e \o y)[Len(e) + j] = y[j]
  BY <1>3, <1>6, Joined
<1>8. ASSUME NEW i \in 1..k PROVE q[2 + i] = (e \o y)[2 + i]
  <2>1. (e \o y)[2 + i] = y[i]
    BY <1>3, <1>6, <1>7
  <2>2. CASE i = k
    BY <1>5, <1>6, <2>1, <2>2
  <2>3. CASE i # k
    <3>1. i + 1 \in 1..k /\ 2 + (i + 1) = 3 + i
      BY <1>1, <2>3
    <3>. QED BY <1>5, <1>6, <2>1, <2>3, <3>1
  <2>. QED BY <2>2, <2>3
<1>9. q[1] = (e \o y)[1] /\ q[2] = (e \o y)[2]
  BY <1>3, <1>5, <1>7
<1>10. ASSUME NEW j \in 1..(k + 2) PROVE q[j] = (e \o y)[j]
  <2>1. CASE j = 1 \/ j = 2
    BY <1>9, <2>1
  <2>2. CASE j # 1 /\ j # 2
    <3>1. j - 2 \in 1..k /\ 2 + (j - 2) = j
      BY <1>1, <2>2
    <3>. QED BY <1>8, <3>1
  <2>. QED BY <2>1, <2>2
<1>11. Len(q) = k + 2 /\ Len(e \o y) = k + 2
  BY <1>1, <1>3, <1>6, <1>7
<1>12. q = e \o y
  <2>1. \A j \in 1..Len(q) : q[j] = (e \o y)[j]
    BY <1>10, <1>11
  <2>. QED BY <1>7, <1>11, <2>1, SeqEqual
<1>. QED BY <1>12 DEF e, y

LEMMA EnterInv ==
  ASSUME NEW f \in IterFunctions, NEW xs \in Extras, Enter(f, xs) PROVE IterInv'
<1>1. /\ phase' = "walk" /\ fn' = f /\ args' = xs /\ throws' = 0 /\ top' = Len(stk')
      /\ stk' = IF f = Send THEN Arguments(4, xs) ELSE Base(f, xs)
  BY SendApart DEF Enter, Base
<1>2. CASE f = Send
  <2>1. /\ stk' \in Seq(Value) /\ Len(stk') = 6 + Len(xs)
        /\ \A j \in 1..Len(xs) : stk'[6 + j] = xs[j]
    <3>. DEFINE s == Arguments(4, xs)
    <3>1. /\ s \in Seq(Value) /\ Len(s) = 4 + 2 + Len(xs)
          /\ \A j \in 1..Len(xs) : s[4 + 2 + j] = xs[j]
      BY ArgumentFacts
    <3>2. stk' = s
      BY <1>1, <1>2
    <3>. HIDE DEF s
    <3>. QED BY <3>1, <3>2
  <2>2. Len(xs) \in Nat /\ \A j \in 1..Len(xs) : xs[j] # "cb"
    BY IterAssumption, LenProperties
  <2>3. \A j \in 7..Len(stk') : stk'[j] # "cb"
    <3>. SUFFICES ASSUME NEW j \in 7..Len(stk') PROVE stk'[j] # "cb"
      OBVIOUS
    <3>1. j - 6 \in 1..Len(xs) /\ 6 + (j - 6) = j
      BY <2>1, <2>2
    <3>. QED BY <2>1, <2>2, <3>1
  <2>4. Len(stk') >= 6
    BY <2>1, <2>2
  <2>. QED BY <1>1, <1>2, <2>1, <2>3, <2>4, SendApart
       DEF IterInv, Running, CalleeShape, PlainShape, SendShape, CallbackGetsShifted,
           MisfitsCallOthers, IterResults
<1>3. CASE f # Send
  <2>1. f \in DOMAIN Walks /\ stk' = Base(f, xs)
    BY <1>1, <1>3 DEF IterFunctions
  <2>2. /\ stk' \in Seq(Value) /\ Len(stk') >= 2 /\ (f \in Misfits => stk'[2] = "param")
    BY <2>1, BaseFacts
  <2>3. stk' = Base(f, xs) \o Leftovers(0)
    BY <2>1, <2>2, LeftoversOfFew, ConcatEmptySeq
  <2>4. PlainShape'
    BY <1>1, <2>1, <2>3 DEF PlainShape, Running, Base
  <2>. QED BY <1>1, <1>3, <2>2, <2>4
       DEF IterInv, Running, CalleeShape, SendShape, CallbackGetsShifted,
           MisfitsCallOthers, IterResults
<1>. QED BY <1>2, <1>3

LEMMA CallbackInv == ASSUME IterInv, Callback PROVE IterInv'
<1>. DEFINE n == Len(stk) - 1
            p == Pushed(stk, n)
<1>1. /\ fn \in DOMAIN Walks /\ phase = "walk" /\ phase' = "call"
      /\ throws > 0 => fn \in GoesOn \cup {"foreach_mountpoint"}
      /\ call' = SubSeq(p, Len(p) - n, Len(p))
      /\ stk' = SubSeq(p, 1, Len(p) - n - 1)
      /\ fn' = fn /\ top' = top /\ args' = args /\ throws' = throws
  BY DEF Callback, Nargs
<1>2. /\ fn \in IterFunctions /\ args \in Extras /\ stk \in Seq(Value) /\ throws \in Nat
      /\ Len(stk) >= 2 /\ (fn \in Misfits => stk[2] = "param")
  BY <1>1 DEF IterInv, Running, CalleeShape
<1>3. Len(stk) \in Nat /\ n \in Nat /\ 1 <= n /\ n <= Len(stk) /\ Len(stk) + 1 - n = 2
  BY <1>2, LenProperties
<1>. HIDE DEF n
<1>4. /\ stk' = stk
      /\ call' \in Seq(Value) /\ Len(call') = n + 1
      /\ call'[1] = stk[2] /\ call'[2] = "handle"
      /\ \A i \in 1..(n - 1) : call'[2 + i] = IF i = n - 1 THEN stk[2] ELSE stk[2 + 1 + i]
  <2>. DEFINE q == SubSeq(p, Len(p) - n, Len(p))
              c == Len(stk) + 1 - n
  <2>1. /\ SubSeq(p, 1, Len(p) - n - 1) = stk
        /\ q \in Seq(Value) /\ Len(q) = n + 1
        /\ q[1] = stk[c] /\ q[2] = "handle"
        /\ \A i \in 1..(n - 1) : q[2 + i] = IF i = n - 1 THEN stk[c] ELSE stk[c + 1 + i]
    BY <1>2, <1>3, CallFacts
  <2>2. call' = q /\ c = 2
    BY <1>1, <1>3
  <2>. HIDE DEF p, q, c
  <2>3. stk' = stk
    BY <1>1, <2>1
  <2>. QED BY <2>1, <2>2, <2>3
<1>5. fn \notin Misfits => call' = <<"cb", "handle">> \o Shifted(args \o Leftovers(throws))
  <2>. SUFFICES ASSUME fn \notin Misfits
                PROVE  call' = <<"cb", "handle">> \o Shifted(args \o Leftovers(throws))
    OBVIOUS
  <2>. DEFINE xs == args \o Leftovers(throws)
              d == <<"hdl", "cb">>
  <2>1. fn # "foreach_mountpoint"
    <3>1. fn \in DOMAIN Walks /\ Fits(Walks[fn])
      BY <1>1, MisfitFacts
    <3>2. ~Fits(Walks["foreach_mountpoint"])
      BY MountUnfit DEF Fits, Unfits, Walk
    <3>. QED BY <3>1, <3>2
  <2>2. stk = Base(fn, args) \o Leftovers(throws)
    BY <1>1, <2>1 DEF IterInv, PlainShape, Running
  <2>3. args \in Seq(Value) /\ Leftovers(throws) \in Seq(Value) /\ d \in Seq(Value) /\ Len(d) = 2
    BY <1>2, ExtraFacts, LeftoverFacts, Names, Two
  <2>4. Base(fn, args) = d \o args
    BY <1>1, <1>2, BaseFacts
  <2>. HIDE DEF d
  <2>5. stk = d \o xs
    BY <2>2, <2>3, <2>4, Regrouped
  <2>6. xs \in Seq(Value) /\ Len(xs) \in Nat
    BY <2>3, Joined, LenProperties
  <2>. HIDE DEF xs
  <2>7. Len(stk) = 2 + Len(xs)
    <3>1. Len(d \o xs) = Len(d) + Len(xs)
      BY <2>3, <2>6, Joined
    <3>. QED BY <2>3, <2>5, <3>1
  <2>8. n - 1 = Len(xs) /\ n + 1 = Len(xs) + 2
    BY <2>6, <2>7 DEF n
  <2>9. \A i \in 1..Len(xs) : call'[2 + i] = IF i = Len(xs) THEN stk[2] ELSE stk[3 + i]
    BY <1>4, <2>8
  <2>10. ASSUME NEW q, q = call' PROVE q = <<"cb", "handle">> \o Shifted(xs)
    <3>1. /\ q \in Seq(Value) /\ Len(q) = Len(xs) + 2 /\ q[1] = stk[2] /\ q[2] = "handle"
          /\ \A i \in 1..Len(xs) : q[2 + i] = IF i = Len(xs) THEN stk[2] ELSE stk[3 + i]
      BY <1>4, <2>8, <2>9, <2>10
    <3>2. stk = <<"hdl", "cb">> \o xs
      BY <2>5 DEF d
    <3>. QED BY <2>6, <3>1, <3>2, ShiftFacts
  <2>. QED BY <2>10 DEF xs
<1>6. fn \in Misfits => call'[1] # "cb"
  BY <1>2, <1>4
<1>7. PlainShape'
  <2>1. fn # "foreach_mountpoint" => throws = 0 \/ fn \in GoesOn
    BY <1>1, <1>2
  <2>. SUFFICES ASSUME fn \in DOMAIN Walks \ {"foreach_mountpoint"}
                PROVE  /\ top = Len(Base(fn, args)) /\ (throws = 0 \/ fn \in GoesOn)
                       /\ (throws > 1 => fn \in GoesOn)
                       /\ stk = Base(fn, args) \o Leftovers(throws)
    BY <1>1, <1>4 DEF PlainShape, Running, Base
  <2>. QED BY <1>1, <2>1 DEF IterInv, PlainShape, Running
<1>. QED BY <1>1, <1>2, <1>4, <1>5, <1>6, <1>7, SendApart
     DEF IterInv, Running, CalleeShape, SendShape, CallbackGetsShifted,
         MisfitsCallOthers, IterResults

(* A filter with no values above the six: the handle itself is called.     *)
LEMMA NoneAbove ==
  ASSUME NEW s \in Seq(Value)
  PROVE  LET p == Pushed(s, 0)
         IN  /\ SubSeq(p, Len(p) - 0, Len(p)) = <<"handle">>
             /\ SubSeq(p, 1, Len(p) - 0 - 1) = Append(s, Junk)
<1>. DEFINE L == Len(s)
            a == Append(s, Junk)
            t == Append(a, "handle")
<1>1. L \in Nat
  BY LenProperties
<1>2. /\ a \in Seq(Value) /\ Len(a) = L + 1
  BY Names, Pushed1
<1>3. PushValue(s, 0) = a
  BY <1>1 DEF PushValue, At
<1>. HIDE DEF a
<1>4. /\ t \in Seq(Value) /\ Len(t) = L + 2 /\ t[L + 2] = "handle"
      /\ \A j \in 1..(L + 1) : t[j] = a[j]
  <2>1. /\ t \in Seq(Value) /\ Len(t) = Len(a) + 1 /\ t[Len(a) + 1] = "handle"
        /\ \A j \in 1..Len(a) : t[j] = a[j]
    BY <1>2, Names, Pushed1
  <2>. QED BY <1>1, <1>2, <2>1
<1>5. Pushed(s, 0) = t
  <2>1. Pushed(s, 0) = t \o [i \in 1..(0 - 1) |-> At(t, i - 1 - 0)]
    BY <1>3 DEF Pushed
  <2>2. [i \in 1..(0 - 1) |-> At(t, i - 1 - 0)] = <<>>
    OBVIOUS
  <2>. HIDE DEF t
  <2>3. t \o <<>> = t
    BY <1>4, ConcatEmptySeq
  <2>. QED BY <2>1, <2>2, <2>3
<1>. HIDE DEF t, L
<1>6. SubSeq(t, L + 2, L + 2) = <<"handle">>
  <2>. DEFINE u == SubSeq(t, L + 2, L + 2)
              v == <<"handle">>
  <2>1. /\ u \in Seq(Value) /\ Len(u) = (L + 2) - (L + 2) + 1
        /\ \A j \in 1..((L + 2) - (L + 2) + 1) : u[j] = t[L + 2 + j - 1]
    BY <1>1, <1>4, Cut
  <2>2. v \in Seq(Value) /\ Len(v) = 1 /\ v[1] = "handle"
    BY Names, One
  <2>. HIDE DEF u, v
  <2>3. Len(u) = 1 /\ u[1] = "handle"
    BY <1>1, <1>4, <2>1
  <2>4. u = v
    BY <2>1, <2>2, <2>3, SeqEqual
  <2>. QED BY <2>4 DEF u, v
<1>7. SubSeq(t, 1, L + 1) = a
  <2>. DEFINE u == SubSeq(t, 1, L + 1)
  <2>1. /\ u \in Seq(Value) /\ Len(u) = L + 1 - 1 + 1
        /\ \A j \in 1..(L + 1 - 1 + 1) : u[j] = t[1 + j - 1]
    BY <1>1, <1>4, Cut
  <2>. HIDE DEF u
  <2>2. Len(u) = L + 1 /\ \A j \in 1..(L + 1) : u[j] = a[j]
    BY <1>1, <1>4, <2>1
  <2>3. u = a
    BY <1>2, <2>1, <2>2, SeqEqual
  <2>. QED BY <2>3 DEF u
<1>8. Len(t) - 0 = L + 2 /\ Len(t) - 0 - 1 = L + 1 /\ Len(t) = L + 2
  BY <1>1, <1>4
<1>. QED BY <1>5, <1>6, <1>7, <1>8 DEF a

LEMMA FilterInv == ASSUME IterInv, FilterCallback PROVE IterInv'
<1>. DEFINE n == Len(stk) - 6
            p == Pushed(stk, n)
<1>1. /\ fn = Send /\ phase = "walk" /\ phase' = "call"
      /\ call' = SubSeq(p, Len(p) - n, Len(p))
      /\ stk' = SubSeq(p, 1, Len(p) - n - 1)
      /\ fn' = fn /\ top' = top /\ args' = args /\ throws' = throws
  BY DEF FilterCallback, FilterNargs
<1>2. /\ fn \in IterFunctions /\ args \in Extras /\ stk \in Seq(Value) /\ throws \in Nat
      /\ Len(stk) >= 6 /\ \A j \in 7..Len(stk) : stk[j] # "cb"
  BY <1>1 DEF IterInv, Running, SendShape
<1>3. Len(stk) \in Nat /\ n \in Nat /\ n <= Len(stk)
  BY <1>2, LenProperties
<1>4. /\ stk' \in Seq(Value) /\ Len(stk') >= 6 /\ \A j \in 7..Len(stk') : stk'[j] # "cb"
      /\ call'[1] # "cb"
  <2>1. CASE n = 0
    <3>. HIDE DEF n
    <3>1. call' = <<"handle">> /\ stk' = Append(stk, Junk)
      BY <1>1, <1>2, <2>1, NoneAbove
    <3>2. /\ Append(stk, Junk) \in Seq(Value) /\ Len(Append(stk, Junk)) = Len(stk) + 1
          /\ \A j \in 1..Len(stk) : Append(stk, Junk)[j] = stk[j]
          /\ Append(stk, Junk)[Len(stk) + 1] = Junk
      BY <1>2, Names, Pushed1
    <3>3. Junk # "cb"
      BY DEF Junk
    <3>4. ASSUME NEW j \in 7..(Len(stk) + 1) PROVE Append(stk, Junk)[j] # "cb"
      <4>1. CASE j = Len(stk) + 1
        BY <3>2, <3>3, <4>1
      <4>2. CASE j # Len(stk) + 1
        <5>1. j \in 7..Len(stk) /\ j \in 1..Len(stk)
          BY <1>3, <4>2
        <5>. QED BY <1>2, <3>2, <5>1
      <4>. QED BY <4>1, <4>2
    <3>5. call'[1] # "cb"
      BY <3>1
    <3>. HIDE DEF p
    <3>6. Len(stk') = Len(stk) + 1
      BY <3>1, <3>2
    <3>7. stk' \in Seq(Value)
      BY <3>1, <3>2
    <3>8. \A j \in 7..Len(stk') : stk'[j] # "cb"
      BY <3>1, <3>4, <3>6
    <3>. QED BY <1>2, <1>3, <3>5, <3>6, <3>7, <3>8
  <2>2. CASE n # 0
    <3>. DEFINE q == SubSeq(p, Len(p) - n, Len(p))
                c == Len(stk) + 1 - n
    <3>1. 1 <= n /\ c = 7 /\ 7 \in 7..Len(stk)
      <4>1. ASSUME NEW k \in Nat, k - 6 \in Nat, k - 6 # 0
            PROVE  1 <= k - 6 /\ k + 1 - (k - 6) = 7 /\ 7 <= k
        BY <4>1
      <4>2. 1 <= n /\ c = 7 /\ 7 <= Len(stk)
        BY <1>3, <2>2, <4>1
      <4>. QED BY <1>3, <4>2
    <3>. HIDE DEF n
    <3>2. SubSeq(p, 1, Len(p) - n - 1) = stk /\ q[1] = stk[c]
      BY <1>2, <1>3, <3>1, CallFacts
    <3>. HIDE DEF c
    <3>3. stk' = stk /\ call' = q
      BY <1>1, <3>2
    <3>. HIDE DEF q, p
    <3>4. stk[7] # "cb"
      BY <1>2, <3>1
    <3>5. call'[1] # "cb"
      BY <3>1, <3>2, <3>3, <3>4
    <3>. QED BY <1>2, <3>3, <3>5
  <2>. QED BY <2>1, <2>2
<1>. HIDE DEF n, p
<1>5. fn' \in IterFunctions /\ args' \in Extras /\ fn' = Send /\ Send \notin DOMAIN Walks
  BY <1>1, <1>2, SendApart
<1>6. Send \in Misfits
  BY MisfitFacts
<1>. QED BY <1>1, <1>2, <1>4, <1>5, <1>6
     DEF IterInv, Running, CalleeShape, PlainShape, SendShape, CallbackGetsShifted,
         MisfitsCallOthers, IterResults

LEMMA ReturnsInv == ASSUME IterInv, Returns PROVE IterInv'
<1>1. /\ phase = "call" /\ phase' = "walk" /\ fn' = fn /\ stk' = stk /\ top' = top
      /\ args' = args /\ throws' = throws
  BY DEF Returns
<1>2. PlainShape'
  BY <1>1 DEF IterInv, PlainShape, Running, Base
<1>. QED BY <1>1, <1>2
     DEF IterInv, Running, CalleeShape, SendShape, CallbackGetsShifted, MisfitsCallOthers,
         IterResults

LEMMA ThrowsInv == ASSUME IterInv, Throws PROVE IterInv'
<1>1. /\ phase = "call" /\ phase' = "walk" /\ fn' = fn /\ top' = top /\ args' = args
      /\ throws' = throws + 1
  BY DEF Throws
<1>2. fn \in IterFunctions /\ args \in Extras /\ stk \in Seq(Value)
  BY <1>1 DEF IterInv, Running
<1>3. Len(stk) \in Nat
  BY <1>2, LenProperties
<1>4. CASE fn = Send
  <2>1. stk' = Append(stk, "error")
    BY <1>4 DEF Throws
  <2>2. Len(stk) >= 6 /\ \A j \in 7..Len(stk) : stk[j] # "cb"
    BY <1>1, <1>4 DEF IterInv, Running, SendShape
  <2>3. /\ Append(stk, "error") \in Seq(Value) /\ Len(Append(stk, "error")) = Len(stk) + 1
        /\ \A j \in 1..Len(stk) : Append(stk, "error")[j] = stk[j]
        /\ Append(stk, "error")[Len(stk) + 1] = "error"
    BY <1>2, Names, Pushed1
  <2>4. ASSUME NEW j \in 7..(Len(stk) + 1) PROVE Append(stk, "error")[j] # "cb"
    <3>1. CASE j = Len(stk) + 1
      BY <2>3, <3>1
    <3>2. CASE j # Len(stk) + 1
      <4>1. j \in 7..Len(stk) /\ j \in 1..Len(stk)
        BY <1>3, <3>2
      <4>. QED BY <2>2, <2>3, <4>1
    <3>. QED BY <3>1, <3>2
  <2>5. stk' \in Seq(Value) /\ Len(stk') = Len(stk) + 1
    BY <2>1, <2>3
  <2>6. \A j \in 7..Len(stk') : stk'[j] # "cb"
    BY <2>1, <2>4, <2>5
  <2>7. Len(stk') >= 6
    BY <1>3, <2>2, <2>5
  <2>. QED BY <1>1, <1>2, <1>4, <2>5, <2>6, <2>7, SendApart
       DEF IterInv, Running, CalleeShape, PlainShape, SendShape, CallbackGetsShifted,
           MisfitsCallOthers, IterResults
<1>5. CASE fn # Send
  <2>. DEFINE d == <<Nil, "error">>
  <2>1. fn \in DOMAIN Walks /\ stk' = stk \o d
    BY <1>2, <1>5, SwapFacts DEF Throws, IterFunctions
  <2>2. Len(stk) >= 2 /\ (fn \in Misfits => stk[2] = "param")
    BY <1>1, <2>1 DEF IterInv, Running, CalleeShape
  <2>3. d \in Seq(Value) /\ Len(d) = 2
    BY Names, Two
  <2>. HIDE DEF d
  <2>4. /\ stk \o d \in Seq(Value) /\ Len(stk \o d) = Len(stk) + Len(d)
        /\ \A j \in 1..Len(stk) : (stk \o d)[j] = stk[j]
    BY <1>2, <2>3, Joined
  <2>5. stk' \in Seq(Value) /\ Len(stk') >= 2 /\ (fn \in Misfits => stk'[2] = "param")
    <3>1. 2 \in 1..Len(stk)
      BY <1>3, <2>2
    <3>2. (stk \o d)[2] = stk[2]
      BY <2>4, <3>1
    <3>3. Len(stk \o d) >= 2
      BY <1>3, <2>2, <2>3, <2>4
    <3>. QED BY <2>1, <2>2, <2>4, <3>2, <3>3
  <2>6. PlainShape'
    <3>. SUFFICES ASSUME fn \in DOMAIN Walks \ {"foreach_mountpoint"}
                  PROVE  /\ top = Len(Base(fn, args))
                         /\ throws + 1 > 1 => fn \in GoesOn
                         /\ stk' = Base(fn, args) \o Leftovers(throws + 1)
      BY <1>1 DEF PlainShape, Running, Base
    <3>1. /\ top = Len(Base(fn, args)) /\ (throws = 0 \/ fn \in GoesOn) /\ throws \in Nat
          /\ stk = Base(fn, args) \o Leftovers(throws)
      BY <1>1 DEF IterInv, PlainShape, Running
    <3>2. Base(fn, args) \in Seq(Value) /\ Leftovers(throws) \in Seq(Value)
      BY <1>2, <2>1, <3>1, BaseFacts, LeftoverFacts
    <3>3. Leftovers(throws + 1) = Leftovers(throws) \o d
      BY <3>1, LeftoversGrow DEF d
    <3>4. stk' = Base(fn, args) \o Leftovers(throws + 1)
      <4>1. stk' = stk \o d /\ stk = Base(fn, args) \o Leftovers(throws)
        BY <2>1, <3>1
      <4>2. stk \o d = Base(fn, args) \o (Leftovers(throws) \o d)
        BY <2>3, <3>2, <4>1, Regrouped
      <4>. QED BY <3>3, <4>1, <4>2
    <3>5. throws + 1 > 1 => fn \in GoesOn
      BY <3>1
    <3>. QED BY <3>1, <3>4, <3>5
  <2>. QED BY <1>1, <1>2, <1>5, <2>1, <2>5, <2>6
       DEF IterInv, Running, CalleeShape, SendShape, CallbackGetsShifted,
           MisfitsCallOthers, IterResults
<1>. QED BY <1>4, <1>5

LEMMA FailedInv == ASSUME IterInv, FailedWalk PROVE IterInv'
<1>1. /\ fn \in DOMAIN Walks \ {"foreach_mountpoint"} /\ phase = "walk" /\ phase' = "done"
      /\ res' = IF Len(stk) > top THEN SubSeq(stk, top + 1, Len(stk)) ELSE <<Nil, "failed">>
      /\ fn' = fn /\ throws' = throws
  BY DEF FailedWalk
<1>. DEFINE b == Base(fn, args)
            d == Leftovers(throws)
            s == b \o d
            u == SubSeq(s, Len(b) + 1, Len(s))
<1>2. /\ throws \in Nat /\ args \in Extras /\ top = Len(b) /\ stk = s
      /\ throws > 1 => fn \in GoesOn
  BY <1>1 DEF IterInv, PlainShape, Running
<1>3. b \in Seq(Value) /\ Len(b) \in Nat
  BY <1>1, <1>2, BaseFacts, LenProperties
<1>4. d \in Seq(Value) /\ Len(d) = 2 * throws
  BY <1>2, LeftoverFacts
<1>. HIDE DEF b, d
<1>5. /\ s \in Seq(Value) /\ Len(s) = Len(b) + Len(d)
      /\ \A j \in 1..Len(d) : s[Len(b) + j] = d[j]
  BY <1>3, <1>4, Joined
<1>6. throws > 0 => res' = d
  <2>. SUFFICES ASSUME throws > 0 PROVE res' = d
    OBVIOUS
  <2>. HIDE DEF s
  <2>1. Len(s) \in Nat /\ Len(d) \in Nat /\ Len(b) + 1 <= Len(s)
    BY <1>2, <1>3, <1>4, <1>5
  <2>2. res' = u
    BY <1>1, <1>2, <1>3, <2>1
  <2>3. /\ u \in Seq(Value) /\ Len(u) = Len(s) - (Len(b) + 1) + 1
        /\ \A j \in 1..(Len(s) - (Len(b) + 1) + 1) : u[j] = s[Len(b) + 1 + j - 1]
    BY <1>3, <1>5, <2>1, Cut
  <2>. HIDE DEF u
  <2>4. Len(u) = Len(d) /\ \A j \in 1..Len(d) : u[j] = s[Len(b) + j]
    BY <1>3, <1>5, <2>1, <2>3
  <2>5. u = d
    BY <1>4, <1>5, <2>3, <2>4, SeqEqual
  <2>. QED BY <2>2, <2>5
<1>7. throws = 0 => res' = <<Nil, "failed">>
  <2>. SUFFICES ASSUME throws = 0 PROVE res' = <<Nil, "failed">>
    OBVIOUS
  <2>. HIDE DEF s, u
  <2>1. Len(s) = Len(b)
    BY <1>3, <1>4, <1>5
  <2>. QED BY <1>1, <1>2, <1>3, <2>1
<1>8. throws = 1 => res' = <<Nil, "error">>
  BY <1>6, LeftoversOfFew DEF d
<1>9. throws > 1 => res' = Leftovers(throws) /\ fn \in GoesOn
  BY <1>2, <1>6 DEF d
<1>10. throws = 0 \/ throws = 1 \/ throws > 1
  BY <1>2
<1>11. IterResults'
  BY <1>1, <1>7, <1>8, <1>9, <1>10 DEF IterResults
<1>. QED BY <1>1, <1>2, <1>11
     DEF IterInv, Running, CalleeShape, PlainShape, SendShape, CallbackGetsShifted,
         MisfitsCallOthers

LEMMA FinishedInv == ASSUME IterInv, FinishedWalk PROVE IterInv'
<1>1. /\ phase' = "done" /\ throws' = throws /\ fn' = fn /\ throws \in Nat
      /\ throws > 0 => fn = "foreach_mountpoint"
      /\ fn # "foreach_mountpoint" => res' = <<"true">>
  BY DEF FinishedWalk, IterInv
<1>. QED BY <1>1
     DEF IterInv, Running, CalleeShape, PlainShape, SendShape, CallbackGetsShifted,
         MisfitsCallOthers, IterResults

LEMMA OutsideInv == ASSUME IterInv, FinishedSend \/ HandBack PROVE IterInv'
<1>1. CASE FinishedSend
  <2>1. phase' = "done" /\ throws' = throws /\ fn' = Send /\ throws \in Nat
    BY <1>1 DEF FinishedSend, IterInv
  <2>. QED BY <2>1
       DEF IterInv, Running, CalleeShape, PlainShape, SendShape, CallbackGetsShifted,
           MisfitsCallOthers, IterResults
<1>2. CASE HandBack
  BY <1>2
     DEF HandBack, IterInv, Running, CalleeShape, PlainShape, SendShape, CallbackGetsShifted,
         MisfitsCallOthers, IterResults
<1>. QED BY <1>1, <1>2

LEMMA IterStep == ASSUME IterInv, [IterNext]_iterVars PROVE IterInv'
<1>1. CASE IterNext
  BY <1>1, EnterInv, CallbackInv, FilterInv, ReturnsInv, ThrowsInv, FailedInv, FinishedInv,
     OutsideInv DEF IterNext
<1>2. CASE UNCHANGED iterVars
  BY <1>2
     DEF iterVars, IterInv, Running, CalleeShape, PlainShape, SendShape, Base,
         CallbackGetsShifted, MisfitsCallOthers, IterResults
<1>. QED BY <1>1, <1>2

LEMMA IterStart == ASSUME IterInit PROVE IterInv
BY DEF IterInit, IterInv, Running, CalleeShape, PlainShape, SendShape, CallbackGetsShifted,
       MisfitsCallOthers, IterResults
-----------------------------------------------------------------------------
(* The stack of a running iterator is the one Enter left, with fail and a  *)
(* message above it for every callback that has raised an error, also when *)
(* libzfs calls on after that (lua_zfs.c:592, :1569).                      *)
THEOREM IterInvariant == IterSpec => []IterInv
<1>. QED BY IterStart, IterStep, PTL DEF IterSpec

(* The results of an iterator are true, fail and its own message, or       *)
(* exactly the pairs of fail and message that callbacks left, more than    *)
(* one only where libzfs goes on: whatever additional arguments share the  *)
(* stack, however many handles are visited and callbacks fail              *)
(* (lua_zfs.c:592, :1569).                                                 *)
THEOREM ResultsRight == IterSpec => []IterResults
<1>1. IterInv => IterResults
  BY DEF IterInv
<1>. QED BY <1>1, IterInvariant, PTL

(* What the callback really gets, for every list of additional arguments   *)
(* and after any number of callbacks that raised an error: the handle, the *)
(* arguments and leftovers from the second on, and then itself             *)
(* (lua_zfs.c:585).                                                        *)
THEOREM ArgsShifted == IterSpec => []CallbackGetsShifted
<1>1. IterInv => CallbackGetsShifted
  BY DEF IterInv
<1>. QED BY <1>1, IterInvariant, PTL

(* The functions that remove two parameters or more, and the filter of     *)
(* send, never call the callback they were given: what they call is a      *)
(* parameter, an additional argument, a leftover or the handle itself      *)
(* (lua_zfs.c:1623, :2185).                                                *)
THEOREM MisfitsNeverCall == IterSpec => []MisfitsCallOthers
<1>1. IterInv => MisfitsCallOthers
  BY DEF IterInv
<1>. QED BY <1>1, IterInvariant, PTL
=============================================================================
