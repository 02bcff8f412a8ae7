--------------------------- MODULE RcObjectProofs ---------------------------
(***************************************************************************)
(* For any number of threads, objects and userdata: the reference counts   *)
(* of RcObject are exact and nothing reaches freed memory.                 *)
(***************************************************************************)
EXTENDS RcObject, FiniteSetTheorems, TLAPS

(* A userdata that exists holds an object, and one that does not exist     *)
(* holds none.                                                             *)
HandleShape ==
  \A h \in Handles : (owner[h] # Nil) <=> (cookie[h] # Nil)

(* A thread inside a binding works on an object; a method call works on    *)
(* the object of its userdata argument, which its Lua stack keeps alive.   *)
CallShape ==
  \A t \in Threads :
    /\ (at[t] # "idle") <=> (obj[t] # Nil)
    /\ (at[t] = "call") <=> (arg[t] # Nil)
    /\ at[t] = "call" => owner[arg[t]] = t /\ cookie[arg[t]] = obj[t]

(* The thread about to free an object saw its count reach zero, and it is  *)
(* the only such thread.                                                   *)
FreeShape ==
  /\ \A t \in Threads : at[t] = "free" => refs[obj[t]] = 0
  /\ \A t, u \in Threads :
       at[t] = "free" /\ at[u] = "free" /\ obj[t] = obj[u] => t = u

FreshShape == \A o \in Objects : mem[o] = "none" => lost[o] = 0

RcInv ==
  /\ RcTypeOK
  /\ HandleShape
  /\ CallShape
  /\ FreeShape
  /\ FreshShape
  /\ NoUseAfterFree
  /\ RefsCountHolders
-----------------------------------------------------------------------------
(* The two holder sets are finite, so their cardinalities count them.      *)
LEMMA HolderSets ==
  ASSUME NEW o \in Objects
  PROVE  /\ IsFiniteSet(Holders(o)) /\ Cardinality(Holders(o)) \in Nat
         /\ IsFiniteSet(Wrapping(o)) /\ Cardinality(Wrapping(o)) \in Nat
  <1>1. Holders(o) \subseteq Handles /\ Wrapping(o) \subseteq Threads
    BY DEF Holders, Wrapping
  <1>2. IsFiniteSet(Holders(o)) /\ IsFiniteSet(Wrapping(o))
    BY <1>1, RcAssumption, FS_Subset DEF RcAssumption
  <1> QED BY <1>2, FS_CardinalityType

(* The set of userdata of an object is non-empty when it has one.          *)
LEMMA SomeHolder ==
  ASSUME NEW o \in Objects, Holders(o) # {}
  PROVE  Cardinality(Holders(o)) > 0
  BY HolderSets, FS_EmptySet

(* A count of zero means that no userdata is left.                         *)
LEMMA NoReference ==
  ASSUME NEW o \in Objects,
         Cardinality(Holders(o)) + Cardinality(Wrapping(o)) + lost[o] = 0,
         lost[o] \in Nat
  PROVE  Holders(o) = {} /\ Wrapping(o) = {}
  <1>1. Cardinality(Holders(o)) = 0 /\ Cardinality(Wrapping(o)) = 0
    BY HolderSets
  <1> QED BY <1>1, HolderSets, FS_EmptySet
-----------------------------------------------------------------------------
(* Initially there is no object and no userdata.                           *)
LEMMA RcInitInv == RcInit => RcInv
  <1> SUFFICES ASSUME RcInit PROVE RcInv
    OBVIOUS
  <1>1. RcTypeOK
    BY RcAssumption DEF RcInit, RcTypeOK, RcAssumption
  <1>2. HandleShape /\ CallShape /\ FreeShape /\ FreshShape
    BY DEF RcInit, HandleShape, CallShape, FreeShape, FreshShape
  <1>3. NoUseAfterFree /\ RefsCountHolders
    BY DEF RcInit, NoUseAfterFree, RefsCountHolders
  <1> QED BY <1>1, <1>2, <1>3 DEF RcInv

(* A constructor counts its one reference, the one it is wrapping.         *)
LEMMA CreateInv ==
  ASSUME RcInv, NEW t \in Threads, NEW o \in Objects, Create(t, o)
  PROVE  RcInv'
  <1> USE DEF RcInv
  <1>1. RcTypeOK'
    BY DEF RcTypeOK, Create
  <1>2. HandleShape' /\ CallShape' /\ FreshShape'
    BY RcAssumption
    DEF RcAssumption, RcTypeOK, HandleShape, CallShape, FreshShape, Create
  <1>3. \A u \in Threads : at[u] # "idle" => obj[u] # o
    BY DEF Create, NoUseAfterFree, RcTypeOK
  <1>4. FreeShape'
    BY <1>3 DEF FreeShape, Create, RcTypeOK
  <1>5. NoUseAfterFree'
    BY RcAssumption DEF RcAssumption, NoUseAfterFree, Create, RcTypeOK, HandleShape, CallShape
  <1>6. RefsCountHolders'
    <2> SUFFICES ASSUME NEW p \in Objects, mem'[p] = "live"
                 PROVE  refs'[p] = Cardinality(Holders(p)')
                          + Cardinality(Wrapping(p)') + lost'[p]
      BY DEF RefsCountHolders
    <2>1. Holders(p)' = Holders(p)
      BY DEF Holders, Create
    <2>2. CASE p = o
      <3>1. Holders(p) = {} /\ lost[p] = 0
        BY <2>2 DEF Holders, Create, NoUseAfterFree, FreshShape
      <3>2. Wrapping(p)' = {t}
        BY <2>2, <1>3 DEF Wrapping, Create, RcTypeOK
      <3>3. Cardinality(Holders(p)') = 0 /\ Cardinality(Wrapping(p)') = 1
        BY <2>1, <3>1, <3>2, FS_EmptySet, FS_Singleton
      <3> QED BY <2>2, <3>1, <3>3 DEF Create, RcTypeOK
    <2>3. CASE p # o
      <3>1. Wrapping(p)' = Wrapping(p)
        BY <2>3 DEF Wrapping, Create, RcTypeOK
      <3> QED BY <2>1, <2>3, <3>1 DEF Create, RcTypeOK, RefsCountHolders
    <2> QED BY <2>2, <2>3
  <1> QED BY <1>1, <1>2, <1>4, <1>5, <1>6

(* retain counts the reference it is about to wrap; the object has a       *)
(* userdata, so its count is not zero and nobody is freeing it.            *)
LEMMA RetainInv ==
  ASSUME RcInv, NEW t \in Threads, NEW o \in Objects, Retain(t, o)
  PROVE  RcInv'
  <1> USE DEF RcInv
  <1>1. RcTypeOK'
    BY DEF RcTypeOK, Retain
  <1>2. HandleShape' /\ CallShape' /\ FreshShape'
    BY RcAssumption
    DEF RcAssumption, RcTypeOK, HandleShape, CallShape, FreshShape, Retain
  <1>3. mem[o] = "live"
    BY DEF Retain, Holders, NoUseAfterFree
  <1>4. refs[o] > 0
    BY <1>3, SomeHolder, HolderSets DEF Retain, RefsCountHolders, RcTypeOK
  <1>5. FreeShape'
    BY <1>4 DEF FreeShape, Retain, RcTypeOK
  <1>6. NoUseAfterFree'
    BY <1>3 DEF NoUseAfterFree, Retain, RcTypeOK
  <1>7. RefsCountHolders'
    <2> SUFFICES ASSUME NEW p \in Objects, mem'[p] = "live"
                 PROVE  refs'[p] = Cardinality(Holders(p)')
                          + Cardinality(Wrapping(p)') + lost'[p]
      BY DEF RefsCountHolders
    <2>1. Holders(p)' = Holders(p)
      BY DEF Holders, Retain
    <2>2. CASE p = o
      <3>1. Wrapping(p)' = Wrapping(p) \cup {t} /\ t \notin Wrapping(p)
        BY <2>2 DEF Wrapping, Retain, RcTypeOK
      <3>2. Cardinality(Wrapping(p)') = Cardinality(Wrapping(p)) + 1
        BY <3>1, HolderSets, FS_AddElement
      <3> QED BY <2>1, <2>2, <3>2, <1>3, HolderSets
              DEF Retain, RcTypeOK, RefsCountHolders
    <2>3. CASE p # o
      <3>1. Wrapping(p)' = Wrapping(p)
        BY <2>3 DEF Wrapping, Retain, RcTypeOK
      <3> QED BY <2>1, <2>3, <3>1 DEF Retain, RcTypeOK, RefsCountHolders
    <2> QED BY <2>2, <2>3
  <1> QED BY <1>1, <1>2, <1>5, <1>6, <1>7

(* new() turns the reference being wrapped into a userdata.                *)
LEMMA WrapInv ==
  ASSUME RcInv, NEW t \in Threads, NEW h \in Handles, Wrap(t, h)
  PROVE  RcInv'
  <1> USE DEF RcInv
  <1>1. obj[t] \in Objects /\ mem[obj[t]] = "live"
    BY DEF RcTypeOK, CallShape, NoUseAfterFree, Wrap
  <1>2. RcTypeOK'
    BY DEF RcTypeOK, Wrap
  <1>3. HandleShape' /\ FreeShape' /\ FreshShape'
    BY <1>1, RcAssumption
    DEF RcAssumption, RcTypeOK, HandleShape, FreeShape, FreshShape, Wrap
  <1>4. CallShape'
    BY RcAssumption DEF RcAssumption, RcTypeOK, CallShape, Wrap
  <1>5. NoUseAfterFree'
    BY <1>1 DEF NoUseAfterFree, Wrap, RcTypeOK
  <1>6. RefsCountHolders'
    <2> SUFFICES ASSUME NEW p \in Objects, mem'[p] = "live"
                 PROVE  refs'[p] = Cardinality(Holders(p)')
                          + Cardinality(Wrapping(p)') + lost'[p]
      BY DEF RefsCountHolders
    <2>1. CASE p = obj[t]
      <3>1. Holders(p)' = Holders(p) \cup {h} /\ h \notin Holders(p)
        BY <2>1, RcAssumption DEF RcAssumption, Holders, Wrap, RcTypeOK
      <3>2. Wrapping(p)' = Wrapping(p) \ {t} /\ t \in Wrapping(p)
        BY <2>1 DEF Wrapping, Wrap, RcTypeOK
      <3>3. Cardinality(Holders(p)') = Cardinality(Holders(p)) + 1
        BY <3>1, HolderSets, FS_AddElement
      <3>4. Cardinality(Wrapping(p)') = Cardinality(Wrapping(p)) - 1
        BY <3>2, HolderSets, FS_RemoveElement
      <3> QED BY <2>1, <3>3, <3>4, <1>1, HolderSets
              DEF Wrap, RcTypeOK, RefsCountHolders
    <2>2. CASE p # obj[t]
      <3>1. Holders(p)' = Holders(p) /\ Wrapping(p)' = Wrapping(p)
        BY <2>2, RcAssumption DEF RcAssumption, Holders, Wrapping, Wrap, RcTypeOK
      <3> QED BY <3>1 DEF Wrap, RefsCountHolders
    <2> QED BY <2>1, <2>2
  <1> QED BY <1>2, <1>3, <1>4, <1>5, <1>6

(* A failed allocation turns the reference being wrapped into a lost one.  *)
LEMMA WrapFailsInv ==
  ASSUME RcInv, NEW t \in Threads, WrapFails(t)
  PROVE  RcInv'
  <1> USE DEF RcInv
  <1>1. obj[t] \in Objects /\ mem[obj[t]] = "live"
    BY DEF RcTypeOK, CallShape, NoUseAfterFree, WrapFails
  <1>2. RcTypeOK'
    BY <1>1 DEF RcTypeOK, WrapFails
  <1>3. HandleShape' /\ CallShape' /\ FreeShape' /\ FreshShape'
    BY <1>1 DEF RcTypeOK, HandleShape, CallShape, FreeShape, FreshShape, WrapFails
  <1>4. NoUseAfterFree'
    BY DEF NoUseAfterFree, WrapFails, RcTypeOK
  <1>5. RefsCountHolders'
    <2> SUFFICES ASSUME NEW p \in Objects, mem'[p] = "live"
                 PROVE  refs'[p] = Cardinality(Holders(p)')
                          + Cardinality(Wrapping(p)') + lost'[p]
      BY DEF RefsCountHolders
    <2>1. Holders(p)' = Holders(p)
      BY DEF Holders, WrapFails
    <2>2. CASE p = obj[t]
      <3>1. Wrapping(p)' = Wrapping(p) \ {t} /\ t \in Wrapping(p)
        BY <2>2 DEF Wrapping, WrapFails, RcTypeOK
      <3>2. Cardinality(Wrapping(p)') = Cardinality(Wrapping(p)) - 1
        BY <3>1, HolderSets, FS_RemoveElement
      <3> QED BY <2>1, <2>2, <3>2, <1>1, HolderSets
              DEF WrapFails, RcTypeOK, RefsCountHolders
    <2>3. CASE p # obj[t]
      <3>1. Wrapping(p)' = Wrapping(p) /\ lost'[p] = lost[p]
        BY <2>3 DEF Wrapping, WrapFails, RcTypeOK
      <3> QED BY <2>1, <3>1 DEF WrapFails, RefsCountHolders
    <2> QED BY <2>2, <2>3
  <1> QED BY <1>2, <1>3, <1>4, <1>5

(* __gc gives one reference back.  When it was the last one, no thread is  *)
(* wrapping, calling or freeing the object.                                *)
LEMMA GcInv ==
  ASSUME RcInv, NEW t \in Threads, NEW h \in Handles, Gc(t, h)
  PROVE  RcInv'
  <1> USE DEF RcInv
  <1> DEFINE o == cookie[h]
  <1>1. o \in Objects /\ mem[o] = "live" /\ h \in Holders(o)
    BY RcAssumption
    DEF RcAssumption, RcTypeOK, HandleShape, NoUseAfterFree, Gc, Holders
  <1>2. refs[o] \in Nat /\ refs[o] > 0
    BY <1>1, SomeHolder, HolderSets DEF RefsCountHolders, RcTypeOK
  <1>3. RcTypeOK'
    BY <1>1, <1>2 DEF RcTypeOK, Gc
  <1>4. \A u \in Threads : at[u] = "free" => obj[u] # o
    BY <1>2 DEF FreeShape
  <1>5. HandleShape' /\ FreshShape'
    BY DEF RcTypeOK, HandleShape, FreshShape, Gc
  <1>6. CallShape'
    BY <1>1, RcAssumption DEF RcAssumption, RcTypeOK, CallShape, Gc
  <1>7. FreeShape'
    BY <1>1, <1>2, <1>4 DEF RcTypeOK, FreeShape, CallShape, Gc, LastRelease
  <1>8. NoUseAfterFree'
    BY <1>1 DEF NoUseAfterFree, Gc, RcTypeOK
  <1>9. RefsCountHolders'
    <2> SUFFICES ASSUME NEW p \in Objects, mem'[p] = "live"
                 PROVE  refs'[p] = Cardinality(Holders(p)')
                          + Cardinality(Wrapping(p)') + lost'[p]
      BY DEF RefsCountHolders
    <2>1. Wrapping(p)' = Wrapping(p)
      BY DEF Wrapping, Gc, RcTypeOK
    <2>2. CASE p = o
      <3>1. Holders(p)' = Holders(p) \ {h} /\ h \in Holders(p)
        BY <2>2, <1>1 DEF Holders, Gc, RcTypeOK
      <3>2. Cardinality(Holders(p)') = Cardinality(Holders(p)) - 1
        BY <3>1, HolderSets, FS_RemoveElement
      <3> QED BY <2>1, <2>2, <3>2, <1>1, HolderSets
              DEF Gc, RcTypeOK, RefsCountHolders
    <2>3. CASE p # o
      <3>1. Holders(p)' = Holders(p)
        BY <2>3 DEF Holders, Gc, RcTypeOK
      <3> QED BY <2>1, <2>3, <3>1 DEF Gc, RefsCountHolders, RcTypeOK
    <2> QED BY <2>2, <2>3
  <1> QED BY <1>3, <1>5, <1>6, <1>7, <1>8, <1>9

(* The destroyer is alone with the object it frees.                        *)
LEMMA RcInvExclusive == RcInv => FreeIsExclusive
  <1> SUFFICES ASSUME RcInv, NEW t \in Threads, at[t] = "free"
               PROVE  /\ Holders(obj[t]) = {}
                      /\ \A u \in Threads \ {t} : obj[u] # obj[t]
    BY DEF FreeIsExclusive
  <1> USE DEF RcInv
  <1>1. obj[t] \in Objects /\ mem[obj[t]] = "live" /\ refs[obj[t]] = 0
    BY DEF RcTypeOK, CallShape, NoUseAfterFree, FreeShape
  <1>2. Holders(obj[t]) = {} /\ Wrapping(obj[t]) = {}
    BY <1>1, NoReference DEF RefsCountHolders, RcTypeOK
  <1>3. ASSUME NEW u \in Threads \ {t}, obj[u] = obj[t] PROVE FALSE
    <2>1. obj[u] # Nil /\ at[u] # "idle"
      BY <1>1, <1>3, RcAssumption DEF RcAssumption, CallShape
    <2>2. at[u] # "wrap"
      BY <1>2, <1>3 DEF Wrapping
    <2>3. at[u] # "call"
      BY <1>1, <1>2, <1>3, RcAssumption DEF RcAssumption, Holders, CallShape, RcTypeOK
    <2>4. at[u] # "free"
      BY <1>3 DEF FreeShape
    <2> QED BY <2>1, <2>2, <2>3, <2>4 DEF RcTypeOK
  <1> QED BY <1>2, <1>3

(* Freeing changes nothing for anyone else: nobody else is at the object.  *)
LEMMA FreeInv ==
  ASSUME RcInv, NEW t \in Threads, Free(t)
  PROVE  RcInv'
  <1> USE DEF RcInv
  <1>1. obj[t] \in Objects /\ mem[obj[t]] = "live" /\ at[t] = "free"
    BY DEF RcTypeOK, CallShape, NoUseAfterFree, Free
  <1>2. Holders(obj[t]) = {} /\ \A u \in Threads \ {t} : obj[u] # obj[t]
    BY <1>1, RcInvExclusive DEF FreeIsExclusive
  <1>3. RcTypeOK'
    BY DEF RcTypeOK, Free
  <1>4. HandleShape' /\ CallShape' /\ FreeShape' /\ FreshShape'
    BY <1>1 DEF RcTypeOK, HandleShape, CallShape, FreeShape, FreshShape, Free
  <1>5. \A g \in Handles : owner[g] # Nil => cookie[g] # obj[t]
    BY <1>2 DEF Holders
  <1>6. NoUseAfterFree'
    BY <1>2, <1>5 DEF NoUseAfterFree, Free, RcTypeOK
  <1>7. RefsCountHolders'
    <2> SUFFICES ASSUME NEW p \in Objects, mem'[p] = "live"
                 PROVE  refs'[p] = Cardinality(Holders(p)')
                          + Cardinality(Wrapping(p)') + lost'[p]
      BY DEF RefsCountHolders
    <2>1. Holders(p)' = Holders(p) /\ Wrapping(p)' = Wrapping(p)
      BY DEF Holders, Wrapping, Free, RcTypeOK
    <2>2. mem[p] = "live"
      BY DEF Free, RcTypeOK
    <2> QED BY <2>1, <2>2 DEF Free, RefsCountHolders
  <1> QED BY <1>3, <1>4, <1>6, <1>7

(* A method call and its return leave the references alone.                *)
LEMMA CallInv ==
  ASSUME RcInv, NEW t \in Threads,
         (\E h \in Handles : Enter(t, h)) \/ Leave(t)
  PROVE  RcInv'
  <1> USE DEF RcInv
  <1>1. RcTypeOK'
    BY DEF RcTypeOK, Enter, Leave
  <1>2. HandleShape' /\ FreshShape' /\ FreeShape'
    BY DEF RcTypeOK, HandleShape, FreshShape, FreeShape, Enter, Leave
  <1>3. CallShape'
    <2>1. CASE Leave(t)
      BY <2>1 DEF RcTypeOK, CallShape, Leave
    <2>2. ASSUME NEW h \in Handles, Enter(t, h) PROVE CallShape'
      <3>1. cookie[h] # Nil /\ h # Nil
        BY <2>2, RcAssumption DEF RcAssumption, HandleShape, Enter
      <3> QED BY <2>2, <3>1 DEF RcTypeOK, CallShape, Enter
    <2> QED BY <2>1, <2>2
  <1>4. NoUseAfterFree'
    BY RcAssumption DEF RcAssumption, NoUseAfterFree, RcTypeOK, Enter, Leave
  <1>5. RefsCountHolders'
    <2>1. \A p \in Objects : Holders(p)' = Holders(p) /\ Wrapping(p)' = Wrapping(p)
      BY DEF Holders, Wrapping, Enter, Leave, RcTypeOK
    <2> QED BY <2>1 DEF RefsCountHolders, Enter, Leave
  <1> QED BY <1>1, <1>2, <1>3, <1>4, <1>5

(* RcInv is inductive.                                                     *)
LEMMA RcNextInv == RcInv /\ [RcNext]_rcvars => RcInv'
  <1> SUFFICES ASSUME RcInv, [RcNext]_rcvars PROVE RcInv'
    OBVIOUS
  <1>1. CASE UNCHANGED rcvars
    BY <1>1 DEF rcvars, RcInv, RcTypeOK, HandleShape, CallShape, FreeShape,
                FreshShape, NoUseAfterFree, RefsCountHolders, Holders, Wrapping
  <1>2. CASE RcNext
    <2> PICK t \in Threads :
          \/ \E o \in Objects : Create(t, o) \/ Retain(t, o)
          \/ \E h \in Handles : Wrap(t, h) \/ Gc(t, h) \/ Enter(t, h)
          \/ WrapFails(t)
          \/ Free(t)
          \/ Leave(t)
      BY <1>2 DEF RcNext
    <2>1. ASSUME NEW o \in Objects, Create(t, o) PROVE RcInv'
      BY <2>1, CreateInv
    <2>2. ASSUME NEW o \in Objects, Retain(t, o) PROVE RcInv'
      BY <2>2, RetainInv
    <2>3. ASSUME NEW h \in Handles, Wrap(t, h) PROVE RcInv'
      BY <2>3, WrapInv
    <2>4. ASSUME NEW h \in Handles, Gc(t, h) PROVE RcInv'
      BY <2>4, GcInv
    <2>5. ASSUME NEW h \in Handles, Enter(t, h) PROVE RcInv'
      BY <2>5, CallInv
    <2>6. CASE WrapFails(t)
      BY <2>6, WrapFailsInv
    <2>7. CASE Free(t)
      BY <2>7, FreeInv
    <2>8. CASE Leave(t)
      BY <2>8, CallInv
    <2> QED BY <2>1, <2>2, <2>3, <2>4, <2>5, <2>6, <2>7, <2>8
  <1> QED BY <1>1, <1>2

(* Every reachable state satisfies the inductive invariant.                *)
THEOREM RcInvariant == RcSpec => []RcInv
  <1>1. RcInit => RcInv
    BY RcInitInv
  <1>2. RcInv /\ [RcNext]_rcvars => RcInv'
    BY RcNextInv
  <1> QED BY <1>1, <1>2, PTL DEF RcSpec

(* The variables of the counting protocol keep their types; in particular  *)
(* the unsigned reference counts never pass below zero.                    *)
THEOREM RcTypeCorrect == RcSpec => []RcTypeOK
  <1>1. RcInv => RcTypeOK
    BY DEF RcInv
  <1> QED BY <1>1, RcInvariant, PTL

(* The atomic_refcount of every live object is exact in every state,       *)
(* whatever the interleaving of constructors, retains and collections.     *)
THEOREM RefsExact == RcSpec => []RefsCountHolders
  <1>1. RcInv => RefsCountHolders
    BY DEF RcInv
  <1> QED BY <1>1, RcInvariant, PTL

(* No userdata and no call in progress ever refers to freed memory.        *)
THEOREM MemorySafe == RcSpec => []NoUseAfterFree
  <1>1. RcInv => NoUseAfterFree
    BY DEF RcInv
  <1> QED BY <1>1, RcInvariant, PTL

(* Destruction happens alone: the __gc that saw the last release shares    *)
(* the object with no one.                                                 *)
THEOREM DestroyAlone == RcSpec => []FreeIsExclusive
  BY RcInvExclusive, RcInvariant, PTL
-----------------------------------------------------------------------------
(* Each step of the counting protocol is a step of the abstract object.    *)
LEMMA StepImplements ==
  RcInv /\ RcInv' /\ [RcNext]_rcvars => [Abs!Next]_(Abs!vars)
  <1> DEFINE hs == [o \in Objects |-> Holders(o) \cup Wrapping(o)]
  <1> SUFFICES ASSUME RcInv, RcInv', [RcNext]_rcvars
               PROVE  Abs!Next \/ (mem' = mem /\ hs' = hs)
    BY DEF Abs!vars
  <1> USE DEF RcInv
  <1>1. CASE UNCHANGED rcvars
    BY <1>1 DEF rcvars, Holders, Wrapping
  <1>2. CASE RcNext
    <2> PICK t \in Threads :
          \/ \E o \in Objects : Create(t, o) \/ Retain(t, o)
          \/ \E h \in Handles : Wrap(t, h) \/ Gc(t, h) \/ Enter(t, h)
          \/ WrapFails(t)
          \/ Free(t)
          \/ Leave(t)
      BY <1>2 DEF RcNext
    <2>1. ASSUME NEW o \in Objects, Create(t, o) PROVE Abs!Make(o, t)
      <3>1. \A p \in Objects \ {o} : hs'[p] = hs[p]
        BY <2>1 DEF Holders, Wrapping, Create, RcTypeOK
      <3>2. hs'[o] = {t}
        <4>1. Holders(o)' = {} 
          BY <2>1 DEF Holders, Create, NoUseAfterFree
        <4>2. Wrapping(o)' = {t}
          BY <2>1 DEF Wrapping, Create, NoUseAfterFree, RcTypeOK
        <4> QED BY <4>1, <4>2
      <3>3. hs' = [hs EXCEPT ![o] = {t}]
        BY <3>1, <3>2
      <3> QED BY <2>1, <3>3 DEF Create, Abs!Make
    <2>2. ASSUME NEW o \in Objects, Retain(t, o) PROVE Abs!Share(o, t)
      <3>1. mem[o] = "live"
        BY <2>2 DEF Retain, Holders, NoUseAfterFree
      <3>2. \A p \in Objects \ {o} : hs'[p] = hs[p]
        BY <2>2 DEF Holders, Wrapping, Retain, RcTypeOK
      <3>3. hs'[o] = hs[o] \cup {t} /\ t \notin hs[o] /\ hs[o] # {}
        BY <2>2, RcAssumption DEF RcAssumption, Holders, Wrapping, Retain, RcTypeOK
      <3>4. hs' = [hs EXCEPT ![o] = @ \cup {t}]
        BY <3>2, <3>3
      <3> QED BY <2>2, <3>1, <3>3, <3>4 DEF Retain, Abs!Share
    <2>3. ASSUME NEW h \in Handles, Wrap(t, h) PROVE Abs!Hand(obj[t], t, h)
      <3>1. obj[t] \in Objects /\ mem[obj[t]] = "live"
        BY <2>3 DEF Wrap, CallShape, NoUseAfterFree, RcTypeOK
      <3>2. \A p \in Objects \ {obj[t]} : hs'[p] = hs[p]
        BY <2>3, RcAssumption DEF RcAssumption, Holders, Wrapping, Wrap, RcTypeOK
      <3>3. hs'[obj[t]] = (hs[obj[t]] \ {t}) \cup {h}
        BY <2>3, <3>1, RcAssumption
        DEF RcAssumption, Holders, Wrapping, Wrap, RcTypeOK
      <3>4. t \in hs[obj[t]] /\ h \notin hs[obj[t]]
        BY <2>3, <3>1, RcAssumption
        DEF RcAssumption, Holders, Wrapping, Wrap, RcTypeOK
      <3>5. hs' = [hs EXCEPT ![obj[t]] = (@ \ {t}) \cup {h}]
        BY <3>1, <3>2, <3>3
      <3> QED BY <2>3, <3>1, <3>4, <3>5 DEF Wrap, Abs!Hand
    <2>4. ASSUME NEW h \in Handles, Gc(t, h) PROVE Abs!Drop(cookie[h], h)
      <3>1. cookie[h] \in Objects /\ mem[cookie[h]] = "live"
        BY <2>4, RcAssumption
        DEF RcAssumption, Gc, HandleShape, NoUseAfterFree, RcTypeOK
      <3>2. \A p \in Objects \ {cookie[h]} : hs'[p] = hs[p]
        BY <2>4 DEF Holders, Wrapping, Gc, RcTypeOK
      <3>3. hs'[cookie[h]] = hs[cookie[h]] \ {h} /\ h \in hs[cookie[h]]
        BY <2>4, <3>1, RcAssumption
        DEF RcAssumption, Holders, Wrapping, Gc, RcTypeOK
      <3>4. hs' = [hs EXCEPT ![cookie[h]] = @ \ {h}]
        BY <3>1, <3>2, <3>3
      <3> QED BY <2>4, <3>1, <3>3, <3>4 DEF Gc, Abs!Drop
    <2>5. ASSUME NEW h \in Handles, Enter(t, h) PROVE mem' = mem /\ hs' = hs
      BY <2>5 DEF Enter, Holders, Wrapping, RcTypeOK
    <2>6. CASE WrapFails(t)
      <3>1. obj[t] \in Objects /\ mem[obj[t]] = "live"
        BY <2>6 DEF WrapFails, CallShape, NoUseAfterFree, RcTypeOK
      <3>2. \A p \in Objects \ {obj[t]} : hs'[p] = hs[p]
        BY <2>6 DEF Holders, Wrapping, WrapFails, RcTypeOK
      <3>3. hs'[obj[t]] = hs[obj[t]] \ {t} /\ t \in hs[obj[t]]
        BY <2>6, <3>1, RcAssumption
        DEF RcAssumption, Holders, Wrapping, WrapFails, RcTypeOK
      <3>4. hs' = [hs EXCEPT ![obj[t]] = @ \ {t}]
        BY <3>1, <3>2, <3>3
      <3>5. Abs!Drop(obj[t], t)
        BY <2>6, <3>1, <3>3, <3>4 DEF WrapFails, Abs!Drop
      <3> QED BY <3>1, <3>5 DEF Abs!Next
    <2>7. CASE Free(t)
      <3>1. obj[t] \in Objects /\ mem[obj[t]] = "live" /\ refs[obj[t]] = 0
        BY <2>7 DEF Free, CallShape, FreeShape, NoUseAfterFree, RcTypeOK
      <3>2. hs[obj[t]] = {}
        BY <3>1, NoReference DEF RefsCountHolders, RcTypeOK
      <3>3. hs' = hs
        BY <2>7 DEF Free, Holders, Wrapping, RcTypeOK
      <3>4. Abs!Reclaim(obj[t])
        BY <2>7, <3>1, <3>2, <3>3 DEF Free, Abs!Reclaim
      <3> QED BY <3>1, <3>4 DEF Abs!Next
    <2>8. CASE Leave(t)
      BY <2>8 DEF Leave, Holders, Wrapping, RcTypeOK
    <2>9. \A h \in Handles : Wrap(t, h) => obj[t] \in Objects
      BY DEF Wrap, CallShape, RcTypeOK
    <2>10. \A h \in Handles : Gc(t, h) => cookie[h] \in Objects
      BY RcAssumption DEF RcAssumption, Gc, HandleShape, RcTypeOK
    <2> QED BY <2>1, <2>2, <2>3, <2>4, <2>5, <2>6, <2>7, <2>8, <2>9, <2>10
            DEF Abs!Next
  <1> QED BY <1>1, <1>2

(* The counting protocol implements the object with holder sets: refcounts *)
(* in place of sets lose nothing that matters to the holders.              *)
THEOREM CountingImplementsHolders == RcSpec => ImplementsSharedObject
  <1>1. RcInit => Abs!Init
    BY DEF RcInit, Abs!Init, Holders, Wrapping
  <1>2. RcInv /\ RcInv' /\ [RcNext]_rcvars => [Abs!Next]_(Abs!vars)
    BY StepImplements
  <1> QED BY <1>1, <1>2, RcInvariant, PTL DEF RcSpec, ImplementsSharedObject, Abs!Spec
-----------------------------------------------------------------------------
(* What UnreferencedIsFreed rests on: an object that nobody refers to any  *)
(* more is in the hands of a thread that will free it.                     *)
Attended(o) == \E t \in Threads : at[t] = "free" /\ obj[t] = o

ZeroAttended == \A o \in Objects : mem[o] = "live" /\ refs[o] = 0 => Attended(o)

LastReleaseFrees ==
  \A o \in Objects :
    mem[o] = "live" /\ Holders(o) = {} /\ Wrapping(o) = {} /\ lost[o] = 0 => Attended(o)

LEMMA ZeroAttendedNext ==
  ASSUME RcInv, ZeroAttended, [RcNext]_rcvars
  PROVE  ZeroAttended'
<1>. USE RcAssumption DEF RcAssumption, RcInv, RcTypeOK, CallShape, HandleShape
<1>. SUFFICES ASSUME NEW o \in Objects, mem'[o] = "live", refs'[o] = 0 PROVE Attended(o)'
  BY DEF ZeroAttended
<1>1. ASSUME NEW t \in Threads, NEW p \in Objects, Create(t, p) PROVE Attended(o)'
  BY <1>1 DEF Create, ZeroAttended, Attended
<1>2. ASSUME NEW t \in Threads, NEW p \in Objects, Retain(t, p) PROVE Attended(o)'
  BY <1>2 DEF Retain, ZeroAttended, Attended
<1>3. ASSUME NEW t \in Threads, NEW h \in Handles, Wrap(t, h) PROVE Attended(o)'
  BY <1>3 DEF Wrap, ZeroAttended, Attended
<1>4. ASSUME NEW t \in Threads, NEW h \in Handles, Gc(t, h) PROVE Attended(o)'
  <2>1. /\ at[t] = "idle" /\ owner[h] = t /\ cookie[h] \in Objects /\ mem' = mem
        /\ refs' = [refs EXCEPT ![cookie[h]] = @ - 1]
        /\ IF LastRelease(cookie[h])
           THEN at' = [at EXCEPT ![t] = "free"] /\ obj' = [obj EXCEPT ![t] = cookie[h]]
           ELSE UNCHANGED <<at, obj>>
    BY <1>4 DEF Gc
  <2>2. CASE o = cookie[h]
    <3>1. refs[o] = 1
      BY <2>1, <2>2
    <3>. QED BY <2>1, <2>2, <3>1 DEF LastRelease, Attended
  <2>3. CASE o # cookie[h]
    <3>1. PICK u \in Threads : at[u] = "free" /\ obj[u] = o
      BY <2>1, <2>3 DEF ZeroAttended, Attended
    <3>. QED BY <2>1, <3>1 DEF Attended
  <2>. QED BY <2>2, <2>3
<1>5. ASSUME NEW t \in Threads, NEW h \in Handles, Enter(t, h) PROVE Attended(o)'
  BY <1>5 DEF Enter, ZeroAttended, Attended
<1>6. ASSUME NEW t \in Threads, WrapFails(t) PROVE Attended(o)'
  BY <1>6 DEF WrapFails, ZeroAttended, Attended
<1>7. ASSUME NEW t \in Threads, Free(t) PROVE Attended(o)'
  BY <1>7 DEF Free, ZeroAttended, Attended
<1>8. ASSUME NEW t \in Threads, Leave(t) PROVE Attended(o)'
  BY <1>8 DEF Leave, ZeroAttended, Attended
<1>9. CASE UNCHANGED rcvars
  BY <1>9 DEF rcvars, ZeroAttended, Attended
<1>. QED BY <1>1, <1>2, <1>3, <1>4, <1>5, <1>6, <1>7, <1>8, <1>9 DEF RcNext

(* refcount_release: of any number of threads that drop the last           *)
(* references at once one sees the count reach zero, and it is on its way  *)
(* to free the object.  No object is left with a count that nobody will    *)
(* take down.                                                              *)
THEOREM LastReleaseSeen == RcSpec => []LastReleaseFrees
<1>1. RcInit => ZeroAttended
  BY DEF RcInit, ZeroAttended
<1>2. RcInv /\ ZeroAttended /\ [RcNext]_rcvars => ZeroAttended'
  BY ZeroAttendedNext
<1>3. RcInv /\ ZeroAttended => LastReleaseFrees
  <2>. SUFFICES ASSUME RcInv, ZeroAttended, NEW o \in Objects, mem[o] = "live",
                       Holders(o) = {}, Wrapping(o) = {}, lost[o] = 0
                PROVE  Attended(o)
    BY DEF LastReleaseFrees
  <2>1. Cardinality(Holders(o)) = 0 /\ Cardinality(Wrapping(o)) = 0
    BY FS_EmptySet
  <2>2. refs[o] = 0
    BY <2>1 DEF RcInv, RefsCountHolders
  <2>. QED BY <2>2 DEF ZeroAttended
<1>. QED BY <1>1, <1>2, <1>3, RcInvariant, PTL DEF RcSpec
=============================================================================
