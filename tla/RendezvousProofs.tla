-------------------------- MODULE RendezvousProofs --------------------------
(***************************************************************************)
(* Proofs about Rendezvous for any set of threads, values and deadlines:   *)
(* type correctness, and that a caller only touches the Lua stack of a     *)
(* thread parked in its wait.  When no call has a deadline and no thread   *)
(* is cancelled: that rp->waiter is the one blocked thread, that every     *)
(* call returns the arguments of its partner, and that the whole is the    *)
(* pairwise exchange of Exchanger.                                         *)
(***************************************************************************)
EXTENDS Rendezvous, SequenceTheorems, TLAPS

(* The places at which a thread holds rp->mutex.                           *)
Holding == {"in", "back", "late", "out", "dead"}

(* The thread named by rp->waiter is blocked, or has left the wait queue   *)
(* by its deadline or its cancellation and not yet acted on it.            *)
RdvInv ==
  /\ RdvTypeOK
  /\ \A t \in Threads : pc[t] \in Holding <=> mutex = t
  /\ waiter # Nil => pc[waiter] \in {"blocked", "expired", "canceled", "late", "dead"}
  /\ \A t \in Threads : t \in onCond <=> pc[t] = "blocked"

(* The number of arguments of a call is within its bound.                  *)
LEMMA OfferLen == ASSUME NEW a \in Offers PROVE Len(a) \in 0..MaxArgs
<1>1. PICK n \in 0..MaxArgs : a \in [1..n -> Values]
  BY DEF Offers
<1>2. n \in Nat /\ a \in Seq(Values) /\ Len(a) = n
  BY <1>1, RdvAssumption
<1>. QED BY <1>1, <1>2

LEMMA RdvInit_Inv == RdvInit => RdvInv
BY RdvAssumption DEF RdvInit, RdvInv, RdvTypeOK, Holding

LEMMA RdvNext_Inv == RdvInv /\ [RdvNext]_rdvars => RdvInv'
<1> SUFFICES ASSUME RdvInv, [RdvNext]_rdvars PROVE RdvInv'
  OBVIOUS
<1> USE RdvAssumption DEF RdvInv, RdvTypeOK, Holding
<1>1. ASSUME NEW t \in Threads, NEW tm \in BOOLEAN, NEW a \in Offers, Call(t, tm, a)
      PROVE RdvInv'
  <2>1. Len(a) \in 0..MaxArgs
    BY OfferLen
  <2>2. timed' \in [Threads -> BOOLEAN]
    BY <1>1 DEF Call
  <2>3. narg' \in [Threads -> 0..MaxArgs] /\ calls' \in [Threads -> 0..MaxCalls]
    BY <1>1, <2>1 DEF Call
  <2>4. /\ pc[t] = "idle" /\ pc' = [pc EXCEPT ![t] = "lock"]
        /\ UNCHANGED <<mutex, waiter, onCond, cnt, nres>>
    BY <1>1 DEF Call, Goto
  <2>. QED BY <2>2, <2>3, <2>4
<1>2. ASSUME NEW t \in Threads, Lock(t) PROVE RdvInv'
  BY <1>2 DEF Lock, Goto
<1>3. ASSUME NEW t \in Threads, Wait(t) PROVE RdvInv'
  BY <1>3 DEF Wait, Goto
<1>4. ASSUME NEW t \in Threads, Match(t) PROVE RdvInv'
  <2>1. waiter \in Threads /\ mutex = t /\ pc[t] = "in"
    BY <1>4 DEF Match
  <2>2. /\ cnt' \in [Threads -> -1..MaxArgs]
        /\ nres' \in [Threads -> -2..MaxArgs]
    <3>1. \/ /\ cnt' = [cnt EXCEPT ![waiter] = -1]
             /\ nres' = [nres EXCEPT ![t] = -1]
          \/ /\ cnt' = [cnt EXCEPT ![waiter] = narg[t]]
             /\ nres' = [nres EXCEPT ![t] = cnt[waiter]]
      <4>1. Exchange(t, waiter)
        BY <1>4 DEF Match
      <4>. QED BY <4>1 DEF Exchange
    <3>. QED BY <2>1, <3>1
  <2>3. /\ waiter' = Nil
        /\ UNCHANGED <<mutex, timed, narg, calls>>
    BY <1>4 DEF Match
  <2>4. CASE onCond = {}
    <3>1. UNCHANGED onCond /\ pc' = [pc EXCEPT ![t] = "out"]
      BY <1>4, <2>4 DEF Match, Signal, Goto
    <3>. QED BY <2>1, <2>2, <2>3, <3>1
  <2>5. CASE onCond # {}
    <3>1. PICK s \in onCond : /\ onCond' = onCond \ {s}
                              /\ pc' = [pc EXCEPT ![t] = "out", ![s] = "woken"]
      BY <1>4, <2>5 DEF Match, Signal
    <3>2. s \in Threads /\ pc[s] = "blocked" /\ s # t
      BY <2>1, <3>1
    <3>. QED BY <2>1, <2>2, <2>3, <3>1, <3>2
  <2>. QED BY <2>4, <2>5
<1>5. ASSUME NEW t \in Threads, Reacquire(t) PROVE RdvInv'
  <2>1. /\ mutex = Nil /\ mutex' = t
        /\ UNCHANGED <<waiter, onCond, timed, cnt, narg, nres, calls>>
    BY <1>5 DEF Reacquire
  <2>2. CASE pc[t] = "woken" /\ pc' = [pc EXCEPT ![t] = "back"]
    BY <2>1, <2>2
  <2>3. CASE pc[t] = "expired" /\ pc' = [pc EXCEPT ![t] = "late"]
    BY <2>1, <2>3
  <2>4. CASE pc[t] = "canceled" /\ pc' = [pc EXCEPT ![t] = "dead"]
    BY <2>1, <2>4
  <2>. QED BY <1>5, <2>2, <2>3, <2>4 DEF Reacquire, Goto
<1>6. ASSUME NEW t \in Threads, Back(t) PROVE RdvInv'
  BY <1>6 DEF Back, Goto
<1>7. ASSUME NEW t \in Threads, Late(t) PROVE RdvInv'
  BY <1>7 DEF Late, Goto
<1>8. ASSUME NEW t \in Threads, Unlock(t) PROVE RdvInv'
  BY <1>8 DEF Unlock, Goto
<1>9. ASSUME NEW t \in Threads, Done(t) PROVE RdvInv'
  BY <1>9, SMTT(30) DEF Done, Goto
<1>10. ASSUME NEW t \in Threads, LockTimeout(t) PROVE RdvInv'
  BY <1>10 DEF LockTimeout, Goto
<1>11. ASSUME NEW t \in Threads, Timeout(t) PROVE RdvInv'
  BY <1>11 DEF Timeout, Goto
<1>12. ASSUME NEW t \in Threads, Cancel(t) PROVE RdvInv'
  BY <1>12 DEF Cancel, Goto
<1>13. CASE UNCHANGED rdvars
  BY <1>13 DEF rdvars
<1>. QED
  BY <1>1, <1>2, <1>3, <1>4, <1>5, <1>6, <1>7, <1>8, <1>9, <1>10, <1>11,
     <1>12, <1>13 DEF RdvNext, Inside

(* RdvInv holds in every state a rendezvous can reach.                     *)
THEOREM RdvInvariant == RdvSpec => []RdvInv
<1>. QED BY RdvInit_Inv, RdvNext_Inv, PTL DEF RdvSpec

(* The fields and the local variables keep their types: the counts that    *)
(* exchange() leaves on the stacks stay within the arguments of a call.    *)
THEOREM RdvTypeCorrect == RdvSpec => []RdvTypeOK
<1>1. RdvInv => RdvTypeOK
  BY DEF RdvInv
<1>. QED BY <1>1, RdvInvariant, PTL

(* Whatever deadlines expire and whoever is cancelled, exchange() works on *)
(* the Lua stack of a thread that is parked in its wait.                   *)
THEOREM StackParked == RdvSpec => []WaiterParked
<1>1. RdvInv => WaiterParked
  BY RdvAssumption DEF RdvInv, RdvTypeOK, Holding, WaiterParked
<1>. QED BY <1>1, RdvInvariant, PTL
-----------------------------------------------------------------------------
(* Without deadlines and cancellation: nobody leaves the wait queue but by *)
(* a signal, and every blocked thread is the one in rp->waiter.            *)
PatientInv ==
  /\ RdvInv
  /\ \A t \in Threads : /\ ~timed[t]
                        /\ pc[t] \notin {"expired", "canceled", "late", "dead"}
                        /\ pc[t] = "blocked" => waiter = t

LEMMA PatientNext ==
  ASSUME TimedCallers = {}, Cancellable = {}
  PROVE PatientInv /\ [RdvNext]_rdvars => PatientInv'
<1> SUFFICES ASSUME PatientInv, [RdvNext]_rdvars PROVE PatientInv'
  OBVIOUS
<1>1. RdvInv /\ RdvInv'
  BY RdvNext_Inv DEF PatientInv
<1> USE <1>1, RdvAssumption DEF PatientInv, RdvInv, RdvTypeOK, Goto
<1>2. ASSUME NEW t \in Threads, NEW tm \in BOOLEAN, NEW a \in Offers, Call(t, tm, a)
      PROVE PatientInv'
  BY <1>2, SMTT(30) DEF Call
<1>3. ASSUME NEW t \in Threads, Wait(t) PROVE PatientInv'
  BY <1>3 DEF Wait
<1>4. ASSUME NEW t \in Threads, Match(t) PROVE PatientInv'
  <2>1. waiter \in Threads /\ waiter' = Nil /\ UNCHANGED timed
    BY <1>4 DEF Match
  <2>2. onCond = {waiter} /\ waiter # t /\ pc[waiter] = "blocked"
    BY <1>4, <2>1 DEF Match
  <2>3. pc' = [pc EXCEPT ![t] = "out", ![waiter] = "woken"]
    BY <1>4, <2>1, <2>2 DEF Match, Signal
  <2>. QED BY <2>1, <2>2, <2>3
<1>5. ASSUME NEW t \in Threads, Reacquire(t) PROVE PatientInv'
  <2>1. pc[t] = "woken" /\ pc' = [pc EXCEPT ![t] = "back"]
    BY <1>5 DEF Reacquire
  <2>. QED BY <1>5, <2>1 DEF Reacquire
<1>6. ASSUME NEW t \in Threads, Lock(t) \/ Back(t) \/ Unlock(t) \/ Done(t)
      PROVE PatientInv'
  <2>1. CASE Lock(t) \/ Back(t) \/ Unlock(t)
    BY <2>1 DEF Lock, Back, Unlock
  <2>2. CASE Done(t)
    BY <2>2, SMTT(30) DEF Done
  <2>. QED BY <1>6, <2>1, <2>2
<1>7. ASSUME NEW t \in Threads, Late(t) \/ LockTimeout(t) \/ Timeout(t) \/ Cancel(t)
      PROVE FALSE
  BY <1>7 DEF Late, LockTimeout, Timeout, Cancel
<1>8. CASE UNCHANGED rdvars
  BY <1>8 DEF rdvars
<1>. QED BY <1>2, <1>3, <1>4, <1>5, <1>6, <1>7, <1>8 DEF RdvNext, Inside

LEMMA PatientInit == RdvInit => PatientInv
BY RdvInit_Inv DEF RdvInit, PatientInv

(* When no call has a deadline and no thread is cancelled, rp->waiter is   *)
(* the only thread on the condition, so a signal wakes the thread whose    *)
(* stack was filled.                                                       *)
THEOREM SignalReachesWaiter ==
  ASSUME TimedCallers = {}, Cancellable = {}
  PROVE RdvSpec => []OneWaiter
<1>1. PatientInv /\ [RdvNext]_rdvars => PatientInv'
  BY PatientNext
<1>2. PatientInv => OneWaiter
  BY RdvAssumption DEF PatientInv, RdvInv, RdvTypeOK, OneWaiter
<1>. QED BY <1>1, <1>2, PatientInit, PTL DEF RdvSpec
-----------------------------------------------------------------------------
(* What can lie on the stack of an exchange without a deadline.            *)
Slots == Values \cup {"self"}

(* The n values on top of t's stack are what the match owes t, or n says   *)
(* that the match has failed.                                              *)
Owed(t, n) ==
  \/ n = -1 /\ due[t] = Error
  \/ n \in 0..MaxArgs /\ due[t] \in Offers /\ LastN(stack[t], n) = due[t]

(* A call before its match has its arguments on top of its stack, one      *)
(* after it what it is owed; the count on a parked stack says how many.    *)
ShapeOf(t) ==
  /\ pc[t] = "idle" => due[t] = Nil
  /\ pc[t] # "idle" => Args(t) \in Offers
  /\ pc[t] \in {"lock", "in", "blocked"} =>
       due[t] = Nil /\ stack[t] = <<"self">> \o Args(t) /\ narg[t] = Len(Args(t))
  /\ pc[t] = "blocked" => cnt[t] = narg[t]
  /\ pc[t] \in {"woken", "back"} => Owed(t, cnt[t])
  /\ pc[t] = "out" => Owed(t, nres[t])
  /\ pc[t] = "ret" => due[t] # Nil /\ ret[t] = due[t]

ExchangeShape ==
  /\ stack \in [Threads -> Seq(Slots)]
  /\ due \in [Threads -> Offers \cup {Nil, Error}]
  /\ ret \in [Threads -> Offers \cup {<<>>, Error}]
  /\ \A t \in Threads : ShapeOf(t)

MatchInv == PatientInv /\ ExchangeShape

(* The arguments of a call are a sequence of values.                       *)
LEMMA OfferSeq == ASSUME NEW a \in Offers
                  PROVE  a \in Seq(Values) /\ a \in Seq(Slots) /\ Len(a) \in 0..MaxArgs
<1>1. PICK n \in 0..MaxArgs : a \in [1..n -> Values]
  BY DEF Offers
<1>2. n \in Nat /\ a \in Seq(Values) /\ Len(a) = n
  BY <1>1, RdvAssumption
<1>. QED BY <1>1, <1>2, SeqMonotonic DEF Slots

(* The values pushed last are on top.                                      *)
LEMMA TopOfStack ==
  ASSUME NEW S, NEW s \in Seq(S), NEW a \in Seq(S)
  PROVE  LastN(s \o a, Len(a)) = a
<1> DEFINE u == s \o a
           m == IF Len(a) < Len(u) THEN Len(u) - Len(a) + 1 ELSE 1
<1>1. u \in Seq(S) /\ Len(u) = Len(s) + Len(a) /\ Len(s) \in Nat /\ Len(a) \in Nat
  BY ConcatProperties, LenProperties
<1>2. m = Len(s) + 1
  BY <1>1
<1>3. \A i \in m..Len(u) : u[i] \in S /\ u[i] = a[i - Len(s)]
  BY <1>1, <1>2, ConcatProperties, ElementOfSeq
<1>. HIDE DEF u, m
<1>4. /\ SubSeq(u, m, Len(u)) \in Seq(S)
      /\ Len(SubSeq(u, m, Len(u))) = Len(a)
      /\ \A i \in 1..Len(a) : SubSeq(u, m, Len(u))[i] = u[m + i - 1]
  BY <1>1, <1>2, <1>3, SubSeqProperties
<1>5. \A i \in 1..Len(a) : SubSeq(u, m, Len(u))[i] = a[i]
  <2>1. \A i \in 1..Len(a) : m + i - 1 \in m..Len(u) /\ (m + i - 1) - Len(s) = i
    BY <1>1, <1>2
  <2>2. \A i \in 1..Len(a) : u[m + i - 1] = a[(m + i - 1) - Len(s)]
    BY <1>3, <2>1
  <2>. QED BY <1>4, <2>1, <2>2
<1>6. SubSeq(u, m, Len(u)) = a
  BY <1>4, <1>5, SeqEqual
<1>. QED BY <1>6 DEF LastN, u, m

(* What is pushed later does not touch the arguments.                      *)
LEMMA ArgsBelow ==
  ASSUME NEW a \in Seq(Slots), NEW b \in Seq(Slots)
  PROVE  /\ <<"self">> \in Seq(Slots) /\ <<"self">> \o a \in Seq(Slots)
         /\ SubSeq(<<"self">> \o a, 2, 1 + Len(a)) = a
         /\ SubSeq((<<"self">> \o a) \o b, 2, 1 + Len(a)) = a
<1>1. <<"self">> \in Seq(Slots) /\ Len(<<"self">>) = 1
  BY DEF Slots
<1> DEFINE u == <<"self">> \o a
           v == u \o b
<1>2. /\ u \in Seq(Slots) /\ Len(u) = 1 + Len(a) /\ Len(a) \in Nat
      /\ \A i \in 2..1 + Len(a) : u[i] = a[i - 1]
  <2>1. \A i \in 1..Len(<<"self">>) + Len(a) : u[i] = IF i <= Len(<<"self">>) THEN <<"self">>[i] ELSE a[i - Len(<<"self">>)]
    BY <1>1, ConcatProperties
  <2>. QED BY <1>1, <2>1, ConcatProperties, LenProperties
<1> HIDE DEF u
<1>3. /\ v \in Seq(Slots)
      /\ \A i \in 1..1 + Len(a) : v[i] = u[i]
  BY <1>2, ConcatProperties, LenProperties
<1> HIDE DEF v
<1>4. ASSUME NEW w, \A i \in 2..1 + Len(a) : w[i] = a[i - 1]
      PROVE  SubSeq(w, 2, 1 + Len(a)) = a
  <2>1. \A i \in 2..1 + Len(a) : w[i] \in Slots
    BY <1>2, <1>4, ElementOfSeq
  <2>2. /\ SubSeq(w, 2, 1 + Len(a)) \in Seq(Slots)
        /\ Len(SubSeq(w, 2, 1 + Len(a))) = Len(a)
        /\ \A i \in 1..Len(a) : SubSeq(w, 2, 1 + Len(a))[i] = w[i + 1]
    BY <1>2, <2>1, SubSeqProperties
  <2>3. \A i \in 1..Len(a) : SubSeq(w, 2, 1 + Len(a))[i] = a[i]
    BY <1>2, <1>4, <2>2
  <2>. QED BY <2>2, <2>3, SeqEqual
<1>5. SubSeq(u, 2, 1 + Len(a)) = a
  BY <1>2, <1>4
<1>6. SubSeq(v, 2, 1 + Len(a)) = a
  <2>1. \A i \in 2..1 + Len(a) : i \in 1..1 + Len(a)
    BY <1>2
  <2>2. \A i \in 2..1 + Len(a) : v[i] = a[i - 1]
    BY <1>2, <1>3, <2>1
  <2>. QED BY <1>4, <2>2
<1>. QED BY <1>1, <1>2, <1>5, <1>6 DEF u, v

(* What the second caller t does to the two stacks: it signals the thread  *)
(* it has exchanged with, and each side finds on top what it is owed.      *)
LEMMA MatchEffect ==
  ASSUME MatchInv, NEW t \in Threads, Match(t), NEW w \in Threads, w = waiter
  PROVE  /\ w # t /\ pc[t] = "in" /\ pc[w] = "blocked"
         /\ pc' = [pc EXCEPT ![t] = "out", ![w] = "woken"]
         /\ due' = [due EXCEPT ![t] = IF Copyable(Args(t)) /\ Copyable(Args(w))
                                      THEN Args(w) ELSE Error,
                               ![w] = IF Copyable(Args(t)) /\ Copyable(Args(w))
                                      THEN Args(t) ELSE Error]
         /\ UNCHANGED <<timed, narg, ret>>
         /\ stack' \in [Threads -> Seq(Slots)]
         /\ Args(t)' = Args(t) /\ Args(w)' = Args(w)
         /\ Owed(t, nres[t])' /\ Owed(w, cnt[w])'
         /\ \A x \in Threads \ {t, w} :
              stack'[x] = stack[x] /\ cnt'[x] = cnt[x] /\ nres'[x] = nres[x]
<1> DEFINE a == Args(t)
           b == Args(w)
<1>1. w # t /\ pc[t] = "in" /\ pc[w] = "blocked" /\ onCond = {w}
  BY RdvAssumption DEF Match, MatchInv, PatientInv, RdvInv, RdvTypeOK
<1>2. /\ due' = [due EXCEPT ![t] = IF Copyable(a) /\ Copyable(b) THEN b ELSE Error,
                            ![w] = IF Copyable(a) /\ Copyable(b) THEN a ELSE Error]
      /\ UNCHANGED <<timed, narg, ret>>
      /\ Exchange(t, w)
  BY DEF Match
<1>3. pc' = [pc EXCEPT ![t] = "out", ![w] = "woken"]
  BY <1>1 DEF Match, Signal
<1>4. /\ a \in Offers /\ b \in Offers /\ ~timed[t] /\ ~timed[w]
      /\ stack[t] = <<"self">> \o a /\ narg[t] = Len(a)
      /\ stack[w] = <<"self">> \o b /\ narg[w] = Len(b) /\ cnt[w] = Len(b)
  BY <1>1 DEF MatchInv, PatientInv, ExchangeShape, ShapeOf
<1>5. /\ a \in Seq(Slots) /\ b \in Seq(Slots) /\ Len(a) \in 0..MaxArgs /\ Len(b) \in 0..MaxArgs
      /\ stack[t] \in Seq(Slots) /\ stack[w] \in Seq(Slots)
      /\ stack \in [Threads -> Seq(Slots)] /\ cnt \in [Threads -> -1..MaxArgs]
      /\ nres \in [Threads -> -2..MaxArgs] /\ due \in [Threads -> Offers \cup {Nil, Error}]
  BY <1>1, <1>4, OfferSeq DEF MatchInv, ExchangeShape, PatientInv, RdvInv, RdvTypeOK
<1>6. /\ Args(t)' = SubSeq(stack'[t], 2, 1 + Len(a))
      /\ Args(w)' = SubSeq(stack'[w], 2, 1 + Len(b))
  <2>1. /\ Args(t)' = SubSeq(stack'[t], 2, 1 + narg[t])
        /\ Args(w)' = SubSeq(stack'[w], 2, 1 + narg[w])
    <3>1. ~timed'[t] /\ ~timed'[w] /\ narg' = narg
      BY <1>2, <1>4
    <3>2. Fixed(timed[t])' = <<"self">> /\ Fixed(timed[w])' = <<"self">> /\ Len(<<"self">>) = 1
      BY <3>1 DEF Fixed
    <3>3. /\ Args(t)' = SubSeq(stack'[t], Len(<<"self">>) + 1, Len(<<"self">>) + narg[t])
          /\ Args(w)' = SubSeq(stack'[w], Len(<<"self">>) + 1, Len(<<"self">>) + narg[w])
      BY <3>1, <3>2 DEF Args
    <3>4. narg[t] \in Int /\ narg[w] \in Int
      BY RdvAssumption DEF MatchInv, PatientInv, RdvInv, RdvTypeOK
    <3>. QED BY <3>2, <3>3, <3>4
  <2>. QED BY <1>4, <2>1
<1> HIDE DEF a, b
<1>7. LastN(stack[w], cnt[w]) = b
  <2>1. <<"self">> \in Seq(Slots)
    BY ArgsBelow, <1>5
  <2>2. LastN(<<"self">> \o b, Len(b)) = b
    BY <1>5, <2>1, TopOfStack
  <2>. QED BY <1>4, <2>2
<1>8. /\ SubSeq(stack[t], 2, 1 + Len(a)) = a /\ SubSeq(stack[w], 2, 1 + Len(b)) = b
      /\ SubSeq(stack[t] \o b, 2, 1 + Len(a)) = a /\ SubSeq(stack[w] \o a, 2, 1 + Len(b)) = b
      /\ stack[t] \o b \in Seq(Slots) /\ stack[w] \o a \in Seq(Slots)
  BY <1>4, <1>5, ArgsBelow, ConcatProperties
<1>9. LastN(stack[t] \o b, Len(b)) = b /\ LastN(stack[w] \o a, Len(a)) = a
  BY <1>5, TopOfStack
<1>10. due'[t] = (IF Copyable(a) /\ Copyable(b) THEN b ELSE Error) /\ due'[w] = (IF Copyable(a) /\ Copyable(b) THEN a ELSE Error)
  BY <1>1, <1>2, <1>5
<1>11. CASE Copyable(a) /\ Copyable(b)
  <2>1. /\ stack' = [stack EXCEPT ![t] = @ \o b, ![w] = @ \o a]
        /\ cnt' = [cnt EXCEPT ![w] = narg[t]]
        /\ nres' = [nres EXCEPT ![t] = cnt[w]]
    BY <1>2, <1>7, <1>11 DEF Exchange, a
  <2>2. /\ stack' \in [Threads -> Seq(Slots)]
        /\ stack'[t] = stack[t] \o b /\ stack'[w] = stack[w] \o a
        /\ cnt'[w] = Len(a) /\ nres'[t] = Len(b)
        /\ \A x \in Threads \ {t, w} :
              stack'[x] = stack[x] /\ cnt'[x] = cnt[x] /\ nres'[x] = nres[x]
    BY <1>1, <1>4, <1>5, <1>8, <2>1
  <2>3. Args(t)' = a /\ Args(w)' = b
    BY <1>6, <1>8, <2>2
  <2>4. Owed(t, nres[t])' /\ Owed(w, cnt[w])'
    BY <1>4, <1>5, <1>9, <1>10, <1>11, <2>2 DEF Owed
  <2>. QED BY <1>1, <1>2, <1>3, <2>2, <2>3, <2>4 DEF a, b
<1>12. CASE ~(Copyable(a) /\ Copyable(b))
  <2>1. /\ stack' = stack \/ stack' = [stack EXCEPT ![t] = @ \o b]
        /\ cnt' = [cnt EXCEPT ![w] = -1]
        /\ nres' = [nres EXCEPT ![t] = -1]
    BY <1>2, <1>7, <1>12 DEF Exchange, a
  <2>2. /\ stack' \in [Threads -> Seq(Slots)]
        /\ stack'[t] = stack[t] \/ stack'[t] = stack[t] \o b
        /\ stack'[w] = stack[w]
        /\ cnt'[w] = -1 /\ nres'[t] = -1
        /\ \A x \in Threads \ {t, w} :
              stack'[x] = stack[x] /\ cnt'[x] = cnt[x] /\ nres'[x] = nres[x]
    BY <1>1, <1>5, <1>8, <2>1
  <2>3. Args(t)' = a /\ Args(w)' = b
    BY <1>6, <1>8, <2>2
  <2>4. Owed(t, nres[t])' /\ Owed(w, cnt[w])'
    BY <1>10, <1>12, <2>2 DEF Owed
  <2>. QED BY <1>1, <1>2, <1>3, <2>2, <2>3, <2>4 DEF a, b
<1>. QED BY <1>11, <1>12

(* A step that is not t's own, nor exchanges with t, leaves it alone.      *)
LEMMA ShapeAlone ==
  ASSUME NEW t \in Threads, ShapeOf(t), pc'[t] = pc[t], due'[t] = due[t], stack'[t] = stack[t],
         narg'[t] = narg[t], timed'[t] = timed[t], cnt'[t] = cnt[t], nres'[t] = nres[t],
         ret'[t] = ret[t]
  PROVE  ShapeOf(t)'
<1>1. Args(t)' = Args(t)
  BY DEF Args
<1>2. Owed(t, cnt[t])' = Owed(t, cnt[t]) /\ Owed(t, nres[t])' = Owed(t, nres[t])
  BY DEF Owed
<1>. QED BY <1>1, <1>2 DEF ShapeOf

LEMMA CallEffect ==
  ASSUME MatchInv, TimedCallers = {}, NEW t \in Threads, NEW tm \in BOOLEAN, NEW a \in Offers,
         Call(t, tm, a)
  PROVE  /\ stack' = [stack EXCEPT ![t] = <<"self">> \o a] /\ Args(t)' = a /\ narg'[t] = Len(a)
         /\ <<"self">> \o a \in Seq(Slots)
<1>1. ~tm
  BY DEF Call
<1>2. stack' = [stack EXCEPT ![t] = <<"self">> \o a]
  BY <1>1 DEF Call, Fixed
<1>3. timed'[t] = FALSE /\ narg'[t] = Len(a)
  BY <1>1 DEF Call, MatchInv, PatientInv, RdvInv, RdvTypeOK
<1>4. a \in Seq(Slots) /\ Len(a) \in Int
  BY OfferSeq, RdvAssumption
<1>5. /\ <<"self">> \o a \in Seq(Slots)
      /\ SubSeq(<<"self">> \o a, 2, 1 + Len(a)) = a
  BY <1>4, ArgsBelow
<1>6. Args(t)' = SubSeq(stack'[t], Len(<<"self">>) + 1, Len(<<"self">>) + Len(a))
  BY <1>3 DEF Args, Fixed
<1>7. stack'[t] = <<"self">> \o a
  BY <1>2 DEF MatchInv, ExchangeShape
<1>8. Args(t)' = SubSeq(stack'[t], 2, 1 + Len(a))
  BY <1>4, <1>6
<1>. QED BY <1>2, <1>3, <1>5, <1>7, <1>8

(* ExchangeShape is kept by every step.                                    *)
LEMMA MatchNext ==
  ASSUME TimedCallers = {}, Cancellable = {}
  PROVE  MatchInv /\ [RdvNext]_rdvars => MatchInv'
<1> SUFFICES ASSUME MatchInv, [RdvNext]_rdvars PROVE ExchangeShape'
  BY PatientNext DEF MatchInv
<1>1. /\ stack \in [Threads -> Seq(Slots)]
      /\ due \in [Threads -> Offers \cup {Nil, Error}]
      /\ ret \in [Threads -> Offers \cup {<<>>, Error}]
      /\ \A t \in Threads : ShapeOf(t)
  BY DEF MatchInv, ExchangeShape
<1>2. /\ RdvTypeOK /\ \A t \in Threads : ~timed[t]
  BY DEF MatchInv, PatientInv, RdvInv
<1> USE DEF Goto, ExchangeShape
<1>3. ASSUME NEW t \in Threads, NEW tm \in BOOLEAN, NEW a \in Offers, Call(t, tm, a)
      PROVE  ExchangeShape'
  <2>1. /\ stack' = [stack EXCEPT ![t] = <<"self">> \o a] /\ Args(t)' = a /\ narg'[t] = Len(a)
        /\ <<"self">> \o a \in Seq(Slots)
    BY <1>3, CallEffect
  <2>2. stack' \in [Threads -> Seq(Slots)] /\ stack'[t] = <<"self">> \o a
    BY <1>1, <2>1
  <2>3. pc[t] = "idle" /\ pc'[t] = "lock" /\ UNCHANGED <<cnt, nres, ret, due>>
    BY <1>2, <1>3 DEF Call, RdvTypeOK
  <2>4. due'[t] = Nil
    BY <1>1, <2>3 DEF ShapeOf
  <2>5. ShapeOf(t)'
    BY <2>1, <2>2, <2>3, <2>4 DEF ShapeOf
  <2>6. ASSUME NEW x \in Threads, x # t PROVE ShapeOf(x)'
    <3>1. pc'[x] = pc[x] /\ stack'[x] = stack[x] /\ narg'[x] = narg[x] /\ timed'[x] = timed[x]
      BY <1>1, <1>2, <1>3, <2>1, <2>6 DEF Call, RdvTypeOK
    <3>. QED BY <1>1, <2>3, <3>1, ShapeAlone
  <2>. QED BY <1>1, <2>2, <2>3, <2>5, <2>6
<1>4. ASSUME NEW t \in Threads, Match(t) PROVE ExchangeShape'
  <2>1. waiter \in Threads
    BY <1>2, <1>4 DEF Match, RdvTypeOK
  <2>2. PICK w \in Threads : w = waiter
    BY <2>1
  <2>3. /\ w # t /\ pc[t] = "in" /\ pc[w] = "blocked"
        /\ pc' = [pc EXCEPT ![t] = "out", ![w] = "woken"]
        /\ due' = [due EXCEPT ![t] = IF Copyable(Args(t)) /\ Copyable(Args(w))
                                     THEN Args(w) ELSE Error,
                              ![w] = IF Copyable(Args(t)) /\ Copyable(Args(w))
                                     THEN Args(t) ELSE Error]
        /\ UNCHANGED <<timed, narg, ret>>
        /\ stack' \in [Threads -> Seq(Slots)]
        /\ Args(t)' = Args(t) /\ Args(w)' = Args(w)
        /\ Owed(t, nres[t])' /\ Owed(w, cnt[w])'
        /\ \A x \in Threads \ {t, w} :
             stack'[x] = stack[x] /\ cnt'[x] = cnt[x] /\ nres'[x] = nres[x]
    BY <1>4, <2>2, MatchEffect
  <2>4. Args(t) \in Offers /\ Args(w) \in Offers
    BY <1>1, <2>3 DEF ShapeOf
  <2>5. due' \in [Threads -> Offers \cup {Nil, Error}]
    BY <1>1, <2>3, <2>4
  <2>6. pc'[t] = "out" /\ pc'[w] = "woken"
    BY <1>2, <2>3 DEF RdvTypeOK
  <2>7. ShapeOf(t)' /\ ShapeOf(w)'
    BY <2>3, <2>4, <2>6 DEF ShapeOf
  <2>8. ASSUME NEW x \in Threads, x # t, x # w PROVE ShapeOf(x)'
    <3>1. pc'[x] = pc[x] /\ due'[x] = due[x]
      BY <1>1, <1>2, <2>3, <2>8 DEF RdvTypeOK
    <3>. QED BY <1>1, <2>3, <2>8, <3>1, ShapeAlone
  <2>. QED BY <1>1, <2>3, <2>5, <2>7, <2>8
<1>5. ASSUME NEW t \in Threads, Lock(t) \/ Wait(t) \/ Reacquire(t) \/ Back(t) \/ Unlock(t)
      PROVE  ExchangeShape'
  <2>1. UNCHANGED <<stack, narg, timed, due>>
    BY <1>5 DEF Lock, Wait, Reacquire, Back, Unlock
  <2>2. ASSUME NEW x \in Threads, x # t PROVE ShapeOf(x)'
    <3>1. pc'[x] = pc[x] /\ cnt'[x] = cnt[x] /\ nres'[x] = nres[x] /\ ret'[x] = ret[x]
      BY <1>1, <1>2, <1>5, <2>2 DEF Lock, Wait, Reacquire, Back, Unlock, RdvTypeOK
    <3>. QED BY <1>1, <2>1, <3>1, ShapeAlone
  <2>3. Args(t)' = Args(t)
    BY <2>1 DEF Args
  <2>4. ASSUME NEW n PROVE Owed(t, n)' = Owed(t, n)
    BY <2>1 DEF Owed
  <2>5. CASE Lock(t)
    <3>1. pc[t] = "lock" /\ pc'[t] = "in" /\ UNCHANGED ret
      BY <1>2, <2>5 DEF Lock, RdvTypeOK
    <3>2. ShapeOf(t)'
      BY <1>1, <2>1, <2>3, <3>1 DEF ShapeOf
    <3>. QED BY <1>1, <2>1, <2>2, <3>1, <3>2
  <2>6. CASE Wait(t)
    <3>1. pc[t] = "in" /\ pc'[t] = "blocked" /\ cnt'[t] = narg[t] /\ UNCHANGED ret
      BY <1>2, <2>6 DEF Wait, RdvTypeOK
    <3>2. ShapeOf(t)'
      BY <1>1, <2>1, <2>3, <3>1 DEF ShapeOf
    <3>. QED BY <1>1, <2>1, <2>2, <3>1, <3>2
  <2>7. CASE Reacquire(t)
    <3>1. pc[t] = "woken" /\ pc'[t] = "back" /\ UNCHANGED <<ret, cnt>>
      BY <1>2, <2>7 DEF Reacquire, RdvTypeOK, MatchInv, PatientInv
    <3>2. Owed(t, cnt[t])
      BY <1>1, <3>1 DEF ShapeOf
    <3>3. Owed(t, cnt[t])'
      BY <2>1, <3>1, <3>2 DEF Owed
    <3>4. ShapeOf(t)'
      BY <1>1, <2>1, <2>3, <3>1, <3>3 DEF ShapeOf
    <3>. QED BY <1>1, <2>1, <2>2, <3>1, <3>4
  <2>8. CASE Back(t)
    <3>1. pc[t] = "back" /\ pc'[t] = "out" /\ nres'[t] = cnt[t] /\ UNCHANGED ret
      BY <1>2, <2>8 DEF Back, RdvTypeOK
    <3>2. Owed(t, cnt[t])
      BY <1>1, <3>1 DEF ShapeOf
    <3>3. Owed(t, nres[t])'
      BY <2>1, <3>1, <3>2 DEF Owed
    <3>4. ShapeOf(t)'
      BY <1>1, <2>1, <2>3, <3>1, <3>3 DEF ShapeOf
    <3>. QED BY <1>1, <2>1, <2>2, <3>1, <3>4
  <2>9. CASE Unlock(t)
    <3>1. pc[t] = "out" /\ pc'[t] = "ret" /\ ret' = [ret EXCEPT ![t] = Result(t)]
      BY <1>2, <2>9 DEF Unlock, RdvTypeOK
    <3>2. Owed(t, nres[t])
      BY <1>1, <3>1 DEF ShapeOf
    <3>3. Result(t) = due[t] /\ due[t] \in Offers \cup {Error}
      BY <1>2, <3>2, RdvAssumption DEF Owed, Result
    <3>4. ret'[t] = due'[t] /\ due'[t] # Nil /\ ret' \in [Threads -> Offers \cup {<<>>, Error}]
      BY <1>1, <2>1, <3>1, <3>3, RdvAssumption
    <3>5. ShapeOf(t)'
      BY <1>1, <2>1, <2>3, <3>1, <3>4 DEF ShapeOf
    <3>. QED BY <1>1, <2>1, <2>2, <3>4, <3>5
  <2>. QED BY <1>5, <2>5, <2>6, <2>7, <2>8, <2>9
<1>6. ASSUME NEW t \in Threads, Done(t) PROVE ExchangeShape'
  <2>1. /\ pc[t] = "ret" /\ pc'[t] = "idle" /\ due'[t] = Nil
        /\ stack' \in [Threads -> Seq(Slots)]
        /\ due' \in [Threads -> Offers \cup {Nil, Error}]
        /\ ret' \in [Threads -> Offers \cup {<<>>, Error}]
    BY <1>1, <1>2, <1>6, SMTT(30) DEF Done, RdvTypeOK
  <2>2. ShapeOf(t)'
    BY <2>1 DEF ShapeOf
  <2>3. ASSUME NEW x \in Threads, x # t PROVE ShapeOf(x)'
    <3>1. /\ pc'[x] = pc[x] /\ due'[x] = due[x] /\ stack'[x] = stack[x] /\ narg'[x] = narg[x]
          /\ timed'[x] = timed[x] /\ cnt'[x] = cnt[x] /\ nres'[x] = nres[x] /\ ret'[x] = ret[x]
      BY <1>1, <1>2, <1>6, <2>3 DEF Done, RdvTypeOK
    <3>. QED BY <1>1, <3>1, ShapeAlone
  <2>. QED BY <2>1, <2>2, <2>3
<1>7. ASSUME NEW t \in Threads, Late(t) \/ LockTimeout(t) \/ Timeout(t) \/ Cancel(t)
      PROVE  FALSE
  BY <1>2, <1>7 DEF Late, LockTimeout, Timeout, Cancel, MatchInv, PatientInv
<1>8. CASE UNCHANGED rdvars
  <2>1. \A t \in Threads : ShapeOf(t)'
    BY <1>1, <1>8, ShapeAlone DEF rdvars
  <2>. QED BY <1>1, <1>8, <2>1 DEF rdvars
<1>. QED BY <1>3, <1>4, <1>5, <1>6, <1>7, <1>8 DEF RdvNext, Inside

LEMMA MatchInit == RdvInit => MatchInv
<1> SUFFICES ASSUME RdvInit PROVE ExchangeShape
  BY PatientInit DEF MatchInv
<1>1. stack \in [Threads -> Seq(Slots)]
  BY EmptySeq DEF RdvInit
<1>. QED BY <1>1 DEF RdvInit, ExchangeShape, ShapeOf

(* When no call has a deadline and no thread is cancelled, the arguments   *)
(* of the partner lie on top of each of the two stacks until they are      *)
(* returned.                                                               *)
THEOREM MatchInvariant ==
  ASSUME TimedCallers = {}, Cancellable = {}
  PROVE  RdvSpec => []MatchInv
<1>1. MatchInv /\ [RdvNext]_rdvars => MatchInv'
  BY MatchNext
<1>. QED BY <1>1, MatchInit, PTL DEF RdvSpec

(* Then a call that returns was matched, and returns the arguments of its  *)
(* partner, or the error both get (exchange, l_rendezvous_exchange).       *)
THEOREM ResultsArePartners ==
  ASSUME TimedCallers = {}, Cancellable = {}
  PROVE  RdvSpec => []ExchangeMatches
<1>1. MatchInv => ExchangeMatches
  BY DEF MatchInv, ExchangeShape, ShapeOf, ExchangeMatches
<1>. QED BY <1>1, MatchInvariant, PTL
-----------------------------------------------------------------------------
(* The variables of Exchanger, as Abs gives them.                          *)
Phase == [t \in Threads |-> IF pc[t] = "idle" THEN "out"
                            ELSE IF due[t] = Nil THEN "asking" ELSE "answered"]
Offer == [t \in Threads |-> IF pc[t] = "idle" THEN Nil ELSE Args(t)]
Answer == [t \in Threads |-> IF pc[t] = "ret" THEN ret[t] ELSE due[t]]

(* The answer of a call is what the match owes it, also once it is ready.  *)
LEMMA AnswerIsDue == ASSUME MatchInv PROVE Answer = due
<1>1. \A t \in Threads : (IF pc[t] = "ret" THEN ret[t] ELSE due[t]) = due[t]
  BY DEF MatchInv, ExchangeShape, ShapeOf
<1>2. due = [t \in Threads |-> due[t]]
  BY DEF MatchInv, ExchangeShape
<1>. QED BY <1>1, <1>2 DEF Answer

(* A call asks, a match is a meeting, the return to Lua finishes, and all  *)
(* other steps are invisible.                                              *)
LEMMA StepExchanges ==
  ASSUME TimedCallers = {}, Cancellable = {}, MatchInv, MatchInv', [RdvNext]_rdvars
  PROVE  [Abs!Next]_(Abs!vars)
<1>1. /\ \A t \in Threads : ShapeOf(t) /\ ShapeOf(t)' /\ ~timed[t]
      /\ RdvTypeOK /\ due \in [Threads -> Offers \cup {Nil, Error}]
      /\ Answer = due /\ Answer' = due'
  <2>1. Answer = due
    BY AnswerIsDue
  <2>2. Answer' = due'
    <3>1. \A t \in Threads : (IF pc'[t] = "ret" THEN ret'[t] ELSE due'[t]) = due'[t]
      BY DEF MatchInv, ExchangeShape, ShapeOf
    <3>2. due' = [t \in Threads |-> due'[t]]
      BY DEF MatchInv, ExchangeShape
    <3>. QED BY <3>1, <3>2 DEF Answer
  <2>. QED BY <2>1, <2>2 DEF MatchInv, ExchangeShape, PatientInv, RdvInv
<1> USE DEF Goto
<1>2. ASSUME Phase' = Phase, Offer' = Offer, due' = due PROVE UNCHANGED Abs!vars
  BY <1>1, <1>2 DEF Abs!vars, Phase, Offer, Answer
<1>3. ASSUME NEW t \in Threads, NEW tm \in BOOLEAN, NEW a \in Offers, Call(t, tm, a)
      PROVE  Abs!Ask(t)
  <2>1. Args(t)' = a
    BY <1>3, CallEffect
  <2>2. /\ pc[t] = "idle" /\ pc' = [pc EXCEPT ![t] = "lock"] /\ due' = due /\ due[t] = Nil
    BY <1>1, <1>3 DEF Call, ShapeOf
  <2>3. ASSUME NEW x \in Threads, x # t PROVE Args(x)' = Args(x) /\ pc'[x] = pc[x]
    BY <1>1, <1>3, <2>2, <2>3 DEF Call, Args, RdvTypeOK, MatchInv, ExchangeShape
  <2>4. pc'[t] = "lock"
    BY <1>1, <2>2 DEF RdvTypeOK
  <2>5. Phase[t] = "out" /\ Phase' = [Phase EXCEPT ![t] = "asking"]
    BY <2>2, <2>3, <2>4 DEF Phase
  <2>6. Offer' = [Offer EXCEPT ![t] = a]
    BY <2>1, <2>3, <2>4 DEF Offer
  <2>7. Answer' = Answer
    BY <1>1, <2>2
  <2>. QED BY <2>5, <2>6, <2>7 DEF Abs!Ask, Phase, Offer, Answer
<1>4. ASSUME NEW t \in Threads, Match(t) PROVE \E w \in Threads : Abs!Meet(t, w)
  <2>1. waiter \in Threads
    BY <1>1, <1>4 DEF Match, RdvTypeOK
  <2>2. PICK w \in Threads : w = waiter
    BY <2>1
  <2> DEFINE both == Copyable(Args(t)) /\ Copyable(Args(w))
  <2>3. /\ w # t /\ pc[t] = "in" /\ pc[w] = "blocked"
        /\ pc' = [pc EXCEPT ![t] = "out", ![w] = "woken"]
        /\ due' = [due EXCEPT ![t] = IF both THEN Args(w) ELSE Error,
                              ![w] = IF both THEN Args(t) ELSE Error]
        /\ UNCHANGED <<timed, narg, ret>>
        /\ Args(t)' = Args(t) /\ Args(w)' = Args(w)
        /\ \A x \in Threads \ {t, w} : stack'[x] = stack[x]
    BY <1>4, <2>2, MatchEffect
  <2>4. Args(t) \in Offers /\ Args(w) \in Offers /\ due[t] = Nil /\ due[w] = Nil
    BY <1>1, <2>3 DEF ShapeOf
  <2>5. pc'[t] = "out" /\ pc'[w] = "woken" /\ \A x \in Threads \ {t, w} : pc'[x] = pc[x]
    BY <1>1, <2>3 DEF RdvTypeOK
  <2>6. /\ due'[t] = IF both THEN Args(w) ELSE Error
        /\ due'[w] = IF both THEN Args(t) ELSE Error
        /\ \A x \in Threads \ {t, w} : due'[x] = due[x]
    BY <1>1, <2>3
  <2>7. due'[t] # Nil /\ due'[w] # Nil
    BY <2>4, <2>6, RdvAssumption
  <2>8. \A x \in Threads : Args(x)' = Args(x)
    <3>1. ASSUME NEW x \in Threads \ {t, w} PROVE Args(x)' = Args(x)
      BY <2>3 DEF Args
    <3>. QED BY <2>3, <3>1
  <2>9. Phase[t] = "asking" /\ Phase[w] = "asking" /\ Phase' = [Phase EXCEPT ![t] = "answered", ![w] = "answered"]
    BY <2>3, <2>4, <2>5, <2>6, <2>7 DEF Phase
  <2>10. Offer' = Offer /\ Offer[t] = Args(t) /\ Offer[w] = Args(w)
    BY <2>3, <2>5, <2>8 DEF Offer
  <2>11. both <=> {Offer[t], Offer[w]} \subseteq {a \in Offers : Copyable(a)}
    BY <2>4, <2>10
  <2> HIDE DEF both
  <2>12. Answer' = IF {Offer[t], Offer[w]} \subseteq {a \in Offers : Copyable(a)}
                   THEN [Answer EXCEPT ![t] = Offer[w], ![w] = Offer[t]]
                   ELSE [Answer EXCEPT ![t] = Error, ![w] = Error]
    BY <1>1, <2>3, <2>10, <2>11
  <2>13. Abs!Meet(t, w)
    BY <2>3, <2>9, <2>10, <2>12 DEF Abs!Meet, Phase, Offer, Answer
  <2>. QED BY <2>13
<1>5. ASSUME NEW t \in Threads, Done(t) PROVE Abs!Finish(t)
  <2>1. pc[t] = "ret" /\ pc' = [pc EXCEPT ![t] = "idle"] /\ due' = [due EXCEPT ![t] = Nil]
    BY <1>5 DEF Done
  <2>2. due[t] # Nil /\ pc'[t] = "idle" /\ due'[t] = Nil
    BY <1>1, <2>1 DEF ShapeOf, RdvTypeOK
  <2>3. ASSUME NEW x \in Threads, x # t
        PROVE  Args(x)' = Args(x) /\ pc'[x] = pc[x] /\ due'[x] = due[x]
    BY <1>1, <1>5, <2>1, <2>3 DEF Done, Args, RdvTypeOK, MatchInv, ExchangeShape
  <2>4. Phase[t] = "answered" /\ Phase' = [Phase EXCEPT ![t] = "out"]
    BY <2>1, <2>2, <2>3 DEF Phase
  <2>5. Offer' = [Offer EXCEPT ![t] = Nil]
    BY <2>2, <2>3 DEF Offer
  <2>6. Answer' = [Answer EXCEPT ![t] = Nil]
    BY <1>1, <2>1
  <2>. QED BY <2>4, <2>5, <2>6 DEF Abs!Finish, Phase, Offer, Answer
<1>6. ASSUME NEW t \in Threads, Lock(t) \/ Wait(t) \/ Reacquire(t) \/ Back(t) \/ Unlock(t)
      PROVE  UNCHANGED Abs!vars
  <2>1. UNCHANGED <<stack, narg, timed, due>>
    BY <1>6 DEF Lock, Wait, Reacquire, Back, Unlock
  <2>2. \A x \in Threads : pc'[x] = "idle" <=> pc[x] = "idle"
    BY <1>1, <1>6 DEF Lock, Wait, Reacquire, Back, Unlock, RdvTypeOK
  <2>3. \A x \in Threads : Args(x)' = Args(x)
    BY <2>1 DEF Args
  <2>. QED BY <1>2, <2>1, <2>2, <2>3 DEF Phase, Offer
<1>7. ASSUME NEW t \in Threads, Late(t) \/ LockTimeout(t) \/ Timeout(t) \/ Cancel(t)
      PROVE  FALSE
  BY <1>1, <1>7 DEF Late, LockTimeout, Timeout, Cancel, MatchInv, PatientInv
<1>8. CASE UNCHANGED rdvars
  <2>1. Phase' = Phase /\ Offer' = Offer /\ due' = due
    BY <1>8 DEF rdvars, Phase, Offer, Args
  <2>. QED BY <1>2, <2>1
<1>. QED BY <1>3, <1>4, <1>5, <1>6, <1>7, <1>8 DEF RdvNext, Inside, Abs!Next

(* Without deadlines and cancellation the protocol implements Exchanger:   *)
(* every exchange is a swap of arguments between two calls, at one moment. *)
THEOREM RendezvousExchanges ==
  ASSUME TimedCallers = {}, Cancellable = {}
  PROVE  RdvSpec => ImplementsExchanger
<1>1. RdvInit => Abs!Init
  BY DEF RdvInit, Abs!Init
<1>2. MatchInv /\ MatchInv' /\ [RdvNext]_rdvars => [Abs!Next]_(Abs!vars)
  BY StepExchanges
<1>. QED BY <1>1, <1>2, MatchInvariant, PTL DEF RdvSpec, ImplementsExchanger, Abs!Spec
-----------------------------------------------------------------------------
(* What MatchedReturns rests on: a caller that was matched is past its     *)
(* wait.  No wakeup is lost between the exchange and the signal.           *)
WakeupKept ==
  \A t \in Threads : due[t] # Nil => pc[t] \in {"woken", "back", "out", "ret"}

(* When no call has a deadline and no thread is cancelled, the signal of   *)
(* the second caller has reached the thread it exchanged with              *)
(* (l_rendezvous_exchange).                                                *)
THEOREM NoWakeupLost ==
  ASSUME TimedCallers = {}, Cancellable = {}
  PROVE  RdvSpec => []WakeupKept
<1>1. MatchInv => WakeupKept
  BY DEF MatchInv, PatientInv, RdvInv, RdvTypeOK, ExchangeShape, ShapeOf, WakeupKept
<1>. QED BY <1>1, MatchInvariant, PTL

(* What CallersGetIn rests on: the holder of the mutex is on its way to    *)
(* unlock it or to wait.                                                   *)
HolderGoesOn == mutex # Nil => pc[mutex] \in {"in", "back", "late", "out"}

CancelledOnly == \A t \in Threads : pc[t] \in {"canceled", "dead"} => t \in Cancellable

LEMMA CancelledOnlyNext ==
  ASSUME RdvInv, CancelledOnly, [RdvNext]_rdvars
  PROVE  CancelledOnly'
<1>. USE DEF RdvInv, RdvTypeOK, CancelledOnly, Goto
<1>1. ASSUME NEW t \in Threads, NEW tm \in BOOLEAN, NEW a \in Offers, Call(t, tm, a)
      PROVE  CancelledOnly'
  BY <1>1 DEF Call
<1>2. ASSUME NEW t \in Threads,
             Lock(t) \/ Wait(t) \/ Back(t) \/ Late(t) \/ Unlock(t) \/ Done(t)
      PROVE  CancelledOnly'
  BY <1>2 DEF Lock, Wait, Back, Late, Unlock, Done
<1>3. ASSUME NEW t \in Threads, Match(t) PROVE CancelledOnly'
  <2>1. Signal(t)
    BY <1>3 DEF Match
  <2>. QED BY <2>1 DEF Signal
<1>4. ASSUME NEW t \in Threads, Reacquire(t) PROVE CancelledOnly'
  BY <1>4 DEF Reacquire
<1>5. ASSUME NEW t \in Threads, LockTimeout(t) \/ Timeout(t) \/ Cancel(t)
      PROVE  CancelledOnly'
  BY <1>5 DEF LockTimeout, Timeout, Cancel
<1>6. CASE UNCHANGED rdvars
  BY <1>6 DEF rdvars
<1>. QED BY <1>1, <1>2, <1>3, <1>4, <1>5, <1>6 DEF RdvNext, Inside

(* Where no thread is cancelled, nobody dies with the mutex: whatever      *)
(* deadlines expire, the thread that holds it has a step to take           *)
(* (l_rendezvous_exchange, l_rendezvous_timedexchange).                    *)
THEOREM MutexIsReleased ==
  ASSUME Cancellable = {}
  PROVE  RdvSpec => []HolderGoesOn
<1>1. RdvInit => CancelledOnly
  BY DEF RdvInit, CancelledOnly
<1>2. RdvInv /\ CancelledOnly /\ [RdvNext]_rdvars => CancelledOnly'
  BY CancelledOnlyNext
<1>3. RdvInv /\ CancelledOnly => HolderGoesOn
  BY RdvAssumption DEF RdvInv, RdvTypeOK, Holding, CancelledOnly, HolderGoesOn
<1>. QED BY <1>1, <1>2, <1>3, RdvInvariant, PTL DEF RdvSpec
=============================================================================
