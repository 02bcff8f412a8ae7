--------------------------- MODULE BindingsProofs ---------------------------
(***************************************************************************)
(* The parts of Bindings that have no module of proofs of their own, the   *)
(* event loop and the lists of I/O requests, and then the program as a     *)
(* whole: what was proved of each part on its own holds in it.             *)
(***************************************************************************)
EXTENDS Bindings, HandlesProofs, ZfsIterProofs

-----------------------------------------------------------------------------
(* The event loop, for any number of events and coroutines: the loop of    *)
(* the manual, with one coroutine per event, is never handed a coroutine   *)
(* that Lua has collected, whatever the kernel refuses or removes, and     *)
(* forgets none itself.                                                    *)
Change == [ident : Idents, udata : Coroutines \cup {NoCo}]

EventTypeOK ==
  /\ knote \in [Idents -> Coroutines \cup {NoCo}]
  /\ ready \subseteq Idents
  /\ changes \in Seq(Change)
  /\ threads \subseteq Coroutines
  /\ co \in [Coroutines -> {"none", "suspended", "dead", "freed"}]
  /\ loop \in {"setup", "loop", "wait", "handler", "end", "crash"}
  /\ ev \in [ident : Idents \cup {NoCo}, udata : Coroutines \cup {NoCo}]
  /\ stranded \subseteq Coroutines

(* A thread that the loop knows is neither finished nor collected.         *)
ThreadsSuspended == \A c \in threads : co[c] = "suspended"

(* What is active is in the queue, what is in the queue has been given a   *)
(* coroutine, and no two events have the same.                             *)
QueueShape ==
  /\ \A i \in ready : knote[i] # NoCo
  /\ \A i \in Idents : knote[i] # NoCo => co[knote[i]] # "none"
  /\ \A i, j \in Idents : knote[i] = knote[j] /\ knote[i] # NoCo => i = j

(* While a handler runs, its thread is known and its event the queue's or  *)
(* removed by the kernel, and not in the changelist.                       *)
HandlerShape ==
  loop = "handler" =>
    /\ ev.ident \in Idents /\ ev.udata \in threads
    /\ knote[ev.ident] = ev.udata
         \/ (ev.udata \in stranded /\ \A i \in Idents : knote[i] # ev.udata)
    /\ knote[ev.ident] \in {ev.udata, NoCo}
    /\ \A n \in DOMAIN changes : changes[n].ident # ev.ident /\ changes[n].udata # ev.udata

(* In kevent(2) the changes have been applied: the queue and the table of  *)
(* threads agree.                                                          *)
WaitShape ==
  loop = "wait" =>
    /\ \A i \in Idents : knote[i] # NoCo => knote[i] \in threads
    /\ \A c \in threads \ stranded : \E i \in Idents : knote[i] = c

Collecting == loop \in {"setup", "loop", "handler"}

(* Before that, the changelist has at most one change for an event: an     *)
(* addition of a new thread to an event that is not in the queue, or the   *)
(* deletion of one whose thread is gone.                                   *)
ChangeShape ==
  Collecting =>
    /\ \A n, m \in DOMAIN changes : changes[n].ident = changes[m].ident => n = m
    /\ \A n, m \in DOMAIN changes :
         changes[n].udata = changes[m].udata /\ changes[n].udata # NoCo => n = m
    /\ \A n \in DOMAIN changes :
         changes[n].udata # NoCo =>
           /\ changes[n].udata \in threads
           /\ knote[changes[n].ident] = NoCo
           /\ \A i \in Idents : knote[i] # changes[n].udata
    /\ \A n \in DOMAIN changes :
         changes[n].udata = NoCo => loop = "loop" /\ knote[changes[n].ident] \notin threads

(* An event whose thread is gone is about to be deleted, and a thread has  *)
(* its event in the queue or in the changelist, unless it is stranded.     *)
PendingShape ==
  Collecting =>
    /\ \A i \in Idents :
         knote[i] # NoCo =>
           knote[i] \in threads \/ \E n \in DOMAIN changes : changes[n].ident = i
    /\ \A c \in threads \ stranded :
         \/ \E i \in Idents : knote[i] = c
         \/ \E n \in DOMAIN changes : changes[n].udata = c

EventInv ==
  /\ EventTypeOK
  /\ ThreadsSuspended
  /\ QueueShape
  /\ HandlerShape
  /\ WaitShape
  /\ ChangeShape
  /\ PendingShape
  /\ loop # "crash"
-----------------------------------------------------------------------------
(* A change at the end of the list leaves the others where they are.       *)
LEMMA AppendChange ==
  ASSUME NEW S, NEW s \in Seq(S), NEW e \in S
  PROVE  LET a == Append(s, e)
             k == Len(s) + 1
         IN  /\ a \in Seq(S)
             /\ DOMAIN a = DOMAIN s \cup {k} /\ k \notin DOMAIN s
             /\ a[k] = e
             /\ \A n \in DOMAIN s : a[n] = s[n]
  OBVIOUS

(* The elements of the changelist are changes.                             *)
LEMMA ChangeType ==
  ASSUME changes \in Seq(Change)
  PROVE  \A n \in DOMAIN changes :
           /\ n \in Nat
           /\ changes[n] \in Change
           /\ changes[n].ident \in Idents
           /\ changes[n].udata \in Coroutines \cup {NoCo}
  <1>1. \A n \in DOMAIN changes : n \in Nat /\ changes[n] \in Change
    OBVIOUS
  <1> QED BY <1>1 DEF Change

LEMMA EventInit_Inv == EventInit => EventInv
  BY EventAssumption
  DEF EventAssumption, EventInit, EventInv, EventTypeOK, ThreadsSuspended, QueueShape,
      HandlerShape, WaitShape, ChangeShape, PendingShape, Collecting, NoEvent, Change

(* What the changes F leave out, the others do to the queue: no two are for *)
(* the same event, so each has its effect.                                  *)
LEMMA KeventApplies ==
  ASSUME EventInv, NEW F \in SUBSET DOMAIN changes, Kevent(F),
         \A n \in F : changes[n].udata # NoCo
  PROVE  /\ loop \in {"setup", "loop"} /\ knote' \in [Idents -> Coroutines \cup {NoCo}]
         /\ ready' = {i \in ready : knote'[i] # NoCo}
         /\ \A i \in Idents : knote'[i] # NoCo => knote'[i] \in threads
         /\ \A i, j \in Idents : knote'[i] = knote'[j] /\ knote'[i] # NoCo => i = j
         /\ \A c \in threads \ stranded :
              \/ \E i \in Idents : knote'[i] = c
              \/ \E n \in F : changes[n].udata = c
  <1> USE EventAssumption
      DEF EventAssumption, EventInv, EventTypeOK, QueueShape, ChangeShape, PendingShape,
          Collecting, Change
  <1>1. /\ Collecting /\ loop \in {"setup", "loop"}
        /\ ready' = {i \in ready : knote'[i] # NoCo}
        /\ knote' = [i \in Idents |-> EventAfter(i, DOMAIN changes \ F)]
    BY DEF Kevent
  <1> DEFINE T(i) == {n \in DOMAIN changes \ F : changes[n].ident = i}
  <1>2. ASSUME NEW n \in DOMAIN changes \ F
        PROVE  EventAfter(changes[n].ident, DOMAIN changes \ F) = changes[n].udata
    <2>1. \A m \in DOMAIN changes : m \in Nat /\ (changes[m].ident = changes[n].ident <=> m = n)
      BY <1>1, ChangeType
    <2>2. T(changes[n].ident) = {n}
      BY <2>1
    <2> QED BY <2>1, <2>2 DEF EventAfter
  <1>3. /\ \A n \in DOMAIN changes \ F : knote'[changes[n].ident] = changes[n].udata
        /\ \A i \in Idents :
             \/ knote'[i] = knote[i] /\ \A n \in DOMAIN changes \ F : changes[n].ident # i
             \/ \E n \in DOMAIN changes \ F :
                  changes[n].ident = i /\ knote'[i] = changes[n].udata
    <2>1. \A n \in DOMAIN changes : changes[n].ident \in Idents
      BY ChangeType
    <2>3. \A i \in Idents : knote'[i] = EventAfter(i, DOMAIN changes \ F)
      BY <1>1
    <2>4. \A n \in DOMAIN changes \ F : knote'[changes[n].ident] = changes[n].udata
      BY <1>2, <2>1, <2>3
    <2>2. ASSUME NEW i \in Idents, \A n \in DOMAIN changes \ F : changes[n].ident # i
          PROVE  knote'[i] = knote[i]
      <3>1. T(i) = {}
        BY <2>2
      <3>2. EventAfter(i, DOMAIN changes \ F) = knote[i]
        BY <3>1 DEF EventAfter
      <3> QED BY <2>3, <3>2
    <2>5. ASSUME NEW i \in Idents, NEW n \in DOMAIN changes \ F, changes[n].ident = i
          PROVE  knote'[i] = changes[n].udata
      BY <2>4, <2>5
    <2> HIDE DEF EventInv
    <2> QED BY <2>2, <2>4, <2>5
  <1>4. knote' \in [Idents -> Coroutines \cup {NoCo}]
    <2>1. \A n \in DOMAIN changes : changes[n].udata \in Coroutines \cup {NoCo}
      BY ChangeType
    <2>2. \A i \in Idents : knote'[i] \in Coroutines \cup {NoCo}
      BY <1>3, <2>1
    <2> QED BY <1>1, <2>2
  <1>5. ASSUME NEW i \in Idents, knote'[i] # NoCo PROVE knote'[i] \in threads
    <2>1. CASE \E n \in DOMAIN changes \ F : changes[n].ident = i /\ knote'[i] = changes[n].udata
      BY <1>1, <1>5, <2>1
    <2>2. CASE knote'[i] = knote[i] /\ \A n \in DOMAIN changes \ F : changes[n].ident # i
      <3>1. \A n \in F : changes[n].ident # i
        BY <1>1, <1>5, <2>2
      <3> QED BY <1>1, <1>5, <2>2, <3>1
    <2> QED BY <1>3, <2>1, <2>2
  <1>6. ASSUME NEW i \in Idents, NEW j \in Idents, knote'[i] = knote'[j], knote'[i] # NoCo
        PROVE  i = j
    <2> DEFINE New(a) == \E n \in DOMAIN changes \ F :
                           changes[n].ident = a /\ knote'[a] = changes[n].udata
               Old(a) == knote'[a] = knote[a]
    <2>1. (New(i) \/ Old(i)) /\ (New(j) \/ Old(j))
      BY <1>3
    <2>2. CASE New(i) /\ New(j)
      BY <1>1, <1>6, <2>2
    <2>3. CASE New(i) /\ Old(j)
      BY <1>1, <1>6, <2>3
    <2>4. CASE Old(i) /\ New(j)
      BY <1>1, <1>6, <2>4
    <2>5. CASE Old(i) /\ Old(j)
      <3>1. knote[i] = knote[j] /\ knote[i] # NoCo
        BY ONLY <1>6, <2>5
      <3> QED BY <3>1
    <2> QED BY <2>1, <2>2, <2>3, <2>4, <2>5
  <1>7. ASSUME NEW c \in threads \ stranded
        PROVE  (\E i \in Idents : knote'[i] = c) \/ \E n \in F : changes[n].udata = c
    <2>1. CASE \E n \in DOMAIN changes : changes[n].udata = c
      <3>1. PICK n \in DOMAIN changes : changes[n].udata = c
        BY <2>1
      <3> QED BY <1>3, <3>1, ChangeType
    <2>2. CASE \E i \in Idents : knote[i] = c
      <3>1. PICK i \in Idents : knote[i] = c
        BY <2>2
      <3>2. \A n \in DOMAIN changes : changes[n].ident # i
        BY <1>1, <3>1, SMTT(30)
      <3> QED BY <1>3, <3>1, <3>2
    <2> QED BY <1>1, <2>1, <2>2
  <1> QED BY <1>1, <1>4, <1>5, <1>6, <1>7

LEMMA EventNext_Inv ==
  ASSUME Share = FALSE, Reuse = FALSE, EventInv, [EventNext]_evVars
  PROVE  EventInv'
  <1> USE EventAssumption
      DEF EventAssumption, EventInv, EventTypeOK, ThreadsSuspended, QueueShape,
          HandlerShape, WaitShape, ChangeShape, PendingShape, Collecting, NoEvent, Change
  <1>1. ASSUME NEW i \in Idents, Activate(i) PROVE EventInv'
    BY <1>1 DEF Activate
  <1>2. ASSUME NEW i \in Idents, KeventReturn(i) PROVE EventInv'
    BY <1>2 DEF KeventReturn
  <1>3. ASSUME NEW i \in Idents, NEW c \in Coroutines, InsertChange(i, c) PROVE EventInv'
    <2> DEFINE e == [ident |-> i, udata |-> c]
               k == Len(changes) + 1
    <2>1. /\ loop \in {"setup", "handler"} /\ co[c] = "none" /\ ~InUse(i)
          /\ changes' = Append(changes, e)
          /\ threads' = threads \cup {c}
          /\ co' = [co EXCEPT ![c] = "suspended"]
          /\ UNCHANGED <<knote, ready, loop, ev, stranded>>
      BY <1>3 DEF InsertChange
    <2>2. /\ changes' \in Seq(Change)
          /\ DOMAIN changes' = DOMAIN changes \cup {k} /\ k \notin DOMAIN changes
          /\ changes'[k] = e
          /\ \A n \in DOMAIN changes : changes'[n] = changes[n]
      BY <2>1, AppendChange
    <2>3. c \notin threads /\ \A j \in Idents : knote[j] # c
      BY <2>1
    <2>4. /\ \A n \in DOMAIN changes : changes[n] \in Change
          /\ \A n \in DOMAIN changes : changes[n].ident # i
          /\ knote[i] = NoCo /\ ev.ident # i
      BY <2>1, ChangeType DEF InUse
    <2> HIDE DEF k
    <2>5. EventTypeOK'
      BY <2>1, <2>2
    <2>6. ThreadsSuspended' /\ QueueShape' /\ WaitShape'
      BY <2>1, <2>3
    <2>9. HandlerShape'
      BY <2>1, <2>2, <2>4
    <2>7. ChangeShape'
      BY <2>1, <2>2, <2>3, <2>4
    <2>8. PendingShape'
      BY <2>1, <2>2, SMTT(30)
    <2> QED BY <2>1, <2>5, <2>6, <2>7, <2>8, <2>9
  <1>4. ASSUME NEW c \in Coroutines, CollectCoroutine(c) PROVE EventInv'
    BY <1>4 DEF CollectCoroutine
  <1>5. ASSUME KeventWaits PROVE EventInv'
    <2>1. /\ Kevent({}) /\ loop' = "wait"
          /\ UNCHANGED <<changes, threads, co, ev, stranded>>
      BY <1>5 DEF KeventWaits
    <2>2. EventTypeOK' /\ ThreadsSuspended' /\ HandlerShape' /\ ChangeShape' /\ PendingShape'
      BY <2>1, KeventApplies
    <2>3. QueueShape' /\ WaitShape'
      BY <2>1, KeventApplies
    <2> QED BY <2>1, <2>2, <2>3
  <1>10. ASSUME NEW n \in DOMAIN changes, KeventError(n) PROVE EventInv'
    <2> DEFINE thread == changes[n].udata
               F == IF thread = NoCo THEN {} ELSE {n}
    <2>1. /\ Kevent(F) /\ loop' = "loop" /\ UNCHANGED <<co, ev>>
          /\ stranded' = stranded \cup ({thread} \ {NoCo})
          /\ thread # NoCo => thread \in threads
          /\ thread \in Coroutines \cup {NoCo}
      BY <1>10, ChangeType DEF KeventError, Kevent
    <2>2. changes' = <<>> /\ threads' = threads
      BY <1>10, <2>1 DEF KeventError
    <2>3. \A m \in F : changes[m].udata \in stranded'
      BY <2>1
    <2>4. F \in SUBSET DOMAIN changes /\ \A m \in F : changes[m].udata # NoCo
      OBVIOUS
    <2>5. stranded \subseteq stranded' /\ stranded' \subseteq Coroutines
      BY <2>1
    <2> HIDE DEF F
    <2>6. /\ loop \in {"setup", "loop"} /\ knote' \in [Idents -> Coroutines \cup {NoCo}]
          /\ ready' = {i \in ready : knote'[i] # NoCo}
          /\ \A i \in Idents : knote'[i] # NoCo => knote'[i] \in threads
          /\ \A i, j \in Idents : knote'[i] = knote'[j] /\ knote'[i] # NoCo => i = j
          /\ \A c \in threads \ stranded :
               \/ \E i \in Idents : knote'[i] = c
               \/ \E m \in F : changes[m].udata = c
      <3> HIDE DEF EventInv
      <3>1. EventInv /\ Kevent(F)
        BY <2>1 DEF EventInv
      <3> QED BY <2>4, <3>1, KeventApplies
    <2>7. \A c \in threads \ stranded' : \E i \in Idents : knote'[i] = c
      BY <2>3, <2>5, <2>6
    <2>8. EventTypeOK' /\ ThreadsSuspended' /\ HandlerShape' /\ ChangeShape' /\ WaitShape'
      BY <2>1, <2>2, <2>5, <2>6
    <2>9. QueueShape' /\ PendingShape'
      BY <2>1, <2>2, <2>6, <2>7
    <2> QED BY <2>1, <2>8, <2>9
  <1>11. ASSUME KeventFails PROVE EventInv'
    BY <1>11 DEF KeventFails
  <1>12. ASSUME NEW i \in Idents, KernelRemoves(i) PROVE EventInv'
    <2>1. /\ knote[i] # NoCo /\ knote' = [knote EXCEPT ![i] = NoCo] /\ ready' = ready \ {i}
          /\ stranded' = stranded \cup {knote[i]}
          /\ UNCHANGED <<changes, threads, co, loop, ev>>
      BY <1>12 DEF KernelRemoves
    <2>2. EventTypeOK' /\ ThreadsSuspended' /\ QueueShape' /\ WaitShape'
      BY <2>1
    <2>3. HandlerShape'
      BY <2>1
    <2>4. ChangeShape'
      BY <2>1, ChangeType
    <2>5. PendingShape'
      BY <2>1
    <2> QED BY <2>1, <2>2, <2>3, <2>4, <2>5
  <1>6. ASSUME HandlerYields PROVE EventInv'
    BY <1>6 DEF HandlerYields
  <1>7. ASSUME HandlerDies PROVE EventInv'
    <2> DEFINE e == [ident |-> ev.ident, udata |-> NoCo]
               k == Len(changes) + 1
    <2>1. /\ loop = "handler" /\ loop' = "loop"
          /\ ev.ident \in Idents /\ ev.udata \in threads
          /\ knote[ev.ident] \in {ev.udata, NoCo}
          /\ \A i \in Idents : knote[i] = ev.udata => i = ev.ident
          /\ changes' = Append(changes, e)
          /\ threads' = threads \ {ev.udata}
          /\ co' = [co EXCEPT ![ev.udata] = "dead"]
          /\ ev' = NoEvent
          /\ UNCHANGED <<knote, ready, stranded>>
      BY <1>7 DEF HandlerDies
    <2>2. /\ changes' \in Seq(Change)
          /\ DOMAIN changes' = DOMAIN changes \cup {k} /\ k \notin DOMAIN changes
          /\ changes'[k] = e
          /\ \A n \in DOMAIN changes : changes'[n] = changes[n]
      BY <2>1, AppendChange
    <2>3. \A n \in DOMAIN changes :
            /\ changes[n] \in Change
            /\ changes[n].udata \in threads \ {ev.udata}
            /\ changes[n].ident # ev.ident
      BY <2>1, ChangeType
    <2> HIDE DEF k
    <2>4. EventTypeOK'
      BY <2>1, <2>2
    <2>5. /\ ThreadsSuspended' /\ HandlerShape' /\ WaitShape'
          /\ QueueShape'
      <3>1. \A c \in Coroutines : co'[c] = IF c = ev.udata THEN "dead" ELSE co[c]
        BY <2>1
      <3>2. ThreadsSuspended'
        BY <2>1, <3>1
      <3>3. QueueShape'
        BY <2>1, <3>1
      <3>4. HandlerShape' /\ WaitShape'
        BY <2>1
      <3> QED BY <3>2, <3>3, <3>4
    <2>6. ChangeShape'
      BY <2>1, <2>2, <2>3
    <2>7. PendingShape'
      BY <2>1, <2>2, <2>3
    <2> QED BY <2>1, <2>4, <2>5, <2>6, <2>7
  <1>8. ASSUME LoopEnds PROVE EventInv'
    BY <1>8 DEF LoopEnds
  <1>9. CASE UNCHANGED evVars
    BY <1>9 DEF evVars
  <1> HIDE DEF EventInv
  <1> QED BY <1>1, <1>2, <1>3, <1>4, <1>5, <1>6, <1>7, <1>8, <1>9, <1>10, <1>11, <1>12
        DEF EventNext

(* Where a coroutine handles one event, an event in use is not given to    *)
(* another coroutine and a handler does not give away the one it handles,  *)
(* EventInv is invariant: queue, changelist and table of threads agree,    *)
(* but for the threads whose event the kernel refused or removed.          *)
THEOREM EventInvariant ==
  ASSUME Share = FALSE, Reuse = FALSE
  PROVE  EventSpec => []EventInv
  <1>1. EventInv /\ [EventNext]_evVars => EventInv'
    BY EventNext_Inv
  <1> QED BY <1>1, EventInit_Inv, PTL DEF EventSpec

(* Then kevent(2) never returns the address of a collected coroutine: the  *)
(* deletion queued by the loop is applied before the next event is read.   *)
THEOREM EventsReachLiveThreads ==
  ASSUME Share = FALSE, Reuse = FALSE
  PROVE  EventSpec => []EventsLive
  <1>1. EventInv => EventsLive
    BY DEF EventInv, EventsLive
  <1> QED BY <1>1, EventInvariant, PTL

(* And every thread the loop waits for can still be called, unless the     *)
(* kernel refused or removed its event: the loop loses none by itself, on  *)
(* its EV_ERROR branch either (sys/event/test.lua:57).                     *)
THEOREM NoThreadForgotten ==
  ASSUME Share = FALSE, Reuse = FALSE
  PROVE  EventSpec => []HandlersHaveEvents
  <1>1. EventInv => HandlersHaveEvents
    BY DEF EventInv, EventTypeOK, WaitShape, PendingShape, Collecting, HandlersHaveEvents
  <1> QED BY <1>1, EventInvariant, PTL
-----------------------------------------------------------------------------
(* Lists of I/O requests, for any number of requests and lists of any      *)
(* length: aio.listio leaves every request in a state that is true, but    *)
(* for those that its two faulty error paths hurt.                         *)
Slot == [c : Requests, was : {"UNINIT", "INIT"}]

ListioTypeOK ==
  /\ lop \in [Requests -> {"read", "write"}]
  /\ lstate \in [Requests -> {"UNINIT", "INIT", "PENDING"}]
  /\ lbase \in [Requests -> {"UNINIT", "INIT"}]
  /\ filled \subseteq Requests
  /\ lkern \in [Requests -> {"none", "active", "done", "failed"}]
  /\ entries \in Seq(Requests \cup {NoRequest})
  /\ slots \in Seq(Slot)
  /\ lpc \in {"idle", "claim"}
  /\ hurt \subseteq Requests

(* The slots are the first elements of the list; between calls there are   *)
(* none.                                                                   *)
SlotShape ==
  /\ lpc = "idle" => slots = <<>>
  /\ Len(slots) <= Len(entries)
  /\ \A i \in DOMAIN slots : slots[i].c = entries[i]

(* A request in a slot is PENDING, not the kernel's, in no other slot, and *)
(* was true before.                                                        *)
SlotTrue ==
  \A i \in DOMAIN slots :
    slots[i].c \notin hurt =>
      /\ lstate[slots[i].c] = "PENDING"
      /\ lkern[slots[i].c] = "none"
      /\ slots[i].was = "INIT" => slots[i].c \in filled
      /\ \A j \in DOMAIN slots : slots[j].c = slots[i].c => j = i

(* Where the code takes the contents of a buffer for granted they are      *)
(* there.                                                                  *)
FilledTrue ==
  \A c \in Requests \ hurt :
    (\/ lbase[c] = "INIT"
     \/ lstate[c] = "PENDING" /\ lop[c] = "write"
     \/ lkern[c] = "done") => c \in filled

LioInv ==
  /\ ListioTypeOK
  /\ SlotShape
  /\ ListStatesTrue
  /\ SlotTrue
  /\ FilledTrue
-----------------------------------------------------------------------------
(* The elements of the slots are slots.                                    *)
LEMMA SlotType ==
  ASSUME ListioTypeOK
  PROVE  /\ Len(slots) \in Nat /\ DOMAIN slots = 1..Len(slots)
         /\ Len(entries) \in Nat /\ DOMAIN entries = 1..Len(entries)
         /\ \A i \in DOMAIN slots :
              /\ slots[i] \in Slot
              /\ slots[i].c \in Requests
              /\ slots[i].was \in {"UNINIT", "INIT"}
         /\ \A i \in DOMAIN entries : entries[i] \in Requests \cup {NoRequest}
  <1>1. slots \in Seq(Slot) /\ entries \in Seq(Requests \cup {NoRequest})
    BY DEF ListioTypeOK
  <1>2. \A i \in DOMAIN slots : slots[i] \in Slot
    BY <1>1
  <1> QED BY <1>1, <1>2 DEF Slot

(* rollback_states stores states that were found before.                   *)
LEMMA RollbackType ==
  ASSUME ListioTypeOK
  PROVE  RollbackStates(Len(slots)) \in [Requests -> {"UNINIT", "INIT", "PENDING"}]
  <1> SUFFICES ASSUME NEW c \in Requests, \E i \in 1..Len(slots) : slots[i].c = c
               PROVE  slots[CHOOSE i \in 1..Len(slots) : slots[i].c = c].was
                        \in {"UNINIT", "INIT", "PENDING"}
    BY DEF RollbackStates, ListioTypeOK
  <1> DEFINE k == CHOOSE i \in 1..Len(slots) : slots[i].c = c
  <1>1. k \in 1..Len(slots)
    OBVIOUS
  <1> HIDE DEF k
  <1>2. slots[k].was \in {"UNINIT", "INIT"}
    BY <1>1, SlotType
  <1> QED BY <1>2 DEF k

(* A request that is not hurt is in one slot, so it gets its own state     *)
(* back, and the requests that were not claimed keep theirs.               *)
LEMMA RollbackRestores ==
  ASSUME ListioTypeOK, SlotTrue
  PROVE  /\ \A i \in DOMAIN slots :
              slots[i].c \notin hurt => RollbackStates(Len(slots))[slots[i].c] = slots[i].was
         /\ \A c \in Requests \ Claimed : RollbackStates(Len(slots))[c] = lstate[c]
  <1>1. DOMAIN slots = 1..Len(slots) /\ \A i \in DOMAIN slots : slots[i].c \in Requests
    BY SlotType
  <1>2. ASSUME NEW i \in DOMAIN slots, slots[i].c \notin hurt
        PROVE  RollbackStates(Len(slots))[slots[i].c] = slots[i].was
    <2> DEFINE k == CHOOSE j \in 1..Len(slots) : slots[j].c = slots[i].c
    <2>1. k \in 1..Len(slots) /\ slots[k].c = slots[i].c
      BY <1>1
    <2> HIDE DEF k
    <2>2. k = i
      BY <1>1, <1>2, <2>1 DEF SlotTrue
    <2> QED BY <1>1, <2>1, <2>2 DEF RollbackStates, k
  <1>3. ASSUME NEW c \in Requests \ Claimed
        PROVE  RollbackStates(Len(slots))[c] = lstate[c]
    BY <1>1 DEF RollbackStates, Claimed
  <1> QED BY <1>2, <1>3

(* A call that ends, having rolled back and queued nothing, but for the    *)
(* requests that it hurts.                                                 *)
LEMMA GivesBack ==
  ASSUME LioInv, lpc' = "idle", entries' = <<>>, slots' = <<>>,
         lstate' \in [Requests -> {"UNINIT", "INIT", "PENDING"}],
         lkern' \in [Requests -> {"none", "active", "done", "failed"}],
         hurt \subseteq hurt', hurt' \subseteq Requests,
         \A c \in Requests \ hurt' : /\ lstate'[c] = RollbackStates(Len(slots))[c]
                                     /\ lkern'[c] = lkern[c],
         UNCHANGED <<lop, lbase, filled>>
  PROVE  LioInv'
  <1>1. ListioTypeOK' /\ SlotShape'
    BY DEF LioInv, ListioTypeOK, SlotShape
  <1> DEFINE R == RollbackStates(Len(slots))
  <1>2. /\ ListioTypeOK /\ ListStatesTrue /\ SlotTrue /\ FilledTrue
        /\ \A c \in Requests \ hurt' : lstate'[c] = R[c] /\ lkern'[c] = lkern[c]
    BY DEF LioInv
  <1>3. /\ \A i \in DOMAIN slots : slots[i].c \notin hurt => R[slots[i].c] = slots[i].was
        /\ \A c \in Requests \ Claimed : R[c] = lstate[c]
    BY <1>2, RollbackRestores
  <1> HIDE DEF R
  <1>4. \A i \in DOMAIN slots : slots[i].was \in {"UNINIT", "INIT"}
    BY <1>2, SlotType
  <1>5. ASSUME NEW c \in Requests \ hurt'
        PROVE  /\ c \in Claimed => /\ lstate'[c] \in {"UNINIT", "INIT"} /\ lkern'[c] = "none"
                                   /\ lstate'[c] = "INIT" => c \in filled
               /\ c \notin Claimed => lstate'[c] = lstate[c] /\ lkern'[c] = lkern[c]
    <2>1. CASE c \in Claimed
      <3>1. PICK i \in DOMAIN slots : slots[i].c = c
        BY <2>1 DEF Claimed
      <3>2. c \notin hurt /\ lstate'[c] = slots[i].was /\ lkern'[c] = lkern[c]
        BY <1>2, <1>3, <1>5, <3>1
      <3> QED BY <1>2, <1>4, <2>1, <3>1, <3>2 DEF SlotTrue
    <2>2. CASE c \notin Claimed
      BY <1>2, <1>3, <1>5, <2>2
    <2> QED BY <2>1, <2>2
  <1>6. ListStatesTrue'
    BY <1>2, <1>5 DEF ListStatesTrue, Claimed
  <1>7. SlotTrue'
    BY DEF SlotTrue
  <1>8. FilledTrue'
    BY <1>2, <1>5 DEF FilledTrue
  <1> QED BY <1>1, <1>6, <1>7, <1>8 DEF LioInv

LEMMA ListioInit_Inv == ListioInit => LioInv
  BY DEF ListioInit, LioInv, ListioTypeOK, SlotShape, SlotTrue, FilledTrue, ListStatesTrue,
         Slot

LEMMA ListioNext_Inv == LioInv /\ [ListioNext]_lioVars => LioInv'
  <1> SUFFICES ASSUME LioInv, [ListioNext]_lioVars PROVE LioInv'
    OBVIOUS
  <1>0. ListioTypeOK /\ SlotShape /\ ListStatesTrue /\ SlotTrue /\ FilledTrue
    BY DEF LioInv
  <1>1. ASSUME NEW es \in Lists, ListBegin(es) PROVE LioInv'
    <2>1. es \in Seq(Requests \cup {NoRequest})
      BY ListioAssumption DEF Lists, ListioAssumption
    <2>2. /\ lpc = "idle" /\ slots' = <<>> /\ slots = <<>> /\ entries' = es
          /\ UNCHANGED <<lop, lstate, lbase, filled, lkern, hurt>>
      BY <1>0, <1>1 DEF ListBegin, SlotShape
    <2>3. ListioTypeOK' /\ SlotShape'
      BY <1>0, <1>1, <2>1, <2>2 DEF ListBegin, ListioTypeOK, SlotShape
    <2>4. SlotTrue' /\ FilledTrue'
      BY <1>0, <2>2 DEF SlotTrue, FilledTrue
    <2>5. ListStatesTrue'
      BY <1>0, <2>2 DEF ListStatesTrue, Claimed
    <2> QED BY <2>3, <2>4, <2>5 DEF LioInv
  <1>2. ASSUME ListClaim PROVE LioInv'
    <2> DEFINE k == Len(slots) + 1
               x == NextEntry
               e == [c |-> x, was |-> lstate[x]]
    <2>1. /\ k \in DOMAIN entries /\ x = entries[k] /\ x \in Requests /\ Claimable(x)
          /\ lstate[x] \in {"UNINIT", "INIT"} /\ k <= Len(entries)
      BY <1>0, <1>2, SlotType, ListioAssumption
      DEF ListClaim, Claiming, NextEntry, Claimable, ListioAssumption
    <2>2. /\ lstate' = [lstate EXCEPT ![x] = "PENDING"]
          /\ UNCHANGED <<lop, lbase, filled, lkern, entries, lpc, hurt>>
          /\ lpc = "claim"
      BY <1>2 DEF ListClaim, Claiming
    <2>3. /\ slots' \in Seq(Slot) /\ Len(slots') = k
          /\ DOMAIN slots' = DOMAIN slots \cup {k} /\ k \notin DOMAIN slots
          /\ slots'[k].c = x /\ slots'[k].was = lstate[x]
          /\ \A i \in DOMAIN slots : slots'[i] = slots[i]
      <3>1. slots \in Seq(Slot) /\ e \in Slot /\ slots' = Append(slots, e)
        BY <1>0, <1>2, <2>1 DEF ListioTypeOK, Slot, ListClaim
      <3>2. e.c = x /\ e.was = lstate[x]
        OBVIOUS
      <3> HIDE DEF e
      <3> QED BY <3>1, <3>2
    <2>4. ListioTypeOK' /\ SlotShape'
      BY <1>0, <2>1, <2>2, <2>3, SlotType DEF ListioTypeOK, SlotShape
    <2> HIDE DEF k, x
    <2>5. Claimed' = Claimed \cup {x}
      BY <2>3 DEF Claimed
    <2>6. x \notin hurt => /\ lkern[x] = "none" /\ (lstate[x] = "INIT" => x \in filled)
                           /\ \A i \in DOMAIN slots : slots[i].c # x
      BY <1>0, <2>1 DEF ListStatesTrue, ListioTypeOK, SlotTrue
    <2>7. ListStatesTrue'
      BY <1>0, <2>1, <2>2, <2>5, <2>6 DEF ListStatesTrue, ListioTypeOK
    <2>8. SlotTrue'
      <3>1. ASSUME NEW i \in DOMAIN slots', slots'[i].c \notin hurt
            PROVE  /\ lstate'[slots'[i].c] = "PENDING" /\ lkern[slots'[i].c] = "none"
                   /\ slots'[i].was = "INIT" => slots'[i].c \in filled
                   /\ \A j \in DOMAIN slots' : slots'[j].c = slots'[i].c => j = i
        <4>1. CASE i = k
          BY <1>0, <2>1, <2>2, <2>3, <2>6, <3>1, <4>1 DEF ListioTypeOK
        <4>2. CASE i \in DOMAIN slots
          <5>1. /\ slots[i].c \notin hurt /\ slots'[i] = slots[i] /\ slots[i].c \in Requests
                /\ slots[i].c = x => x \notin hurt
            BY <1>0, <2>3, <3>1, <4>2, SlotType
          <5>2. slots[i].c # x
            BY <2>6, <4>2, <5>1
          <5> QED BY <1>0, <2>2, <2>3, <4>2, <5>1, <5>2 DEF SlotTrue, ListioTypeOK
        <4> QED BY <2>3, <3>1, <4>1, <4>2
      <3> QED BY <2>2, <3>1 DEF SlotTrue
    <2>9. FilledTrue'
      BY <1>0, <2>1, <2>2, <2>6 DEF FilledTrue, Claimable, ListioTypeOK
    <2> QED BY <2>4, <2>7, <2>8, <2>9 DEF LioInv
  <1>3. ASSUME ListInvalid PROVE LioInv'
    BY <1>0, <1>3, RollbackType, GivesBack DEF ListInvalid, ListioTypeOK
  <1>4. ASSUME ListRefused PROVE LioInv'
    <2>1. NextEntry \in Requests
      BY <1>0, <1>4, SlotType, ListioAssumption
      DEF ListRefused, Claiming, NextEntry, ListioAssumption
    <2>2. PICK stray \in SUBSET Requests :
            /\ lstate' = [c \in Requests |-> IF c \in stray THEN lstate[NextEntry]
                                             ELSE RollbackStates(Len(slots))[c]]
            /\ hurt' = hurt \cup stray
      BY <1>4 DEF ListRefused
    <2>3. lstate' \in [Requests -> {"UNINIT", "INIT", "PENDING"}]
      BY <1>0, <2>1, <2>2, RollbackType DEF ListioTypeOK
    <2>4. /\ lpc' = "idle" /\ entries' = <<>> /\ slots' = <<>>
          /\ UNCHANGED <<lop, lbase, filled, lkern>>
      BY <1>4 DEF ListRefused
    <2>5. /\ hurt \subseteq hurt' /\ hurt' \subseteq Requests
          /\ lkern' \in [Requests -> {"none", "active", "done", "failed"}]
          /\ \A c \in Requests \ hurt' : /\ lstate'[c] = RollbackStates(Len(slots))[c]
                                         /\ lkern'[c] = lkern[c]
      BY <1>0, <2>2, <2>4 DEF ListioTypeOK
    <2> QED BY <2>3, <2>4, <2>5, GivesBack
  <1>5. ASSUME ListSubmit PROVE LioInv'
    <2>1. Claimed \subseteq Requests
      BY <1>0, SlotType DEF Claimed
    <2>2. /\ lkern' = [c \in Requests |-> IF c \in Claimed THEN "active" ELSE lkern[c]]
          /\ lpc' = "idle" /\ entries' = <<>> /\ slots' = <<>>
          /\ UNCHANGED <<lop, lstate, lbase, filled, hurt>>
      BY <1>5 DEF ListSubmit, Queued
    <2>3. ListioTypeOK' /\ SlotShape'
      BY <1>0, <2>2 DEF ListioTypeOK, SlotShape
    <2>4. SlotTrue' /\ FilledTrue'
      BY <1>0, <2>2 DEF SlotTrue, FilledTrue
    <2>5. ListStatesTrue'
      BY <1>0, <2>2 DEF ListStatesTrue, SlotTrue, Claimed
    <2> QED BY <2>3, <2>4, <2>5 DEF LioInv
  <1>6. ASSUME ListSubmitFails PROVE LioInv'
    <2>1. PICK cs \in SUBSET Claimed : lkern' = Queued(cs) /\ hurt' = hurt \cup cs
      BY <1>6 DEF ListSubmitFails
    <2>2. Claimed \subseteq Requests
      BY <1>0, SlotType DEF Claimed
    <2>3. /\ lpc' = "idle" /\ entries' = <<>> /\ slots' = <<>>
          /\ lstate' = RollbackStates(Len(slots)) /\ UNCHANGED <<lop, lbase, filled>>
      BY <1>6 DEF ListSubmitFails
    <2>4. /\ lkern' \in [Requests -> {"none", "active", "done", "failed"}]
          /\ hurt \subseteq hurt' /\ hurt' \subseteq Requests
          /\ \A c \in Requests \ hurt' : lkern'[c] = lkern[c]
      BY <1>0, <2>1, <2>2 DEF Queued, ListioTypeOK
    <2> QED BY <1>0, <2>3, <2>4, RollbackType, GivesBack
  <1> USE <1>0, SlotType
      DEF ListioTypeOK, SlotShape, SlotTrue, FilledTrue, ListStatesTrue, Claimed, Claimable,
          LioInv
  <1>7. ASSUME NEW c \in Requests, SubmitOne(c) PROVE LioInv'
    BY <1>7, SMTT(30) DEF SubmitOne, Queued
  <1>8. ASSUME NEW c \in Requests, CompleteOne(c) PROVE LioInv'
    BY <1>8, SMTT(30) DEF CompleteOne
  <1>9. ASSUME NEW c \in Requests, ReturnOne(c) PROVE LioInv'
    BY <1>9, SMTT(30) DEF ReturnOne
  <1>10. CASE UNCHANGED lioVars
    BY <1>10 DEF lioVars
  <1> HIDE DEF LioInv
  <1> QED
    BY <1>1, <1>2, <1>3, <1>4, <1>5, <1>6, <1>7, <1>8, <1>9, <1>10 DEF ListioNext

(* Slots, states and kernel agree while one list call runs among other     *)
(* threads' submissions, whatever its list and wherever it fails, for all  *)
(* requests but those that lua_aio.c:753 and :762 hurt.                    *)
THEOREM LioInvariant == ListioSpec => []LioInv
  BY ListioInit_Inv, ListioNext_Inv, PTL DEF ListioSpec

(* So rollback_states loses no request and restores each to what it was,   *)
(* on every path but these two (l_lio_listio).                             *)
THEOREM ListKeepsStatesTrue == ListioSpec => []ListStatesTrue
  <1>1. LioInv => ListStatesTrue
    BY DEF LioInv
  <1> QED BY <1>1, LioInvariant, PTL
-----------------------------------------------------------------------------
(* The program as a whole.  A step of one part leaves the others alone, so *)
(* that a behaviour of the program is one of each part.                    *)
LEMMA StepOfEach ==
  ASSUME [BindingsNext]_<<hVars, iterVars, evVars, lioVars>>
  PROVE  /\ [HandlesNext]_hVars
         /\ [IterNext]_iterVars
         /\ [EventNext]_evVars
         /\ [ListioNext]_lioVars
BY DEF BindingsNext

(* Bindings.tla: whatever part a program uses, it sees of every part a     *)
(* behaviour of that part's specification.                                 *)
THEOREM PartsCompose ==
  BindingsSpec => HandlesSpec /\ IterSpec /\ EventSpec /\ ListioSpec
<1>1. BindingsInit => HandlesInit /\ IterInit /\ EventInit /\ ListioInit
  BY DEF BindingsInit
<1>. QED BY <1>1, StepOfEach, PTL DEF BindingsSpec, HandlesSpec, IterSpec, EventSpec, ListioSpec

(* So what the parts promise holds in the program.  The hypotheses are     *)
(* those of the parts: duties that cover what the tables say functions do, *)
(* and, in the event loop, one coroutine per event and one event per       *)
(* identifier (lua_event.c: "Dealing with this is up to the user").        *)
ProgramSafe ==
  /\ UsesLive /\ FreedOnce /\ NoDangling /\ NothingLeft
  /\ CallbackGetsShifted /\ IterResults
  /\ EventsLive /\ HandlersHaveEvents
  /\ ListStatesTrue

THEOREM ProgramsAreSafe ==
  ASSUME DutiesCover, Share = FALSE, Reuse = FALSE
  PROVE  BindingsSpec => []ProgramSafe
<1>1. HandlesSpec => [](UsesLive /\ FreedOnce /\ NoDangling /\ NothingLeft)
  BY LiveUses, FreesOnce, NoneDangling, AllGivenBack, PTL
<1>2. IterSpec => [](CallbackGetsShifted /\ IterResults)
  BY ArgsShifted, ResultsRight, PTL
<1>3. EventSpec => [](EventsLive /\ HandlersHaveEvents)
  BY EventsReachLiveThreads, NoThreadForgotten, PTL
<1>4. ListioSpec => []ListStatesTrue
  BY ListKeepsStatesTrue
<1>. QED BY <1>1, <1>2, <1>3, <1>4, PartsCompose, PTL DEF ProgramSafe
=============================================================================
