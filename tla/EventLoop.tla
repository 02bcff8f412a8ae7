----------------------------- MODULE EventLoop ------------------------------
(* sys.event: the address of a coroutine is stored in the kernel with an      *)
(* event and comes back with it.  "This pointer has to outlive the event in   *)
(* the kqueue, but the kernel doesn't tell us when the event is removed.      *)
(* Dealing with this is up to the user" (lua_event.c).  The user is the event *)
(* loop of sys/event/test.lua, which the manual page also prints.             *)
EXTENDS Naturals, Sequences

CONSTANTS Idents,      \* idents of events (the filter is always the same)
          Coroutines,
          NoCo,        \* no coroutine: NULL
          Share,       \* a coroutine handles several events, or an event is
                       \* given to another coroutine
          Reuse,       \* a handler closes its descriptor and gives the number,
                       \* opened anew, to another coroutine before it returns
          MaxChanges   \* bound on the changelist

ASSUME EventAssumption ==
    /\ NoCo \notin Coroutines
    /\ Share \in BOOLEAN /\ Reuse \in BOOLEAN
    /\ MaxChanges \in Nat

VARIABLES knote,     \* knote[i]: udata of the event i in the kqueue
          ready,     \* events that are active
          changes,   \* changelist
          threads,   \* the table of that name
          co,        \* co[c]: a coroutine's status, "freed" once collected
          loop,      \* setup, loop, wait (in kevent), handler, end, crash
          ev,        \* the event returned: ident and udata
          stranded   \* coroutines whose event the kernel refused or removed

evVars == <<knote, ready, changes, threads, co, loop, ev, stranded>>

NoEvent == [ident |-> NoCo, udata |-> NoCo]

EventInit ==
    /\ knote = [i \in Idents |-> NoCo] /\ ready = {} /\ changes = <<>>
    /\ threads = {} /\ co = [c \in Coroutines |-> "none"]
    /\ loop = "setup" /\ ev = NoEvent /\ stranded = {}

\* The event i is the queue's or about to be, or the one being handled.
InUse(i) ==
    \/ knote[i] # NoCo
    \/ \E n \in DOMAIN changes : changes[n].ident = i
    \/ ev.ident = i /\ ~Reuse

\* Mutant: the changelist is not taken up where the handler before left it.
InsertChangeFresh(i, c) ==
    /\ loop \in {"setup", "handler"}
    /\ co[c] = "none" \/ (Share /\ c \in threads)
    /\ Share \/ ~InUse(i)
    /\ changes' = <<[ident |-> i, udata |-> c]>>
    /\ threads' = threads \cup {c}
    /\ co' = [co EXCEPT ![c] = IF @ = "none" THEN "suspended" ELSE @]
    /\ UNCHANGED <<knote, ready, loop, ev, stranded>>

\* insert_change: "Handler may be an existing thread or a function for a new
\* thread."  It is called before the loop starts and by handlers.
InsertChange(i, c) ==
    /\ loop \in {"setup", "handler"} /\ Len(changes) < MaxChanges
    /\ co[c] = "none" \/ (Share /\ c \in threads)
    /\ Share \/ ~InUse(i)
    /\ changes' = Append(changes, [ident |-> i, udata |-> c])
    /\ threads' = threads \cup {c}
    /\ co' = [co EXCEPT ![c] = IF @ = "none" THEN "suspended" ELSE @]
    /\ UNCHANGED <<knote, ready, loop, ev, stranded>>

\* The event i after the changes S were applied in their order: a later one
\* replaces an earlier one, udata included, and NoCo is EV_DELETE.
EventAfter(i, S) ==
    LET T == {n \in S : changes[n].ident = i}
    IN  IF T = {} THEN knote[i]
        ELSE changes[CHOOSE n \in T : \A m \in T : m <= n].udata

\* The changes that fail when the kernel refuses the additions F (a bad
\* descriptor, no memory): these, and deletions of events that are not there.
Failing(F) ==
    F \cup {n \in DOMAIN changes : /\ changes[n].udata = NoCo
                                   /\ EventAfter(changes[n].ident, (1..(n - 1)) \ F) = NoCo}

\* l_kevent up to the system call, which applies the changes before it does
\* anything else.
Kevent(F) ==
    /\ loop \in {"setup", "loop"} /\ threads # {}
    /\ knote' = [i \in Idents |-> EventAfter(i, DOMAIN changes \ F)]
    /\ ready' = {i \in ready : knote'[i] # NoCo}

\* No change fails: kevent(2) waits.
KeventWaits ==
    /\ Kevent({}) /\ Failing({}) = {}
    /\ loop' = "wait"
    /\ UNCHANGED <<changes, threads, co, ev, stranded>>

\* One change fails: there is room for one event, and kevent(2) returns it with
\* EV_ERROR and does not wait.  Without udata, the failed deletion, the loop
\* calls kevent again; with it, the loop prints the error and otherwise goes on
\* as if the coroutine had been resumed.
KeventError(n) ==
    LET thread == changes[n].udata
        F == IF thread = NoCo THEN {} ELSE {n}
        dead == thread # NoCo /\ co[thread] = "dead"
    IN  /\ Kevent(F) /\ Failing(F) = {n}
        /\ changes' = IF dead THEN <<[ident |-> changes[n].ident, udata |-> NoCo]>> ELSE <<>>
        /\ threads' = IF dead THEN threads \ {thread} ELSE threads
        /\ stranded' = stranded \cup ({thread} \ {NoCo})
        /\ loop' = "loop"
        /\ UNCHANGED <<co, ev>>

\* kevent(2) returns -1, because a second change fails or for a reason of its
\* own: assert ends the program, which closes the queue.
KeventFails ==
    /\ loop \in {"setup", "loop", "wait"} /\ threads # {}
    /\ loop' = "end" /\ knote' = [i \in Idents |-> NoCo] /\ ready' = {}
    /\ UNCHANGED <<changes, threads, co, ev, stranded>>

\* Something happens that the kernel watches.
Activate(i) ==
    /\ knote[i] # NoCo /\ ready' = ready \cup {i}
    /\ UNCHANGED <<knote, changes, threads, co, loop, ev, stranded>>

\* "The kernel doesn't tell us when the event is removed": EV_ONESHOT after the
\* event was returned, a descriptor that is closed, a process that is gone.
KernelRemoves(i) ==
    /\ knote[i] # NoCo
    /\ knote' = [knote EXCEPT ![i] = NoCo] /\ ready' = ready \ {i}
    /\ stranded' = stranded \cup {knote[i]}
    /\ UNCHANGED <<changes, threads, co, loop, ev>>

\* kevent(2) returns one event; lua_pushthread and lua_xmove work on the
\* coroutine that its udata points to, and the loop resumes it.
KeventReturn(i) ==
    /\ loop = "wait" /\ i \in ready
    /\ ready' = ready \ {i} /\ changes' = <<>>
    /\ ev' = [ident |-> i, udata |-> knote[i]]
    /\ loop' = IF co[knote[i]] = "freed" THEN "crash" ELSE "handler"
    /\ UNCHANGED <<knote, threads, co, stranded>>

\* The handler yields; the event stays in the queue.  A coroutine that is dead
\* already cannot be resumed: assert ends the program.
HandlerYields ==
    /\ loop = "handler" /\ ev' = NoEvent
    /\ loop' = IF co[ev.udata] = "dead" THEN "end" ELSE "loop"
    /\ UNCHANGED <<knote, ready, changes, threads, co, stranded>>

\* Mutant: the thread is forgotten and its event is not deleted.
HandlerDiesOnly ==
    /\ loop = "handler" /\ co[ev.udata] = "suspended"
    /\ co' = [co EXCEPT ![ev.udata] = "dead"]
    /\ threads' = threads \ {ev.udata}
    /\ loop' = "loop" /\ ev' = NoEvent
    /\ UNCHANGED <<knote, ready, changes, stranded>>

\* The handler returns: "Delete the event for this thread.  [..] Now it is
\* safe to GC the thread."
HandlerDies ==
    /\ loop = "handler" /\ co[ev.udata] = "suspended" /\ Len(changes) < MaxChanges
    /\ co' = [co EXCEPT ![ev.udata] = "dead"]
    /\ changes' = Append(changes, [ident |-> ev.ident, udata |-> NoCo])
    /\ threads' = threads \ {ev.udata}
    /\ loop' = "loop" /\ ev' = NoEvent
    /\ UNCHANGED <<knote, ready, stranded>>

\* Lua collects a coroutine that neither threads nor the changelist nor a local
\* variable of the loop refers to.
CollectCoroutine(c) ==
    /\ co[c] \in {"suspended", "dead"} /\ c \notin threads /\ c # ev.udata
    /\ \A n \in DOMAIN changes : changes[n].udata # c
    /\ co' = [co EXCEPT ![c] = "freed"]
    /\ UNCHANGED <<knote, ready, changes, threads, loop, ev, stranded>>

\* while next(threads) ... kq:close()
LoopEnds ==
    /\ loop \in {"setup", "loop"} /\ threads = {}
    /\ loop' = "end" /\ knote' = [i \in Idents |-> NoCo] /\ ready' = {}
    /\ UNCHANGED <<changes, threads, co, ev, stranded>>

EventNext ==
    \/ \E i \in Idents : \/ Activate(i) \/ KernelRemoves(i) \/ KeventReturn(i)
                         \/ \E c \in Coroutines : InsertChange(i, c)
    \/ \E c \in Coroutines : CollectCoroutine(c)
    \/ KeventWaits \/ KeventFails \/ \E n \in DOMAIN changes : KeventError(n)
    \/ HandlerYields \/ HandlerDies \/ LoopEnds

EventSpec == EventInit /\ [][EventNext]_evVars

-----------------------------------------------------------------------------
\* An event never comes back with the address of a coroutine that was collected
\* (the loop's "Now it is safe to GC the thread": the deletion is only queued
\* when the coroutine may go, and is applied before the next event is read),
\* whichever changes the kernel refuses and whichever events it removes.
EventsLive == loop # "crash"

\* The loop itself forgets nobody: a coroutine that it waits for has an event in
\* the queue or in the changelist, unless the kernel refused the event (the
\* EV_ERROR branch only prints) or removed it.  For such a coroutine the loop
\* waits for ever, since nothing takes it out of threads.
HandlersHaveEvents ==
    loop # "end" => \A c \in threads \ stranded :
        \/ \E i \in Idents : knote[i] = c
        \/ \E n \in DOMAIN changes : changes[n].udata = c
=============================================================================
