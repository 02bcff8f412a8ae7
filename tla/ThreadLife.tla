----------------------------- MODULE ThreadLife -----------------------------
(***************************************************************************)
(* Threads of libpthread/lua_pthread.c and the Lua states they run: who    *)
(* closes a state, when, and who may still be reading it.                  *)
(*                                                                         *)
(* pthread.create makes a fresh Lua state for the new thread.  A thread    *)
(* whose function returns passes its state to pthread_exit(3) as result;   *)
(* join copies the values out of it and closes it.  A cancelled thread     *)
(* runs its cleanup handlers and closes its own state.                     *)
(***************************************************************************)
EXTENDS Naturals, Sequences, SequencesExt

CONSTANTS
  Threads,
  Main,      \* the initial thread, whose state belongs to the program
  Nil,
  Exiters,   \* threads that call pthread.exit()
  Peekers,   \* threads that call :peekjoin_np()
  MemFails,  \* malloc may fail in pthread.create
  MaxPush    \* bound on cleanup handlers pushed by a thread

ASSUME LifeAssumption ==
  /\ Main \in Threads
  /\ Nil \notin Threads
  /\ Exiters \subseteq Threads \ {Main}
  /\ Peekers \subseteq Threads
  /\ MemFails \in BOOLEAN
  /\ MaxPush \in Nat

ASSUME ResultAssumption == Nil \notin {"state", "canceled"}

VARIABLES
  os,        \* os[t]: what the system knows of thread t
  lua,       \* lua[t]: t's Lua state
  closes,    \* closes[t]: how often lua_close was called on it
  result,    \* result[t]: the value given to pthread_exit(3), or "canceled"
  detached,  \* detached[t]
  asked,     \* asked[t]: a cancellation request is pending
  handlers,  \* handlers[t]: the cleanup stack in t's registry
  pushed,    \* pushed[t]: number of handlers pushed so far
  pc,        \* pc[t]: the binding t is in
  target,    \* target[t]: the thread it is about
  careful    \* no exit, no peekjoin_np, and malloc does not fail

lifevars == <<os, lua, closes, result, detached, asked, handlers, pushed,
              pc, target, careful>>

LifeTypeOK ==
  /\ os \in [Threads -> {"none", "running", "cleanup", "zombie", "reaped", "wild"}]
  /\ lua \in [Threads -> {"none", "open", "closed"}]
  /\ closes \in [Threads -> Nat]
  /\ result \in [Threads -> {Nil, "state", "canceled"}]
  /\ detached \in [Threads -> BOOLEAN]
  /\ asked \in [Threads -> BOOLEAN]
  /\ handlers \in [Threads -> Seq(1..MaxPush)]
  /\ pushed \in [Threads -> 0..MaxPush]
  /\ pc \in [Threads -> {"idle", "join", "timedjoin", "copy", "peek"}]
  /\ target \in [Threads -> Threads \cup {Nil}]
  /\ careful \in BOOLEAN

LifeInit ==
  /\ os = [t \in Threads |-> IF t = Main THEN "running" ELSE "none"]
  /\ lua = [t \in Threads |-> IF t = Main THEN "open" ELSE "none"]
  /\ closes = [t \in Threads |-> 0]
  /\ result = [t \in Threads |-> Nil]
  /\ detached = [t \in Threads |-> FALSE]
  /\ asked = [t \in Threads |-> FALSE]
  /\ handlers = [t \in Threads |-> <<>>]
  /\ pushed = [t \in Threads |-> 0]
  /\ pc = [t \in Threads |-> "idle"]
  /\ target = [t \in Threads |-> Nil]
  /\ careful \in BOOLEAN

(* Thread t runs Lua code and may call a binding.                          *)
Free(t) == os[t] = "running" /\ pc[t] = "idle"

(* lua_close *)
CloseState(t) ==
  /\ lua' = [lua EXCEPT ![t] = "closed"]
  /\ closes' = [closes EXCEPT ![t] = @ + 1]

(* pthread_exit's last act: a joinable thread leaves its result behind.    *)
Terminated(t) == IF detached[t] THEN "reaped" ELSE "zombie"
-----------------------------------------------------------------------------
(* pthread.create([attr,] func, ...), d being attr's detachstate.  When    *)
(* copying the arguments or starting the thread fails, the new state is    *)
(* closed again and nothing is left of it.                                 *)
Create(t, c, d) ==
  /\ Free(t)
  /\ os[c] = "none"
  /\ os' = [os EXCEPT ![c] = "running"]
  /\ lua' = [lua EXCEPT ![c] = "open"]
  /\ detached' = [detached EXCEPT ![c] = d]
  /\ UNCHANGED <<closes, result, asked, handlers, pushed, pc, target, careful>>

(* malloc of the rcthread fails: the code closes L, the state of the       *)
(* calling thread, and goes on in it.                                      *)
CreateNoMem(t) ==
  /\ MemFails /\ ~careful
  /\ Free(t)
  /\ CloseState(t)
  /\ os' = [os EXCEPT ![t] = "wild"]
  /\ UNCHANGED <<result, detached, asked, handlers, pushed, pc, target, careful>>

(* pthread.cleanup.push and pop work on the table in the registry.         *)
CleanupPush(t) ==
  /\ Free(t) /\ t # Main
  /\ pushed[t] < MaxPush
  /\ pushed' = [pushed EXCEPT ![t] = @ + 1]
  /\ handlers' = [handlers EXCEPT ![t] = Append(@, pushed[t] + 1)]
  /\ UNCHANGED <<os, lua, closes, result, detached, asked, pc, target, careful>>

(* Mutant: the new length is stored where the handler was.                 *)
CleanupPopReuses(t) ==
  /\ Free(t)
  /\ handlers[t] # <<>>
  /\ handlers' = [handlers EXCEPT ![t] = <<Len(@) - 1>>]
  /\ UNCHANGED <<os, lua, closes, result, detached, asked, pushed, pc, target, careful>>

CleanupPop(t) ==
  /\ Free(t)
  /\ handlers[t] # <<>>
  /\ handlers' = [handlers EXCEPT ![t] = Front(@)]
  /\ UNCHANGED <<os, lua, closes, result, detached, asked, pushed, pc, target, careful>>

(* Mutant: the cleanup handler stays armed over pthread_exit(3).           *)
ReturnArmed(t) ==
  /\ Free(t) /\ t # Main
  /\ result' = [result EXCEPT ![t] = "state"]
  /\ os' = [os EXCEPT ![t] = "cleanup"]
  /\ UNCHANGED <<lua, closes, detached, asked, handlers, pushed, pc, target, careful>>

(* The thread function returned or raised: thread_kfunction disarms the    *)
(* cleanup handler and exits with the state as result.                     *)
Return(t) ==
  /\ Free(t) /\ t # Main
  /\ result' = [result EXCEPT ![t] = "state"]
  /\ os' = [os EXCEPT ![t] = Terminated(t)]
  /\ UNCHANGED <<lua, closes, detached, asked, handlers, pushed, pc, target, careful>>

(* pthread.exit(...): the same result, with the cleanup handler armed.     *)
Exit(t) ==
  /\ t \in Exiters /\ ~careful
  /\ Free(t)
  /\ result' = [result EXCEPT ![t] = "state"]
  /\ os' = [os EXCEPT ![t] = "cleanup"]
  /\ UNCHANGED <<lua, closes, detached, asked, handlers, pushed, pc, target, careful>>

(* thread:cancel() *)
Cancel(t, c) ==
  /\ Free(t) /\ c # Main
  /\ os[c] = "running"
  /\ asked' = [asked EXCEPT ![c] = TRUE]
  /\ UNCHANGED <<os, lua, closes, result, detached, handlers, pushed, pc, target, careful>>

(* A cancellation point: pthread.testcancel(), a blocking call, or a wait  *)
(* in pthread_join(3).                                                     *)
Canceled(t) ==
  /\ os[t] = "running" /\ asked[t]
  /\ pc[t] \in {"idle", "join", "timedjoin"}
  /\ result' = [result EXCEPT ![t] = "canceled"]
  /\ os' = [os EXCEPT ![t] = "cleanup"]
  /\ pc' = [pc EXCEPT ![t] = "idle"]
  /\ target' = [target EXCEPT ![t] = Nil]
  /\ UNCHANGED <<lua, closes, detached, asked, handlers, pushed, careful>>

(* thread_cleanup calls the handlers from index 1 upwards ...              *)
CleanupStep(t) ==
  /\ os[t] = "cleanup"
  /\ handlers[t] # <<>>
  /\ handlers' = [handlers EXCEPT ![t] = Tail(@)]
  /\ UNCHANGED <<os, lua, closes, result, detached, asked, pushed, pc, target, careful>>

(* Mutant: the handlers still on the stack are skipped.                    *)
CleanupSkips(t) ==
  /\ os[t] = "cleanup"
  /\ CloseState(t)
  /\ os' = [os EXCEPT ![t] = Terminated(t)]
  /\ UNCHANGED <<result, detached, asked, handlers, pushed, pc, target, careful>>

(* ... and closes the state.                                               *)
CleanupClose(t) ==
  /\ os[t] = "cleanup"
  /\ handlers[t] = <<>>
  /\ CloseState(t)
  /\ os' = [os EXCEPT ![t] = Terminated(t)]
  /\ UNCHANGED <<result, detached, asked, handlers, pushed, pc, target, careful>>
-----------------------------------------------------------------------------
Joiners(c) == {u \in Threads : pc[u] \in {"join", "timedjoin"} /\ target[u] = c}
Joinable(c) ==
  os[c] \in {"running", "cleanup", "zombie"} /\ ~detached[c] /\ Joiners(c) = {}

(* thread:join(), thread:timedjoin_np(): pthread_join(3) refuses a thread  *)
(* that is detached, unknown or being joined.                              *)
JoinBegin(t, c, timed) ==
  /\ Free(t) /\ t # c /\ c # Main
  /\ Joinable(c)
  /\ pc' = [pc EXCEPT ![t] = IF timed THEN "timedjoin" ELSE "join"]
  /\ target' = [target EXCEPT ![t] = c]
  /\ UNCHANGED <<os, lua, closes, result, detached, asked, handlers, pushed, careful>>

(* Mutant: the thread is left joinable, as by pthread_peekjoin_np(3).      *)
JoinGetPeeks(t) ==
  LET c == target[t] IN
  /\ pc[t] \in {"join", "timedjoin"}
  /\ os[c] = "zombie"
  /\ pc' = [pc EXCEPT ![t] = IF result[c] = "canceled" THEN "idle" ELSE "copy"]
  /\ target' = [target EXCEPT ![t] = IF result[c] = "canceled" THEN Nil ELSE c]
  /\ UNCHANGED <<os, lua, closes, result, detached, asked, handlers, pushed, careful>>

(* pthread_join(3) delivers the result.                                    *)
JoinGet(t) ==
  LET c == target[t] IN
  /\ pc[t] \in {"join", "timedjoin"}
  /\ os[c] = "zombie"
  /\ os' = [os EXCEPT ![c] = "reaped"]
  /\ IF result[c] = "canceled"
     THEN /\ pc' = [pc EXCEPT ![t] = "idle"]
          /\ target' = [target EXCEPT ![t] = Nil]
     ELSE /\ pc' = [pc EXCEPT ![t] = "copy"]
          /\ UNCHANGED target
  /\ UNCHANGED <<lua, closes, result, detached, asked, handlers, pushed, careful>>

JoinTimeout(t) ==
  /\ pc[t] = "timedjoin"
  /\ pc' = [pc EXCEPT ![t] = "idle"]
  /\ target' = [target EXCEPT ![t] = Nil]
  /\ UNCHANGED <<os, lua, closes, result, detached, asked, handlers, pushed, careful>>

(* Mutant: the state is not closed when the copy fails.                    *)
JoinCloseOnSuccess(t) ==
  /\ pc[t] = "copy"
  /\ \/ CloseState(target[t])
     \/ UNCHANGED <<lua, closes>>
  /\ pc' = [pc EXCEPT ![t] = "idle"]
  /\ target' = [target EXCEPT ![t] = Nil]
  /\ UNCHANGED <<os, result, detached, asked, handlers, pushed, careful>>

(* copyn of the results is over, with or without error: lua_close(l).      *)
JoinClose(t) ==
  /\ pc[t] = "copy"
  /\ CloseState(target[t])
  /\ pc' = [pc EXCEPT ![t] = "idle"]
  /\ target' = [target EXCEPT ![t] = Nil]
  /\ UNCHANGED <<os, result, detached, asked, handlers, pushed, careful>>

(* thread:peekjoin_np(): copy the results of a finished thread and leave   *)
(* it joinable.  Nothing tells a later join that they are being read.      *)
Peek(t, c) ==
  /\ t \in Peekers /\ ~careful
  /\ Free(t) /\ t # c
  /\ Joinable(c) /\ os[c] = "zombie" /\ result[c] = "state"
  /\ pc' = [pc EXCEPT ![t] = "peek"]
  /\ target' = [target EXCEPT ![t] = c]
  /\ UNCHANGED <<os, lua, closes, result, detached, asked, handlers, pushed, careful>>

PeekDone(t) ==
  /\ pc[t] = "peek"
  /\ pc' = [pc EXCEPT ![t] = "idle"]
  /\ target' = [target EXCEPT ![t] = Nil]
  /\ UNCHANGED <<os, lua, closes, result, detached, asked, handlers, pushed, careful>>

(* thread:detach(); a finished thread is reaped at once and its state is   *)
(* left open for ever.                                                     *)
Detach(t, c) ==
  /\ Free(t) /\ c # Main
  /\ Joinable(c)
  /\ detached' = [detached EXCEPT ![c] = TRUE]
  /\ os' = [os EXCEPT ![c] = IF @ = "zombie" THEN "reaped" ELSE @]
  /\ UNCHANGED <<lua, closes, result, asked, handlers, pushed, pc, target, careful>>

LifeNext ==
  \E t \in Threads :
    \/ \E c \in Threads : \/ Cancel(t, c) \/ Peek(t, c) \/ Detach(t, c)
                          \/ \E b \in BOOLEAN : \/ Create(t, c, b)
                                               \/ JoinBegin(t, c, b)
    \/ CreateNoMem(t) \/ CleanupPush(t) \/ CleanupPop(t)
    \/ Return(t) \/ Exit(t) \/ Canceled(t)
    \/ CleanupStep(t) \/ CleanupClose(t)
    \/ JoinGet(t) \/ JoinTimeout(t) \/ JoinClose(t) \/ PeekDone(t)

(* A thread in thread_cleanup, or past pthread_join, is in C code that     *)
(* nothing interrupts, and a join whose thread has finished returns.       *)
LifeSpec ==
  /\ LifeInit
  /\ [][LifeNext]_lifevars
  /\ \A t \in Threads :
       /\ WF_lifevars(CleanupStep(t) \/ CleanupClose(t))
       /\ WF_lifevars(JoinGet(t))
       /\ WF_lifevars(JoinClose(t))
-----------------------------------------------------------------------------
(* join and peekjoin read the results from a state that is still open.     *)
ReadsOpenState ==
  \A t \in Threads : pc[t] \in {"copy", "peek"} => lua[target[t]] = "open"

(* A thread that runs Lua code or cleanup handlers has an open state.      *)
RunsOpenState ==
  \A t \in Threads : os[t] \in {"running", "cleanup", "wild"} => lua[t] = "open"

(* In a program that calls neither pthread.exit nor peekjoin_np, and whose *)
(* pthread.create finds memory, nobody runs in a state or reads from one   *)
(* that somebody else has closed.                                          *)
CarefulUsesOpenState == careful => ReadsOpenState /\ RunsOpenState

(* In such a program no state is closed twice, by the cleanup of its       *)
(* thread and by a join, or by two joins.                                  *)
ClosedOnce == careful => \A t \in Threads : closes[t] <= 1

(* When a join reports "canceled" the state is closed and every handler    *)
(* left on the cleanup stack has run ("When a thread is canceled, the Lua  *)
(* state is automatically closed by a cleanup handler").                   *)
CanceledIsClosed ==
  \A t \in Threads :
    result[t] = "canceled" /\ os[t] \in {"zombie", "reaped"} =>
      lua[t] = "closed" /\ handlers[t] = <<>>

(* "Joining a thread closes the Lua state for that thread, unless the      *)
(* thread was canceled", in which case its cleanup closes it: no joined    *)
(* thread leaves a state behind, and a cancelled one gets through its      *)
(* handlers.                                                               *)
EndedIsClosed ==
  \A t \in Threads :
    /\ os[t] = "reaped" /\ ~detached[t] ~> lua[t] = "closed"
    /\ result[t] = "canceled" ~> os[t] \in {"zombie", "reaped"}
=============================================================================
