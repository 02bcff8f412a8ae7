----------------------------- MODULE Rendezvous -----------------------------
(***************************************************************************)
(* pthread.rendezvous of libpthread/lua_pthread.c: a mutex, a condition    *)
(* variable and a pointer to the Lua state of the thread that waits.  The  *)
(* second caller finds the first one's state in `waiter`, copies values    *)
(* between the two Lua stacks and signals.                                 *)
(*                                                                         *)
(* One rendezvous object; RcObject shows that it outlives the calls.  A    *)
(* thread is represented by the Lua state it runs.  The integer that the   *)
(* code keeps on top of a waiter's stack is cnt[t]; the rest of the stack  *)
(* is stack[t].                                                            *)
(***************************************************************************)
EXTENDS Integers, Sequences, FiniteSets

CONSTANTS
  Threads,
  Values,       \* Lua values passed as arguments
  Bad,          \* those copyn cannot copy (tables, userdata, coroutines)
  Nil,          \* NULL; also "no offer" and "no answer"
  TimedCallers, \* threads that use timedexchange
  Cancellable,  \* threads that may be cancelled while they wait
  MaxArgs,      \* bound on the number of arguments of a call
  MaxCalls      \* bound on the number of calls of a thread

VARIABLES
  mutex,   \* the thread that holds rp->mutex, or Nil
  waiter,  \* rp->waiter
  onCond,  \* threads blocked on rp->cond
  pc,      \* where each thread is
  timed,   \* timed[t]: the call is timedexchange
  stack,   \* stack[t]: the Lua stack of the call
  cnt,     \* cnt[t]: the integer pushed on top of it
  narg,    \* narg[t]: local variable
  nres,    \* nres[t]: local variable; -1 an error, -2 a timeout
  ret,     \* ret[t]: what the call returned to Lua
  calls,   \* calls[t]: number of calls made
  due      \* due[t]: what the match owes t (history; Nil before the match)

rdvars == <<mutex, waiter, onCond, pc, timed, stack, cnt, narg, nres, ret,
            calls, due>>

Offers == UNION {[1..n -> Values] : n \in 0..MaxArgs}
Copyable(s) == \A i \in DOMAIN s : s[i] \notin Bad
LastN(s, n) == SubSeq(s, IF n < Len(s) THEN Len(s) - n + 1 ELSE 1, Len(s))

Error == <<"error">>
TimedOut == <<"false">>

ASSUME RdvAssumption ==
  /\ Bad \subseteq Values
  /\ Nil \notin Threads /\ Nil \notin Offers \cup {Error}
  /\ TimedCallers \subseteq Threads
  /\ Cancellable \subseteq Threads
  /\ MaxArgs \in Nat /\ MaxCalls \in Nat

(* The fixed arguments below the values to exchange.                       *)
Fixed(tm) == IF tm THEN <<"self", "sec", "nsec">> ELSE <<"self">>

(* The arguments of t's call, as they lie on its stack.                    *)
Args(t) == SubSeq(stack[t], Len(Fixed(timed[t])) + 1,
                  Len(Fixed(timed[t])) + narg[t])

RdvTypeOK ==
  /\ mutex \in Threads \cup {Nil}
  /\ waiter \in Threads \cup {Nil}
  /\ onCond \in SUBSET Threads
  /\ pc \in [Threads -> {"idle", "lock", "in", "blocked", "woken", "expired",
                         "canceled", "back", "late", "out", "ret", "dead"}]
  /\ timed \in [Threads -> BOOLEAN]
  /\ cnt \in [Threads -> -1..MaxArgs]
  /\ narg \in [Threads -> 0..MaxArgs]
  /\ nres \in [Threads -> -2..MaxArgs]
  /\ calls \in [Threads -> 0..MaxCalls]

RdvInit ==
  /\ mutex = Nil
  /\ waiter = Nil
  /\ onCond = {}
  /\ pc = [t \in Threads |-> "idle"]
  /\ timed = [t \in Threads |-> FALSE]
  /\ stack = [t \in Threads |-> <<>>]
  /\ cnt = [t \in Threads |-> 0]
  /\ narg = [t \in Threads |-> 0]
  /\ nres = [t \in Threads |-> 0]
  /\ ret = [t \in Threads |-> <<>>]
  /\ calls = [t \in Threads |-> 0]
  /\ due = [t \in Threads |-> Nil]

Goto(t, l) == pc' = [pc EXCEPT ![t] = l]
-----------------------------------------------------------------------------
(* exchange(...) or timedexchange(sec, nsec, ...) is called.               *)
Call(t, tm, a) ==
  /\ pc[t] = "idle"
  /\ calls[t] < MaxCalls
  /\ tm => t \in TimedCallers
  /\ timed' = [timed EXCEPT ![t] = tm]
  /\ stack' = [stack EXCEPT ![t] = Fixed(tm) \o a]
  /\ narg' = [narg EXCEPT ![t] = Len(a)]
  /\ calls' = [calls EXCEPT ![t] = @ + 1]
  /\ Goto(t, "lock")
  /\ UNCHANGED <<mutex, waiter, onCond, cnt, nres, ret, due>>

(* pthread_mutex_lock, pthread_mutex_timedlock                             *)
Lock(t) ==
  /\ pc[t] = "lock"
  /\ mutex = Nil
  /\ mutex' = t
  /\ Goto(t, "in")
  /\ UNCHANGED <<waiter, onCond, timed, stack, cnt, narg, nres, ret, calls, due>>

(* The deadline passes before the mutex is free.                           *)
LockTimeout(t) ==
  /\ pc[t] = "lock"
  /\ timed[t]
  /\ ret' = [ret EXCEPT ![t] = TimedOut]
  /\ Goto(t, "ret")
  /\ UNCHANGED <<mutex, waiter, onCond, timed, stack, cnt, narg, nres, calls, due>>

(* The first caller: become the waiter and block, releasing the mutex.     *)
Wait(t) ==
  /\ pc[t] = "in"
  /\ waiter = Nil
  /\ cnt' = [cnt EXCEPT ![t] = narg[t]]
  /\ waiter' = t
  /\ onCond' = onCond \cup {t}
  /\ mutex' = Nil
  /\ Goto(t, "blocked")
  /\ UNCHANGED <<timed, stack, narg, nres, ret, calls, due>>

(* Mutant: the values are copied before the count is popped, one too low.  *)
ExchangeBelowCount(t, w) ==
  LET theirs == SubSeq(stack[w], Len(stack[w]) - cnt[w], Len(stack[w]) - 1)
  IN /\ stack' = [stack EXCEPT ![t] = @ \o theirs, ![w] = @ \o Args(t)]
     /\ cnt' = [cnt EXCEPT ![w] = narg[t]]
     /\ nres' = [nres EXCEPT ![t] = cnt[w]]

(* exchange(L, l): the waiter's values go to the caller, then the caller's *)
(* to the waiter; the first value that cannot be copied makes it an error  *)
(* for both.  The count left on the waiter's stack is its nres.            *)
Exchange(t, w) ==
  LET theirs == LastN(stack[w], cnt[w])
      mine == Args(t)
  IN IF ~Copyable(theirs)
     THEN /\ cnt' = [cnt EXCEPT ![w] = -1]
          /\ nres' = [nres EXCEPT ![t] = -1]
          /\ UNCHANGED stack
     ELSE IF ~Copyable(mine)
     THEN /\ stack' = [stack EXCEPT ![t] = @ \o theirs]
          /\ cnt' = [cnt EXCEPT ![w] = -1]
          /\ nres' = [nres EXCEPT ![t] = -1]
     ELSE /\ stack' = [stack EXCEPT ![t] = @ \o theirs, ![w] = @ \o mine]
          /\ cnt' = [cnt EXCEPT ![w] = narg[t]]
          /\ nres' = [nres EXCEPT ![t] = cnt[w]]

(* Mutant: the waiter is not signalled.                                    *)
NoSignal(t) == UNCHANGED onCond /\ Goto(t, "out")

(* pthread_cond_signal unblocks one thread that is blocked, if any.        *)
Signal(t) ==
  IF onCond = {}
  THEN /\ UNCHANGED onCond
       /\ Goto(t, "out")
  ELSE \E s \in onCond :
         /\ onCond' = onCond \ {s}
         /\ pc' = [pc EXCEPT ![t] = "out", ![s] = "woken"]

(* Mutant: rp->waiter is not reset after the exchange.                     *)
MatchKeepsWaiter(t) ==
  LET both == Copyable(Args(t)) /\ Copyable(Args(waiter)) IN
  /\ pc[t] = "in"
  /\ waiter # Nil
  /\ Exchange(t, waiter)
  /\ Signal(t)
  /\ due' = [due EXCEPT ![t] = IF both THEN Args(waiter) ELSE Error,
                        ![waiter] = IF both THEN Args(t) ELSE Error]
  /\ UNCHANGED <<mutex, waiter, timed, narg, ret, calls>>

(* The second caller.                                                      *)
Match(t) ==
  LET w == waiter
      both == Copyable(Args(t)) /\ Copyable(Args(w)) IN
  /\ pc[t] = "in"
  /\ w # Nil
  /\ Exchange(t, w)
  /\ waiter' = Nil
  /\ Signal(t)
  /\ due' = [due EXCEPT ![t] = IF both THEN Args(w) ELSE Error,
                        ![w] = IF both THEN Args(t) ELSE Error]
  /\ UNCHANGED <<mutex, timed, narg, ret, calls>>

(* The deadline passes while the thread is blocked: it leaves the wait     *)
(* queue and will report ETIMEDOUT once it has the mutex again.            *)
Timeout(t) ==
  /\ pc[t] = "blocked"
  /\ timed[t]
  /\ onCond' = onCond \ {t}
  /\ Goto(t, "expired")
  /\ UNCHANGED <<mutex, waiter, timed, stack, cnt, narg, nres, ret, calls, due>>

(* pthread_cond_wait is a cancellation point.                              *)
Cancel(t) ==
  /\ pc[t] = "blocked"
  /\ t \in Cancellable
  /\ onCond' = onCond \ {t}
  /\ Goto(t, "canceled")
  /\ UNCHANGED <<mutex, waiter, timed, stack, cnt, narg, nres, ret, calls, due>>

(* The mutex is taken again before pthread_cond_wait returns, and before   *)
(* the cancellation cleanup runs, which closes the Lua state and does not  *)
(* unlock.                                                                 *)
Reacquire(t) ==
  /\ pc[t] \in {"woken", "expired", "canceled"}
  /\ mutex = Nil
  /\ mutex' = t
  /\ Goto(t, CASE pc[t] = "woken" -> "back"
               [] pc[t] = "expired" -> "late"
               [] pc[t] = "canceled" -> "dead")
  /\ UNCHANGED <<waiter, onCond, timed, stack, cnt, narg, nres, ret, calls, due>>

(* pthread_cond_wait returned 0: the count on the stack is the result.     *)
Back(t) ==
  /\ pc[t] = "back"
  /\ nres' = [nres EXCEPT ![t] = cnt[t]]
  /\ Goto(t, "out")
  /\ UNCHANGED <<mutex, waiter, onCond, timed, stack, cnt, narg, ret, calls, due>>

(* Mutants: the timed-out thread leaves its state in rp->waiter; the error *)
(* number is returned as a count.                                          *)
LateKeepsWaiter(t) ==
  /\ pc[t] = "late"
  /\ nres' = [nres EXCEPT ![t] = -2]
  /\ Goto(t, "out")
  /\ UNCHANGED <<mutex, waiter, onCond, timed, stack, cnt, narg, ret, calls, due>>

LateErrno(t) ==
  /\ pc[t] = "late"
  /\ waiter' = Nil
  /\ nres' = [nres EXCEPT ![t] = -60]
  /\ Goto(t, "out")
  /\ UNCHANGED <<mutex, onCond, timed, stack, cnt, narg, ret, calls, due>>

(* pthread_cond_timedwait returned ETIMEDOUT.                              *)
Late(t) ==
  /\ pc[t] = "late"
  /\ waiter' = Nil
  /\ nres' = [nres EXCEPT ![t] = -2]
  /\ Goto(t, "out")
  /\ UNCHANGED <<mutex, onCond, timed, stack, cnt, narg, ret, calls, due>>

(* timedexchange pushes true and inserts it at gettop - ++nres; the top    *)
(* nres + 1 values are returned.                                           *)
TimedResult(s, n) ==
  LET top == Len(s) + 1
      at == top - (n + 1)
  IN LastN(SubSeq(s, 1, at - 1) \o <<"true">> \o SubSeq(s, at, Len(s)), n + 1)

Result(t) ==
  CASE nres[t] = -1 -> Error
    [] nres[t] = -2 -> TimedOut
    [] OTHER -> IF timed[t] THEN TimedResult(stack[t], nres[t])
                            ELSE LastN(stack[t], nres[t])

(* Mutant: the error is raised before the mutex is unlocked.               *)
UnlockUnlessError(t) ==
  /\ pc[t] = "out"
  /\ mutex' = IF nres[t] < 0 THEN mutex ELSE Nil
  /\ ret' = [ret EXCEPT ![t] = Result(t)]
  /\ Goto(t, "ret")
  /\ UNCHANGED <<waiter, onCond, timed, stack, cnt, narg, nres, calls, due>>

(* pthread_mutex_unlock and the return to Lua.                             *)
Unlock(t) ==
  /\ pc[t] = "out"
  /\ mutex' = Nil
  /\ ret' = [ret EXCEPT ![t] = Result(t)]
  /\ Goto(t, "ret")
  /\ UNCHANGED <<waiter, onCond, timed, stack, cnt, narg, nres, calls, due>>

(* Lua takes the results; the call's stack frame is gone.                  *)
Done(t) ==
  /\ pc[t] = "ret"
  /\ stack' = [stack EXCEPT ![t] = <<>>]
  /\ narg' = [narg EXCEPT ![t] = 0]
  /\ timed' = [timed EXCEPT ![t] = FALSE]
  /\ ret' = [ret EXCEPT ![t] = <<>>]
  /\ due' = [due EXCEPT ![t] = Nil]
  /\ Goto(t, "idle")
  /\ UNCHANGED <<mutex, waiter, onCond, cnt, nres, calls>>

(* What a thread inside a call does without waiting for anyone's decision. *)
Inside(t) ==
  \/ Lock(t) \/ Wait(t) \/ Match(t) \/ Reacquire(t) \/ Back(t) \/ Late(t)
  \/ Unlock(t) \/ Done(t)

RdvNext ==
  \E t \in Threads :
    \/ \E tm \in BOOLEAN, a \in Offers : Call(t, tm, a)
    \/ Inside(t)
    \/ LockTimeout(t) \/ Timeout(t) \/ Cancel(t)

(* Threads that can run do run.                                            *)
RdvFairness == \A t \in Threads : WF_rdvars(Inside(t))

RdvSpec == RdvInit /\ [][RdvNext]_rdvars /\ RdvFairness
-----------------------------------------------------------------------------
(* rp->waiter is the thread blocked on the condition, and there is at most *)
(* one: so the signal of the second caller wakes the thread it exchanged   *)
(* with and nobody else.                                                   *)
OneWaiter == onCond = IF waiter = Nil THEN {} ELSE {waiter}

(* "Arguments passed [to] the other call are returned by this call": a     *)
(* call that returns was matched, and returns what the match owes it.      *)
ExchangeMatches ==
  \A t \in Threads : pc[t] = "ret" => due[t] # Nil /\ ret[t] = due[t]

(* The second caller reads and writes the Lua stack of a thread that is    *)
(* parked in its wait, never of one that runs or whose state is closed.    *)
WaiterParked ==
  \A t \in Threads :
    pc[t] = "in" /\ waiter # Nil => pc[waiter] \in {"blocked", "expired", "canceled"}

(* A matched caller returns to Lua: the wakeup is never lost.              *)
MatchedReturns == \A t \in Threads : due[t] # Nil ~> pc[t] = "ret"

(* Nobody keeps the mutex for ever, so every caller gets in.               *)
CallersGetIn == \A t \in Threads : pc[t] = "lock" ~> pc[t] # "lock"

(* The detailed protocol implements the abstract exchange.                 *)
Abs == INSTANCE Exchanger WITH
         CopyableOffers <- {a \in Offers : Copyable(a)},
         None <- Nil,
         phase <- [t \in Threads |-> IF pc[t] = "idle" THEN "out"
                                     ELSE IF due[t] = Nil THEN "asking"
                                     ELSE "answered"],
         offer <- [t \in Threads |-> IF pc[t] = "idle" THEN Nil ELSE Args(t)],
         answer <- [t \in Threads |-> IF pc[t] = "ret" THEN ret[t] ELSE due[t]]

(* Every exchange is a pairwise, simultaneous swap of arguments.           *)
ImplementsExchanger == Abs!Spec

(* "[timedexchange] returns true as the first result if the exchange took  *)
(* place".                                                                 *)
ExchangedIsTrue ==
  \A t \in Threads :
    pc[t] = "ret" /\ timed[t] /\ due[t] \notin {Nil, Error} /\ ret[t] # TimedOut
      => ret[t][1] = "true"

(* "or false if a timeout occurred": a call that reports a timeout was not *)
(* matched with another call.                                              *)
TimeoutMeansNoExchange ==
  \A t \in Threads : pc[t] = "ret" /\ ret[t] = TimedOut => due[t] = Nil
=============================================================================
