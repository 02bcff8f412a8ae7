-------------------------------- MODULE Aio --------------------------------
(***************************************************************************)
(* The asynchronous I/O requests of aio/lua_aio.c.                         *)
(*                                                                         *)
(* A request (struct rcaiocb) is a reference-counted object: this module   *)
(* extends RcObject, whose Objects are the requests.  On top of the count  *)
(* a request has an atomic state word that says who may touch its buffer,  *)
(* and the kernel has its own view of the request.  Every step of a        *)
(* binding that another thread or the kernel can observe is an action:     *)
(* the compare-and-swap that claims the request, the system call, and the  *)
(* store that commits or rolls back.                                       *)
(***************************************************************************)
EXTENDS RcObject

CONSTANTS
  CloseShared,     \* __close may run while there are other references
  Waiters,         \* threads that call aio.waitcomplete()
  EarlyReturn      \* _return() may be called on a request in progress

ASSUME AioAssumption ==
  /\ Waiters \subseteq Threads
  /\ {CloseShared, EarlyReturn} \subseteq BOOLEAN

VARIABLES
  state,  \* state[c]: the atomic enum aiocb_state of request c
  saved,  \* saved[c]: aio_state, the state to restore when the request fails
  kern,   \* kern[c]: the kernel's job for c: none, running, or its outcome
  op,     \* op[c]: what the last submission asked for
  buf,    \* buf[c]: the buffer is as malloc left it, partly filled or filled
  pc,     \* pc[t]: the next step of the aio binding thread t is in
  job,    \* job[t]: the request aio_waitcomplete(2) gave to thread t
  was,    \* was[t]: the local variable `state` of a submission
  waits   \* the program fetches outcomes with waitcomplete, not with _return

aiovars == <<state, saved, kern, op, buf, pc, job, was, waits>>
vars == <<rcvars, aiovars>>

States == {"UNINIT", "INIT", "PENDING", "RETURNING"}

AioTypeOK ==
  /\ RcTypeOK
  /\ state \in [Objects -> States]
  /\ saved \in [Objects -> {"UNINIT", "INIT"}]
  /\ kern \in [Objects -> {"none", "active", "done", "failed"}]
  /\ op \in [Objects -> {"read", "write"}]
  /\ buf \in [Objects -> {"raw", "partial", "data"}]
  /\ pc \in [Threads -> {"none", "submit", "return", "commit", "restore",
                         "cancel", "suspend", "poll", "copy", "query",
                         "check", "drain", "wait", "reap", "free",
                         "took", "tookerr", "made", "madeerr"}]
  /\ job \in [Threads -> Objects \cup {Nil}]
  /\ was \in [Threads -> {"UNINIT", "INIT"}]
  /\ waits \in BOOLEAN

AioInit ==
  /\ RcInit
  /\ state = [c \in Objects |-> "UNINIT"]
  /\ saved = [c \in Objects |-> "UNINIT"]
  /\ kern = [c \in Objects |-> "none"]
  /\ op = [c \in Objects |-> "write"]
  /\ buf = [c \in Objects |-> "raw"]
  /\ pc = [t \in Threads |-> "none"]
  /\ job = [t \in Threads |-> Nil]
  /\ was = [t \in Threads |-> "UNINIT"]
  /\ waits \in BOOLEAN

Goto(t, l) == pc' = [pc EXCEPT ![t] = l]
-----------------------------------------------------------------------------
(* aio.aiocb.shared(fd, offset, bufdesc): a string, an array of strings or *)
(* nil leaves the request INIT (rcaiocb_commit); a size leaves it UNINIT   *)
(* with a malloc'd buffer.  A later argument error leaves a userdata that  *)
(* Lua never hands out, i.e. one that can only be collected.               *)
Shared(t, c, bufdesc) ==
  LET s == IF bufdesc = "size" THEN "UNINIT" ELSE "INIT" IN
  /\ pc[t] = "none"
  /\ Create(t, c)
  /\ state' = [state EXCEPT ![c] = s]
  /\ saved' = [saved EXCEPT ![c] = s]
  /\ buf' = [buf EXCEPT ![c] = IF bufdesc = "size" THEN "raw" ELSE "data"]
  /\ UNCHANGED <<kern, op, pc, job, was, waits>>

(* Mutant: a second userdata that is not counted.                          *)
AioRetainUncounted(t, c) ==
  /\ pc[t] = "none"
  /\ at[t] = "idle"
  /\ Holders(c) # {}
  /\ at' = [at EXCEPT ![t] = "wrap"]
  /\ obj' = [obj EXCEPT ![t] = c]
  /\ UNCHANGED <<mem, refs, lost, owner, cookie, arg, aiovars>>

(* aio.aiocb.retain(cookie) *)
AioRetain(t, c) ==
  /\ pc[t] = "none"
  /\ Retain(t, c)
  /\ UNCHANGED aiovars

(* new() for a constructor, a retain or a waitcomplete. *)
AioWrap(t, h) ==
  /\ Wrap(t, h)
  /\ UNCHANGED aiovars

(* new() raises a memory error: the rest of the binding is skipped.  When  *)
(* that was waitcomplete, the request stays PENDING.                       *)
AioWrapFails(t) ==
  /\ WrapFails(t)
  /\ Goto(t, "none")
  /\ job' = [job EXCEPT ![t] = Nil]
  /\ UNCHANGED <<state, saved, kern, op, buf, was, waits>>
-----------------------------------------------------------------------------
(* Mutants: the wrong set of states accepted for a submission.             *)
TryBeginReadUnlessPending(c) == state[c] # "PENDING"
TryBeginWriteUninit(c) == state[c] \in {"UNINIT", "INIT"}

(* rcaiocb_trybeginread: UNINIT or INIT becomes PENDING.                   *)
TryBeginRead(c) == state[c] \in {"UNINIT", "INIT"}

(* rcaiocb_trybeginwrite: only INIT becomes PENDING.                       *)
TryBeginWrite(c) == state[c] = "INIT"

(* Mutant: the state is tested but not exchanged.                          *)
BeginUnclaimed(t, h, o) ==
  /\ pc[t] = "none"
  /\ Enter(t, h)
  /\ IF o = "read" THEN TryBeginRead(cookie[h]) ELSE TryBeginWrite(cookie[h])
  /\ was' = [was EXCEPT ![t] = state[cookie[h]]]
  /\ op' = [op EXCEPT ![cookie[h]] = o]
  /\ Goto(t, "submit")
  /\ UNCHANGED <<state, saved, kern, buf, job, waits>>

(* :read(), and :write(), :mlock(), :fsync() alike, up to and including    *)
(* the compare-and-swap.  When it fails an argument error is raised and    *)
(* nothing changes.                                                        *)
Begin(t, h, o) ==
  LET c == cookie[h] IN
  /\ pc[t] = "none"
  /\ Enter(t, h)
  /\ IF o = "read" THEN TryBeginRead(c) ELSE TryBeginWrite(c)
  /\ was' = [was EXCEPT ![t] = state[c]]
  /\ state' = [state EXCEPT ![c] = "PENDING"]
  /\ op' = [op EXCEPT ![c] = o]
  /\ Goto(t, "submit")
  /\ UNCHANGED <<saved, kern, buf, job, waits>>

(* aio_read2, aio_readv, aio_write2, aio_writev, aio_mlock or aio_fsync    *)
(* queues the request and the binding returns.                             *)
Submit(t) ==
  /\ pc[t] = "submit"
  /\ kern' = [kern EXCEPT ![obj[t]] = "active"]
  /\ Leave(t)
  /\ Goto(t, "none")
  /\ UNCHANGED <<state, saved, op, buf, job, was, waits>>

(* The submission system call fails: rcaiocb_rollback(rccb, state).        *)
SubmitFails(t) ==
  /\ pc[t] = "submit"
  /\ state' = [state EXCEPT ![obj[t]] = was[t]]
  /\ Leave(t)
  /\ Goto(t, "none")
  /\ UNCHANGED <<saved, kern, op, buf, job, was, waits>>

(* Mutant: a second caller gets through while the first is in aio_return.  *)
TryBeginReturnTwice(c) == state[c] \in {"PENDING", "RETURNING"}

(* rcaiocb_trybeginreturn: only PENDING becomes RETURNING.                 *)
TryBeginReturn(c) == state[c] = "PENDING"

(* :_return() up to the compare-and-swap.  The manual forbids it where     *)
(* waitcomplete is used.  The code tests the state word only; a caller     *)
(* that does not take EarlyReturn does more, and returns a request after   *)
(* it saw it complete (:suspend(), :error() or an event) and before anyone *)
(* submits it again.                                                       *)
BeginReturn(t, h) ==
  LET c == cookie[h] IN
  /\ pc[t] = "none"
  /\ ~waits
  /\ Enter(t, h)
  /\ EarlyReturn \/ kern[c] \in {"done", "failed"}
  /\ TryBeginReturn(c)
  /\ state' = [state EXCEPT ![c] = "RETURNING"]
  /\ Goto(t, "return")
  /\ UNCHANGED <<saved, kern, op, buf, job, was, waits>>

(* aio_return(2): hands out the outcome of a finished job once, EINVAL for *)
(* a request that is running or unknown.                                   *)
Return(t) ==
  LET c == obj[t] IN
  /\ pc[t] = "return"
  /\ Goto(t, IF kern[c] = "done" THEN "commit" ELSE "restore")
  /\ kern' = [kern EXCEPT ![c] = IF @ = "active" THEN "active" ELSE "none"]
  /\ UNCHANGED rcvars
  /\ UNCHANGED <<state, saved, op, buf, job, was, waits>>

(* rcaiocb_commit *)
Commit(t) ==
  /\ pc[t] = "commit"
  /\ state' = [state EXCEPT ![obj[t]] = "INIT"]
  /\ saved' = [saved EXCEPT ![obj[t]] = "INIT"]
  /\ Leave(t)
  /\ Goto(t, "none")
  /\ UNCHANGED <<kern, op, buf, job, was, waits>>

(* rcaiocb_rollback(rccb, rccb->cb.aio_state) *)
Restore(t) ==
  /\ pc[t] = "restore"
  /\ state' = [state EXCEPT ![obj[t]] = saved[obj[t]]]
  /\ Leave(t)
  /\ Goto(t, "none")
  /\ UNCHANGED <<saved, kern, op, buf, job, was, waits>>
-----------------------------------------------------------------------------
(* aio_cancel(2) on one request: an active one is canceled (its job ends   *)
(* with ECANCELED) or AIO_NOTCANCELED is returned.                         *)
CancelOutcomes(k) == IF k = "active" THEN {"active", "failed"} ELSE {k}

(* :cancel() after the state was seen PENDING *)
BeginCancel(t, h) ==
  /\ pc[t] = "none"
  /\ Enter(t, h)
  /\ state[cookie[h]] = "PENDING"
  /\ Goto(t, "cancel")
  /\ UNCHANGED <<state, saved, kern, op, buf, job, was, waits>>

Cancel(t) ==
  /\ pc[t] = "cancel"
  /\ \E k \in CancelOutcomes(kern[obj[t]]) : kern' = [kern EXCEPT ![obj[t]] = k]
  /\ Leave(t)
  /\ Goto(t, "none")
  /\ UNCHANGED <<state, saved, op, buf, job, was, waits>>

(* aio.cancel(fd): every active request on the descriptor, none of which   *)
(* the caller needs to hold.                                               *)
CancelFd(t) ==
  /\ pc[t] = "none" /\ at[t] = "idle"
  /\ \E S \in SUBSET {c \in Objects : kern[c] = "active"} :
       kern' = [c \in Objects |-> IF c \in S THEN "failed" ELSE kern[c]]
  /\ UNCHANGED rcvars
  /\ UNCHANGED <<state, saved, op, buf, pc, job, was, waits>>

(* :suspend([timeout]) after the state was seen PENDING.                   *)
BeginSuspend(t, h, timed) ==
  /\ pc[t] = "none"
  /\ Enter(t, h)
  /\ state[cookie[h]] = "PENDING"
  /\ Goto(t, IF timed THEN "poll" ELSE "suspend")
  /\ UNCHANGED <<state, saved, kern, op, buf, job, was, waits>>

(* aio_suspend(2) returns when the job is finished or unknown, or when the *)
(* timeout expires.                                                        *)
Suspend(t) ==
  /\ \/ pc[t] = "suspend" /\ kern[obj[t]] # "active"
     \/ pc[t] = "poll"
  /\ Leave(t)
  /\ Goto(t, "none")
  /\ UNCHANGED <<state, saved, kern, op, buf, job, was, waits>>

(* cb.buf, cb.iov: the state is tested, then the buffer is copied out.     *)
BeginCopy(t, h) ==
  /\ pc[t] = "none"
  /\ Enter(t, h)
  /\ state[cookie[h]] = "INIT"
  /\ Goto(t, "copy")
  /\ UNCHANGED <<state, saved, kern, op, buf, job, was, waits>>

(* :error(), :cookie(), ==, and the other fields only read the request.    *)
Query(t, h) ==
  /\ pc[t] = "none"
  /\ Enter(t, h)
  /\ Goto(t, "query")
  /\ UNCHANGED <<state, saved, kern, op, buf, job, was, waits>>

EndCall(t) ==
  /\ pc[t] \in {"copy", "query"}
  /\ Leave(t)
  /\ Goto(t, "none")
  /\ UNCHANGED <<state, saved, kern, op, buf, job, was, waits>>
-----------------------------------------------------------------------------
(* A thread has the request from aio_waitcomplete(2) in its hands and has  *)
(* not yet a userdata for it.                                              *)
Taken(c) == \E t \in Threads : pc[t] \in {"took", "tookerr"} /\ job[t] = c

(* A program that fetches outcomes with waitcomplete keeps a userdata of a *)
(* request until that is done; others may collect a request in progress.   *)
MayCollect(h) ==
  \/ ~waits
  \/ Holders(cookie[h]) # {h}
  \/ kern[cookie[h]] = "none" /\ ~Taken(cookie[h])

(* __gc: l_aiocb_free up to refcount_release; after the last release the   *)
(* thread goes on to free the request.                                     *)
AioGc(t, h) ==
  /\ pc[t] = "none"
  /\ Gc(t, h)
  /\ MayCollect(h)
  /\ Goto(t, IF LastRelease(cookie[h]) THEN "check" ELSE "none")
  /\ UNCHANGED <<state, saved, kern, op, buf, job, was, waits>>

(* __close: the same function, but the userdata lives on and __gc will run *)
(* it again.  Only the last release stores NULL in the cookie, after which *)
(* the userdata can do nothing and might as well be gone.                  *)
Close(t, h) ==
  /\ pc[t] = "none"
  /\ at[t] = "idle"
  /\ owner[h] = t
  /\ CloseShared \/ LastRelease(cookie[h])
  /\ MayCollect(h)
  /\ IF LastRelease(cookie[h])
     THEN Gc(t, h) /\ Goto(t, "check")
     ELSE /\ refs' = [refs EXCEPT ![cookie[h]] = @ - 1]
          /\ UNCHANGED <<mem, lost, owner, cookie, at, obj, arg, pc>>
  /\ UNCHANGED <<state, saved, kern, op, buf, job, was, waits>>

(* Mutant: the request is freed without looking at its state.              *)
FreeUnchecked(t) ==
  /\ pc[t] = "check"
  /\ Goto(t, "free")
  /\ UNCHANGED rcvars
  /\ UNCHANGED <<state, saved, kern, op, buf, job, was, waits>>

(* "We have exclusive access": is a request outstanding?                   *)
FreeCheck(t) ==
  /\ pc[t] = "check"
  /\ Goto(t, IF state[obj[t]] = "PENDING" THEN "drain" ELSE "free")
  /\ UNCHANGED rcvars
  /\ UNCHANGED <<state, saved, kern, op, buf, job, was, waits>>

(* aio_cancel on the request being freed; AIO_NOTCANCELED must be waited   *)
(* for.  (It fails only for a closed descriptor, which the manual forbids, *)
(* and the process is then aborted.)                                       *)
FreeCancel(t) ==
  /\ pc[t] = "drain"
  /\ \E k \in CancelOutcomes(kern[obj[t]]) :
       /\ kern' = [kern EXCEPT ![obj[t]] = k]
       /\ Goto(t, IF k = "active" THEN "wait" ELSE "reap")
  /\ UNCHANGED rcvars
  /\ UNCHANGED <<state, saved, op, buf, job, was, waits>>

(* Mutant: the wait goes on until the request succeeds.                    *)
FreeSuspendForSuccess(t) ==
  /\ pc[t] = "wait"
  /\ kern[obj[t]] = "done"
  /\ Goto(t, "reap")
  /\ UNCHANGED rcvars
  /\ UNCHANGED <<state, saved, kern, op, buf, job, was, waits>>

(* aio_suspend without timeout, retried when interrupted.                  *)
FreeSuspend(t) ==
  /\ pc[t] = "wait"
  /\ kern[obj[t]] # "active"
  /\ Goto(t, "reap")
  /\ UNCHANGED rcvars
  /\ UNCHANGED <<state, saved, kern, op, buf, job, was, waits>>

(* aio_return, its status ignored                                          *)
FreeReap(t) ==
  /\ pc[t] = "reap"
  /\ kern' = [kern EXCEPT ![obj[t]] = IF @ = "active" THEN "active" ELSE "none"]
  /\ Goto(t, "free")
  /\ UNCHANGED rcvars
  /\ UNCHANGED <<state, saved, op, buf, job, was, waits>>

(* The buffer or the iovecs, then the request itself, go back to the heap. *)
AioFree(t) ==
  /\ pc[t] = "free"
  /\ Free(t)
  /\ Goto(t, "none")
  /\ UNCHANGED <<state, saved, kern, op, buf, job, was, waits>>
-----------------------------------------------------------------------------
(* aio.waitcomplete(): the kernel hands over a finished job of any thread. *)
WaitComplete(t, c) ==
  /\ waits /\ t \in Waiters
  /\ pc[t] = "none" /\ at[t] = "idle"
  /\ kern[c] \in {"done", "failed"}
  /\ kern' = [kern EXCEPT ![c] = "none"]
  /\ job' = [job EXCEPT ![t] = c]
  /\ Goto(t, IF kern[c] = "done" THEN "took" ELSE "tookerr")
  /\ UNCHANGED rcvars
  /\ UNCHANGED <<state, saved, op, buf, was, waits>>

(* Mutant: waitcomplete makes a userdata without retaining.                *)
WaitUncounted(t) ==
  /\ pc[t] \in {"took", "tookerr"}
  /\ at' = [at EXCEPT ![t] = "wrap"]
  /\ obj' = [obj EXCEPT ![t] = job[t]]
  /\ Goto(t, IF pc[t] = "took" THEN "made" ELSE "madeerr")
  /\ UNCHANGED <<mem, refs, lost, owner, cookie, arg>>
  /\ UNCHANGED <<state, saved, kern, op, buf, job, was, waits>>

(* refcount_retain on the request found, with no userdata to vouch for it. *)
WaitRetain(t) ==
  /\ pc[t] \in {"took", "tookerr"}
  /\ refs' = [refs EXCEPT ![job[t]] = @ + 1]
  /\ at' = [at EXCEPT ![t] = "wrap"]
  /\ obj' = [obj EXCEPT ![t] = job[t]]
  /\ Goto(t, IF pc[t] = "took" THEN "made" ELSE "madeerr")
  /\ UNCHANGED <<mem, lost, owner, cookie, arg>>
  /\ UNCHANGED <<state, saved, kern, op, buf, job, was, waits>>

(* Mutant: waitcomplete reports a failed request and forgets the rollback. *)
WaitNoRollback(t) ==
  /\ pc[t] \in {"made", "madeerr"}
  /\ at[t] = "idle"
  /\ IF pc[t] = "made"
     THEN /\ state' = [state EXCEPT ![job[t]] = "INIT"]
          /\ saved' = [saved EXCEPT ![job[t]] = "INIT"]
     ELSE UNCHANGED <<state, saved>>
  /\ job' = [job EXCEPT ![t] = Nil]
  /\ Goto(t, "none")
  /\ UNCHANGED rcvars
  /\ UNCHANGED <<kern, op, buf, was, waits>>

(* After new(): rcaiocb_commit, or rcaiocb_rollback to aio_state.          *)
WaitFinish(t) ==
  LET c == job[t]
      s == IF pc[t] = "made" THEN "INIT" ELSE saved[c] IN
  /\ pc[t] \in {"made", "madeerr"}
  /\ at[t] = "idle"
  /\ state' = [state EXCEPT ![c] = s]
  /\ saved' = [saved EXCEPT ![c] = s]
  /\ job' = [job EXCEPT ![t] = Nil]
  /\ Goto(t, "none")
  /\ UNCHANGED rcvars
  /\ UNCHANGED <<kern, op, buf, was, waits>>
-----------------------------------------------------------------------------
(* The kernel finishes a request; a read fills the buffer, or only a part  *)
(* of it (none at the end of the file).                                    *)
Complete(c) ==
  /\ kern[c] = "active"
  /\ kern' = [kern EXCEPT ![c] = "done"]
  /\ \E b \in IF op[c] = "write" \/ buf[c] = "data" THEN {buf[c]}
              ELSE {"partial", "data"} :
       buf' = [buf EXCEPT ![c] = b]
  /\ UNCHANGED rcvars
  /\ UNCHANGED <<state, saved, op, pc, job, was, waits>>

(* ... or fails it.                                                        *)
CompleteFails(c) ==
  /\ kern[c] = "active"
  /\ kern' = [kern EXCEPT ![c] = "failed"]
  /\ UNCHANGED rcvars
  /\ UNCHANGED <<state, saved, op, buf, pc, job, was, waits>>

FreeSteps(t) ==
  FreeCheck(t) \/ FreeCancel(t) \/ FreeSuspend(t) \/ FreeReap(t) \/ AioFree(t)

AioNext ==
  \/ \E c \in Objects : Complete(c) \/ CompleteFails(c)
  \/ \E t \in Threads :
       \/ \E c \in Objects : \/ \E b \in {"string", "size"} : Shared(t, c, b)
                             \/ AioRetain(t, c)
                             \/ WaitComplete(t, c)
       \/ \E h \in Handles : \/ AioWrap(t, h)
                             \/ \E o \in {"read", "write"} : Begin(t, h, o)
                             \/ BeginReturn(t, h)
                             \/ BeginCancel(t, h)
                             \/ \E b \in BOOLEAN : BeginSuspend(t, h, b)
                             \/ BeginCopy(t, h)
                             \/ Query(t, h)
                             \/ AioGc(t, h)
                             \/ Close(t, h)
       \/ AioWrapFails(t)
       \/ Submit(t) \/ SubmitFails(t)
       \/ Return(t) \/ Commit(t) \/ Restore(t)
       \/ Cancel(t) \/ CancelFd(t) \/ Suspend(t) \/ EndCall(t)
       \/ FreeSteps(t)
       \/ WaitRetain(t) \/ WaitFinish(t)

(* A thread in __gc is inside a C function and goes on when it can, and    *)
(* the kernel finishes what it has started.                                *)
AioSpec ==
  /\ AioInit
  /\ [][AioNext]_vars
  /\ \A t \in Threads : WF_vars(FreeSteps(t))
  /\ \A c \in Objects : WF_vars(Complete(c) \/ CompleteFails(c))
-----------------------------------------------------------------------------
(* The kernel never has a job whose request was freed: it would write to,  *)
(* or aio_waitcomplete would later hand out, memory that is no longer      *)
(* valid (the drain in l_aiocb_free).                                      *)
KernelSafe == \A c \in Objects : kern[c] # "none" => mem[c] = "live"

(* While the kernel works on a request its state is PENDING, so no other   *)
(* thread can resubmit it or read its buffer; an outcome not yet fetched   *)
(* keeps it PENDING or RETURNING.                                          *)
KernelOwnsBuffer ==
  \A c \in Objects :
    /\ kern[c] = "active" => state[c] = "PENDING"
    /\ kern[c] # "none" => state[c] \in {"PENDING", "RETURNING"}

(* A buffer that cb.buf hands to Lua was given its contents by the program *)
(* or by a read that completed: no failed or canceled request, in any      *)
(* order of submissions and returns, makes a malloc'd buffer readable      *)
(* (rcaiocb_rollback restores UNINIT, rcaiocb_trybeginwrite refuses it).   *)
(* After a short read only the beginning of the buffer was written, while  *)
(* INIT is said to mean that it "contains initialized memory": l_aio_return *)
(* does not look at the length.                                            *)
InitWasFilled ==
  \A c \in Objects : mem[c] = "live" /\ state[c] = "INIT" => buf[c] # "raw"

Returning(t, c) == pc[t] \in {"return", "commit", "restore"} /\ obj[t] = c

(* Of any number of threads racing in _return() on one request exactly one *)
(* is let through to aio_return(2), and the request is RETURNING exactly   *)
(* as long as that thread is there (rcaiocb_trybeginreturn).               *)
OneReturner ==
  \A c \in Objects :
    /\ \A t, u \in Threads : Returning(t, c) /\ Returning(u, c) => t = u
    /\ state[c] = "RETURNING" <=> \E t \in Threads : Returning(t, c)

(* A PENDING request is on someone's hands: the kernel has it, a thread is *)
(* submitting it, has fetched its outcome or is freeing it, or a memory    *)
(* error struck waitcomplete.  No interleaving leaves it stuck.            *)
PendingHasOwner ==
  \A c \in Objects :
    mem[c] = "live" /\ state[c] = "PENDING" =>
      \/ kern[c] # "none"
      \/ lost[c] > 0
      \/ \E t \in Threads : \/ pc[t] = "submit" /\ obj[t] = c
                            \/ job[t] = c
                            \/ pc[t] \in {"reap", "free"} /\ obj[t] = c

(* Nobody works on freed memory: RcObject's condition, and the thread that *)
(* got a request from waitcomplete.                                        *)
RequestsLive ==
  /\ NoUseAfterFree
  /\ \A t \in Threads : job[t] # Nil => mem[job[t]] = "live"

(* The transition table in the comment at the top of lua_aio.c: "Any other *)
(* transition is invalid."                                                 *)
ValidTransitions ==
  [][\A c \in Objects :
       mem[c] = "live" /\ state'[c] # state[c] =>
         <<state[c], state'[c]>> \in
           {<<"UNINIT", "PENDING">>, <<"PENDING", "UNINIT">>,
            <<"INIT", "PENDING">>, <<"PENDING", "INIT">>,
            <<"PENDING", "RETURNING">>, <<"RETURNING", "INIT">>,
            <<"RETURNING", "UNINIT">>}]_vars

(* Requests obey the reference-counting protocol of RcObject: each step of *)
(* lua_aio.c is one of its steps or leaves the counts alone.               *)
RequestsAreRcObjects == RcInit /\ [][RcNext]_rcvars

(* The final __gc always gets through its cancel, wait and reap.           *)
FreeTerminates == \A t \in Threads : at[t] = "free" ~> at[t] = "idle"
=============================================================================
