------------------------------ MODULE AioProofs ------------------------------
(***************************************************************************)
(* For any number of threads, requests and userdata: requests are counted  *)
(* like the objects of RcObject, their memory outlives what the kernel     *)
(* does with it, and the state word says who may touch the buffer.         *)
(***************************************************************************)
EXTENDS Aio, RcObjectProofs

CallSteps == {"submit", "return", "commit", "restore", "cancel", "suspend",
              "poll", "copy", "query"}
ReleaseSteps == {"check", "drain", "wait", "reap", "free"}
WaitSteps == {"took", "tookerr", "made", "madeerr"}

(* A step of a method belongs to a call in progress, the steps after the   *)
(* last release to the thread that made it, and a thread that comes out of *)
(* aio_waitcomplete(2) has entered nothing yet.                            *)
StepShape ==
  \A t \in Threads :
    /\ at[t] = "call" <=> pc[t] \in CallSteps
    /\ at[t] = "free" <=> pc[t] \in ReleaseSteps
    /\ pc[t] \in {"took", "tookerr"} => at[t] = "idle"

(* Once waitcomplete has its reference, it is on its way into a userdata,  *)
(* or in one that the thread itself holds.                                 *)
JobShape ==
  \A t \in Threads :
    /\ job[t] # Nil <=> pc[t] \in WaitSteps
    /\ job[t] # Nil => waits
    /\ pc[t] \in {"made", "madeerr"} =>
         IF at[t] = "wrap" THEN obj[t] = job[t]
         ELSE \E h \in Handles : owner[h] = t /\ cookie[h] = job[t]

(* What waitcomplete may still find, or has found, has a userdata.         *)
Kept ==
  waits => \A c \in Objects : kern[c] # "none" \/ Taken(c) => Holders(c) # {}

CountInv ==
  /\ AioTypeOK
  /\ RcInv
  /\ StepShape
  /\ JobShape
  /\ Kept
-----------------------------------------------------------------------------
(* A call in progress holds its request through its argument.              *)
LEMMA CallHolds ==
  ASSUME RcInv, NEW t \in Threads, at[t] = "call"
  PROVE  obj[t] \in Objects /\ Holders(obj[t]) # {}
  BY RcAssumption
  DEF RcAssumption, RcInv, RcTypeOK, CallShape, Holders

(* A thread between the steps of a binding works on a request.             *)
LEMMA BusyHasObject ==
  ASSUME RcInv, NEW t \in Threads, at[t] # "idle"
  PROVE  obj[t] \in Objects /\ mem[obj[t]] = "live"
  BY DEF RcInv, RcTypeOK, CallShape, NoUseAfterFree

(* Every userdata that exists holds a live request.                        *)
LEMMA HolderHasObject ==
  ASSUME RcInv, NEW h \in Handles, owner[h] # Nil
  PROVE  cookie[h] \in Objects /\ mem[cookie[h]] = "live"
  BY DEF RcInv, RcTypeOK, HandleShape, NoUseAfterFree

(* The request that waitcomplete works on is live.                         *)
LEMMA JobLive ==
  ASSUME CountInv, NEW t \in Threads, job[t] # Nil
  PROVE  job[t] \in Objects /\ mem[job[t]] = "live"
  <1>1. job[t] \in Objects /\ waits /\ pc[t] \in WaitSteps
    BY DEF CountInv, AioTypeOK, JobShape
  <1>2. CASE pc[t] \in {"took", "tookerr"}
    <2>1. PICK h \in Handles : owner[h] # Nil /\ cookie[h] = job[t]
      BY <1>1, <1>2 DEF CountInv, Kept, Taken, Holders
    <2> QED BY <1>1, <2>1, HolderHasObject DEF CountInv
  <1>3. CASE pc[t] \in {"made", "madeerr"} /\ at[t] = "wrap"
    BY <1>3, BusyHasObject DEF CountInv, JobShape
  <1>4. CASE pc[t] \in {"made", "madeerr"} /\ at[t] # "wrap"
    <2>1. PICK h \in Handles : owner[h] = t /\ cookie[h] = job[t]
      BY <1>4 DEF CountInv, JobShape
    <2>2. owner[h] # Nil
      BY <2>1, RcAssumption DEF RcAssumption
    <2> QED BY <2>1, <2>2, HolderHasObject DEF CountInv
  <1> QED BY <1>1, <1>2, <1>3, <1>4 DEF WaitSteps

LEMMA AioInit_Count == AioInit => CountInv
  <1> SUFFICES ASSUME AioInit PROVE CountInv
    OBVIOUS
  <1>1. RcInv
    BY RcInitInv DEF AioInit
  <1> QED
    BY <1>1, RcAssumption
    DEF RcAssumption, AioInit, RcInit, CountInv, AioTypeOK, RcInv, States,
        StepShape, JobShape, Kept, Taken, CallSteps, ReleaseSteps, WaitSteps

(* Every step of lua_aio.c is a step of the counting protocol, or leaves   *)
(* the counts alone.                                                       *)
LEMMA RcStep ==
  ASSUME CloseShared = FALSE, CountInv, [AioNext]_vars
  PROVE  [RcNext]_rcvars
  <1>1. ASSUME NEW t \in Threads, NEW h \in Handles, Close(t, h)
        PROVE  Gc(t, h)
    BY <1>1 DEF Close
  <1>2. ASSUME NEW t \in Threads, WaitRetain(t)
        PROVE  \E o \in Objects : Retain(t, o)
    <2>1. job[t] \in Objects /\ waits /\ at[t] = "idle" /\ Taken(job[t])
      BY <1>2 DEF WaitRetain, CountInv, AioTypeOK, StepShape, JobShape, Taken,
                  WaitSteps
    <2>2. Holders(job[t]) # {}
      BY <2>1 DEF CountInv, Kept
    <2> QED BY <1>2, <2>1, <2>2 DEF WaitRetain, Retain
  <1>3. CASE UNCHANGED vars
    BY <1>3 DEF vars, rcvars
  <1>4. ASSUME NEW c \in Objects, Complete(c) \/ CompleteFails(c)
        PROVE  UNCHANGED rcvars
    BY <1>4 DEF Complete, CompleteFails
  <1>5. ASSUME NEW t \in Threads, NEW c \in Objects,
               \/ \E b \in {"string", "size"} : Shared(t, c, b)
               \/ AioRetain(t, c)
               \/ WaitComplete(t, c)
        PROVE  [RcNext]_rcvars
    BY <1>5 DEF Shared, AioRetain, WaitComplete, RcNext
  <1>6. ASSUME NEW t \in Threads, NEW h \in Handles,
               \/ AioWrap(t, h)
               \/ \E o \in {"read", "write"} : Begin(t, h, o)
               \/ BeginReturn(t, h)
               \/ BeginCancel(t, h)
               \/ \E b \in BOOLEAN : BeginSuspend(t, h, b)
               \/ BeginCopy(t, h)
               \/ Query(t, h)
               \/ AioGc(t, h)
               \/ Close(t, h)
        PROVE  [RcNext]_rcvars
    BY <1>6, <1>1 DEF AioWrap, Begin, BeginReturn, BeginCancel, BeginSuspend,
                      BeginCopy, Query, AioGc, RcNext
  <1>7. ASSUME NEW t \in Threads,
               \/ AioWrapFails(t)
               \/ Submit(t) \/ SubmitFails(t)
               \/ Return(t) \/ Commit(t) \/ Restore(t)
               \/ Cancel(t) \/ CancelFd(t) \/ Suspend(t) \/ EndCall(t)
               \/ FreeSteps(t)
               \/ WaitRetain(t) \/ WaitFinish(t)
        PROVE  [RcNext]_rcvars
    BY <1>7, <1>2
    DEF AioWrapFails, Submit, SubmitFails, Return, Commit, Restore, Cancel,
        CancelFd, Suspend, EndCall, FreeSteps, FreeCheck, FreeCancel,
        FreeSuspend, FreeReap, AioFree, WaitFinish, RcNext
  <1> QED BY <1>3, <1>4, <1>5, <1>6, <1>7 DEF AioNext
LEMMA AioNext_Count ==
  ASSUME CloseShared = FALSE, CountInv, [AioNext]_vars
  PROVE  CountInv'
  <1> USE RcAssumption, AioAssumption
      DEF RcAssumption, AioAssumption, RcTypeOK, AioTypeOK, States, StepShape,
          JobShape, Kept, Taken, Holders, CallSteps, ReleaseSteps, WaitSteps
  <1>1. RcInv'
    BY RcStep, RcNextInv DEF CountInv
  <1>2. RcTypeOK /\ RcTypeOK'
    BY <1>1 DEF CountInv, RcInv
  <1>3. /\ AioTypeOK /\ StepShape /\ JobShape /\ Kept
    BY DEF CountInv
  <1>4. /\ \A t \in Threads : at[t] # "idle" => obj[t] \in Objects
        /\ \A t \in Threads : at[t] = "call" => Holders(obj[t]) # {}
        /\ \A h \in Handles : owner[h] # Nil => cookie[h] \in Objects
    BY BusyHasObject, CallHolds, HolderHasObject DEF CountInv
  <1> SUFFICES AioTypeOK' /\ StepShape' /\ JobShape' /\ Kept'
    BY <1>1 DEF CountInv
  <1>5. ASSUME NEW c \in Objects, Complete(c) \/ CompleteFails(c)
        PROVE  AioTypeOK' /\ StepShape' /\ JobShape' /\ Kept'
    BY <1>2, <1>3, <1>4, <1>5 DEF Complete, CompleteFails, rcvars
  <1>6. ASSUME NEW t \in Threads, NEW c \in Objects, NEW b \in {"string", "size"},
               Shared(t, c, b)
        PROVE  AioTypeOK' /\ StepShape' /\ JobShape' /\ Kept'
    BY <1>2, <1>3, <1>4, <1>6 DEF Shared, Create
  <1>7. ASSUME NEW t \in Threads, NEW c \in Objects, AioRetain(t, c)
        PROVE  AioTypeOK' /\ StepShape' /\ JobShape' /\ Kept'
    BY <1>2, <1>3, <1>4, <1>7 DEF AioRetain, Retain, aiovars
  <1>8. ASSUME NEW t \in Threads, NEW c \in Objects, WaitComplete(t, c)
        PROVE  AioTypeOK' /\ StepShape' /\ JobShape' /\ Kept'
    BY <1>2, <1>3, <1>4, <1>8 DEF WaitComplete, rcvars, Goto
  <1>9. ASSUME NEW t \in Threads, NEW h \in Handles, AioWrap(t, h)
        PROVE  AioTypeOK' /\ StepShape' /\ JobShape' /\ Kept'
    BY <1>2, <1>3, <1>4, <1>9 DEF AioWrap, Wrap, aiovars
  <1>10. ASSUME NEW t \in Threads, NEW h \in Handles, NEW o \in {"read", "write"},
                Begin(t, h, o)
        PROVE  AioTypeOK' /\ StepShape' /\ JobShape' /\ Kept'
    BY <1>2, <1>3, <1>4, <1>10 DEF Begin, Enter, Goto, TryBeginRead, TryBeginWrite
  <1>11. ASSUME NEW t \in Threads, NEW h \in Handles, BeginReturn(t, h)
        PROVE  AioTypeOK' /\ StepShape' /\ JobShape' /\ Kept'
    BY <1>2, <1>3, <1>4, <1>11 DEF BeginReturn, Enter, Goto
  <1>12. ASSUME NEW t \in Threads, NEW h \in Handles, BeginCancel(t, h)
        PROVE  AioTypeOK' /\ StepShape' /\ JobShape' /\ Kept'
    BY <1>2, <1>3, <1>4, <1>12 DEF BeginCancel, Enter, Goto
  <1>13. ASSUME NEW t \in Threads, NEW h \in Handles, NEW b \in BOOLEAN,
                BeginSuspend(t, h, b)
        PROVE  AioTypeOK' /\ StepShape' /\ JobShape' /\ Kept'
    BY <1>2, <1>3, <1>4, <1>13 DEF BeginSuspend, Enter, Goto
  <1>14. ASSUME NEW t \in Threads, NEW h \in Handles, BeginCopy(t, h)
        PROVE  AioTypeOK' /\ StepShape' /\ JobShape' /\ Kept'
    BY <1>2, <1>3, <1>4, <1>14 DEF BeginCopy, Enter, Goto
  <1>15. ASSUME NEW t \in Threads, NEW h \in Handles, Query(t, h)
        PROVE  AioTypeOK' /\ StepShape' /\ JobShape' /\ Kept'
    BY <1>2, <1>3, <1>4, <1>15 DEF Query, Enter, Goto
  <1>16. ASSUME NEW t \in Threads, NEW h \in Handles, AioGc(t, h)
        PROVE  AioTypeOK' /\ StepShape' /\ JobShape' /\ Kept'
    BY <1>2, <1>3, <1>4, <1>16 DEF AioGc, Gc, Goto, MayCollect
  <1>17. ASSUME NEW t \in Threads, NEW h \in Handles, Close(t, h)
        PROVE  AioTypeOK' /\ StepShape' /\ JobShape' /\ Kept'
    BY <1>2, <1>3, <1>4, <1>17, SMTT(30) DEF Close, Gc, Goto, MayCollect
  <1>18. ASSUME NEW t \in Threads, AioWrapFails(t)
        PROVE  AioTypeOK' /\ StepShape' /\ JobShape' /\ Kept'
    BY <1>2, <1>3, <1>4, <1>18 DEF AioWrapFails, WrapFails, Goto
  <1>19. ASSUME NEW t \in Threads, Submit(t)
        PROVE  AioTypeOK' /\ StepShape' /\ JobShape' /\ Kept'
    BY <1>2, <1>3, <1>4, <1>19 DEF Submit, Leave, Goto
  <1>20. ASSUME NEW t \in Threads, SubmitFails(t)
        PROVE  AioTypeOK' /\ StepShape' /\ JobShape' /\ Kept'
    BY <1>2, <1>3, <1>4, <1>20 DEF SubmitFails, Leave, Goto
  <1>21. ASSUME NEW t \in Threads, Return(t)
        PROVE  AioTypeOK' /\ StepShape' /\ JobShape' /\ Kept'
    BY <1>2, <1>3, <1>4, <1>21 DEF Return, rcvars, Goto
  <1>22. ASSUME NEW t \in Threads, Commit(t)
        PROVE  AioTypeOK' /\ StepShape' /\ JobShape' /\ Kept'
    BY <1>2, <1>3, <1>4, <1>22 DEF Commit, Leave, Goto
  <1>23. ASSUME NEW t \in Threads, Restore(t)
        PROVE  AioTypeOK' /\ StepShape' /\ JobShape' /\ Kept'
    BY <1>2, <1>3, <1>4, <1>23 DEF Restore, Leave, Goto
  <1>24. ASSUME NEW t \in Threads, Cancel(t)
        PROVE  AioTypeOK' /\ StepShape' /\ JobShape' /\ Kept'
    BY <1>2, <1>3, <1>4, <1>24 DEF Cancel, CancelOutcomes, Leave, Goto
  <1>25. ASSUME NEW t \in Threads, CancelFd(t)
        PROVE  AioTypeOK' /\ StepShape' /\ JobShape' /\ Kept'
    BY <1>2, <1>3, <1>4, <1>25 DEF CancelFd, rcvars
  <1>26. ASSUME NEW t \in Threads, Suspend(t)
        PROVE  AioTypeOK' /\ StepShape' /\ JobShape' /\ Kept'
    BY <1>2, <1>3, <1>4, <1>26 DEF Suspend, Leave, Goto
  <1>27. ASSUME NEW t \in Threads, EndCall(t)
        PROVE  AioTypeOK' /\ StepShape' /\ JobShape' /\ Kept'
    BY <1>2, <1>3, <1>4, <1>27 DEF EndCall, Leave, Goto
  <1>28. ASSUME NEW t \in Threads, FreeCheck(t)
        PROVE  AioTypeOK' /\ StepShape' /\ JobShape' /\ Kept'
    BY <1>2, <1>3, <1>4, <1>28 DEF FreeCheck, rcvars, Goto
  <1>29. ASSUME NEW t \in Threads, FreeCancel(t)
        PROVE  AioTypeOK' /\ StepShape' /\ JobShape' /\ Kept'
    BY <1>2, <1>3, <1>4, <1>29 DEF FreeCancel, CancelOutcomes, rcvars, Goto
  <1>30. ASSUME NEW t \in Threads, FreeSuspend(t)
        PROVE  AioTypeOK' /\ StepShape' /\ JobShape' /\ Kept'
    BY <1>2, <1>3, <1>4, <1>30 DEF FreeSuspend, rcvars, Goto
  <1>31. ASSUME NEW t \in Threads, FreeReap(t)
        PROVE  AioTypeOK' /\ StepShape' /\ JobShape' /\ Kept'
    BY <1>2, <1>3, <1>4, <1>31 DEF FreeReap, rcvars, Goto
  <1>32. ASSUME NEW t \in Threads, AioFree(t)
        PROVE  AioTypeOK' /\ StepShape' /\ JobShape' /\ Kept'
    BY <1>2, <1>3, <1>4, <1>32 DEF AioFree, Free, Goto
  <1>33. ASSUME NEW t \in Threads, WaitRetain(t)
        PROVE  AioTypeOK' /\ StepShape' /\ JobShape' /\ Kept'
    BY <1>2, <1>3, <1>4, <1>33 DEF WaitRetain, Goto
  <1>34. ASSUME NEW t \in Threads, WaitFinish(t)
        PROVE  AioTypeOK' /\ StepShape' /\ JobShape' /\ Kept'
    BY <1>2, <1>3, <1>4, <1>34 DEF WaitFinish, rcvars, Goto
  <1>35. CASE UNCHANGED vars
    BY <1>2, <1>3, <1>4, <1>35 DEF vars, rcvars, aiovars
  <1> HIDE DEF AioTypeOK, StepShape, JobShape, Kept
  <1> QED
    BY <1>5, <1>6, <1>7, <1>8, <1>9, <1>10, <1>11, <1>12, <1>13, <1>14, <1>15,
       <1>16, <1>17, <1>18, <1>19, <1>20, <1>21, <1>22, <1>23, <1>24, <1>25,
       <1>26, <1>27, <1>28, <1>29, <1>30, <1>31, <1>32, <1>33, <1>34, <1>35
    DEF AioNext, FreeSteps
-----------------------------------------------------------------------------
(* A thread that the state word gives the request to: it is submitting the *)
(* request, fetching its outcome, or has its outcome from waitcomplete.    *)
Claims(t, c) ==
  \/ pc[t] \in {"submit", "return", "commit", "restore"} /\ obj[t] = c
  \/ job[t] = c

(* What the state word and the kernel say while a thread claims a request. *)
ClaimShape ==
  \A t \in Threads, c \in Objects :
    /\ pc[t] = "submit" /\ obj[t] = c => state[c] = "PENDING" /\ kern[c] = "none"
    /\ Returning(t, c) => state[c] = "RETURNING" /\ ~waits
    /\ pc[t] = "return" /\ obj[t] = c => kern[c] \in {"done", "failed"}
    /\ pc[t] \in {"commit", "restore"} /\ obj[t] = c => kern[c] = "none"
    /\ job[t] = c => state[c] = "PENDING" /\ kern[c] = "none"

OneClaim ==
  \A t, u \in Threads, c \in Objects : Claims(t, c) /\ Claims(u, c) => t = u

(* l_aiocb_free gets past aio_suspend when the job is over, and past       *)
(* aio_return when the kernel has forgotten it.                            *)
ReleaseShape ==
  \A t \in Threads :
    /\ pc[t] = "reap" => kern[obj[t]] # "active"
    /\ pc[t] = "free" => kern[obj[t]] = "none"

StateInv ==
  /\ ClaimShape
  /\ OneClaim
  /\ ReleaseShape
  /\ KernelSafe
  /\ KernelOwnsBuffer
  /\ OneReturner
  /\ PendingHasOwner

LEMMA AioInit_State == AioInit => StateInv
  BY RcAssumption
  DEF RcAssumption, AioInit, RcInit, StateInv, ClaimShape, OneClaim, Claims,
      Returning, ReleaseShape, KernelSafe, KernelOwnsBuffer, OneReturner,
      PendingHasOwner

Marked == {"submit", "return", "commit", "restore", "reap", "free"}

(* Steps that StateInv does not speak of leave it alone.                   *)
LEMMA Elsewhere ==
  ASSUME StateInv, NEW t \in Threads,
         pc[t] \notin Marked, pc'[t] \notin Marked,
         \A u \in Threads \ {t} : pc'[u] = pc[u] /\ obj'[u] = obj[u],
         UNCHANGED <<state, kern, job, waits, mem, lost>>
  PROVE  StateInv'
  <1> USE DEF StateInv, Marked
  <1>1. ClaimShape' /\ ReleaseShape'
    BY DEF ClaimShape, ReleaseShape, Returning
  <1>2. OneClaim'
    BY DEF OneClaim, Claims
  <1>3. KernelSafe' /\ KernelOwnsBuffer'
    BY DEF KernelSafe, KernelOwnsBuffer
  <1>4. OneReturner'
    <2>1. \A u \in Threads, c \in Objects : Returning(u, c)' <=> Returning(u, c)
      BY DEF Returning
    <2> QED BY <2>1 DEF OneReturner
  <1>5. PendingHasOwner'
    <2>1. \A u \in Threads, c \in Objects :
            /\ (pc[u] = "submit" /\ obj[u] = c)' <=> (pc[u] = "submit" /\ obj[u] = c)
            /\ (pc[u] \in {"reap", "free"} /\ obj[u] = c)'
                 <=> (pc[u] \in {"reap", "free"} /\ obj[u] = c)
      OBVIOUS
    <2> QED BY <2>1 DEF PendingHasOwner
  <1> QED BY <1>1, <1>2, <1>3, <1>4, <1>5

(* Of the steps of lua_aio.c these are such steps.                         *)
LEMMA QuietSteps ==
  ASSUME CloseShared = FALSE, CountInv, StateInv, NEW t \in Threads,
         \/ \E c \in Objects : AioRetain(t, c)
         \/ \E h \in Handles : \/ AioWrap(t, h)
                               \/ BeginCancel(t, h)
                               \/ \E b \in BOOLEAN : BeginSuspend(t, h, b)
                               \/ BeginCopy(t, h)
                               \/ Query(t, h)
                               \/ AioGc(t, h)
                               \/ Close(t, h)
         \/ Suspend(t)
         \/ EndCall(t)
  PROVE  StateInv'
  <1> DEFINE Q == /\ pc[t] \notin Marked
                  /\ pc'[t] \notin Marked
                  /\ \A u \in Threads \ {t} : pc'[u] = pc[u] /\ obj'[u] = obj[u]
                  /\ UNCHANGED <<state, kern, job, waits, mem, lost>>
  <1>1. RcTypeOK /\ AioTypeOK /\ StepShape
    BY DEF CountInv, RcInv
  <1> USE <1>1 DEF RcTypeOK, AioTypeOK, Marked, Goto
  <1>2. ASSUME NEW c \in Objects, AioRetain(t, c) PROVE Q
    BY <1>2 DEF AioRetain, Retain, aiovars
  <1>3. ASSUME NEW h \in Handles, AioWrap(t, h) PROVE Q
    BY <1>3 DEF AioWrap, Wrap, aiovars, StepShape, CallSteps, ReleaseSteps
  <1>4. ASSUME NEW h \in Handles,
               \/ BeginCancel(t, h)
               \/ \E b \in BOOLEAN : BeginSuspend(t, h, b)
               \/ BeginCopy(t, h)
               \/ Query(t, h)
        PROVE  Q
    BY <1>4 DEF BeginCancel, BeginSuspend, BeginCopy, Query, Enter
  <1>5. ASSUME NEW h \in Handles, AioGc(t, h) \/ Close(t, h) PROVE Q
    BY <1>5 DEF AioGc, Close, Gc
  <1>6. ASSUME Suspend(t) \/ EndCall(t) PROVE Q
    BY <1>6 DEF Suspend, EndCall, Leave
  <1>7. Q
    BY <1>2, <1>3, <1>4, <1>5, <1>6
  <1> QED BY <1>7, Elsewhere

LEMMA AioNext_State ==
  ASSUME CloseShared = FALSE, EarlyReturn = FALSE,
         CountInv, StateInv, [AioNext]_vars
  PROVE  StateInv'
  <1> USE RcAssumption, AioAssumption
      DEF RcAssumption, AioAssumption, RcTypeOK, AioTypeOK, States, StepShape,
          CallSteps, ReleaseSteps, WaitSteps, StateInv, ClaimShape,
          OneClaim, Claims, Returning, ReleaseShape, KernelSafe,
          KernelOwnsBuffer, OneReturner, PendingHasOwner
  <1>1. CountInv'
    BY AioNext_Count
  <1>2. /\ RcTypeOK /\ RcTypeOK'
        /\ AioTypeOK /\ AioTypeOK'
        /\ StepShape /\ StepShape'
    BY <1>1 DEF CountInv, RcInv
  <1>3. /\ \A t \in Threads : at[t] # "idle" => obj[t] \in Objects /\ mem[obj[t]] = "live"
        /\ \A t \in Threads : at[t] = "idle" => obj[t] = Nil
        /\ \A h \in Handles : owner[h] # Nil => cookie[h] \in Objects /\ mem[cookie[h]] = "live"
        /\ \A t \in Threads : job[t] # Nil => job[t] \in Objects /\ mem[job[t]] = "live"
    BY BusyHasObject, HolderHasObject, JobLive DEF CountInv, RcInv, CallShape
  <1>4. \A t, u \in Threads : at[t] = "free" /\ u # t => obj[u] # obj[t]
    BY RcInvExclusive DEF CountInv, FreeIsExclusive
  <1>5. /\ \A t \in Threads : job[t] # Nil <=> pc[t] \in WaitSteps
        /\ \A t \in Threads : job[t] # Nil => waits
        /\ \A t \in Threads : pc[t] \in {"made", "madeerr"} /\ at[t] = "wrap" => obj[t] = job[t]
    BY DEF CountInv, JobShape
  <1>6. ASSUME NEW c \in Objects, Complete(c) \/ CompleteFails(c)
        PROVE  StateInv'
    <2>1. ClaimShape'
      BY <1>2, <1>3, <1>4, <1>5, <1>6 DEF Complete, CompleteFails, rcvars
    <2>2. OneClaim'
      BY <1>2, <1>3, <1>4, <1>5, <1>6 DEF Complete, CompleteFails, rcvars
    <2>3. ReleaseShape'
      BY <1>2, <1>3, <1>4, <1>5, <1>6 DEF Complete, CompleteFails, rcvars
    <2>4. KernelSafe'
      BY <1>2, <1>3, <1>4, <1>5, <1>6 DEF Complete, CompleteFails, rcvars
    <2>5. KernelOwnsBuffer'
      BY <1>2, <1>3, <1>4, <1>5, <1>6 DEF Complete, CompleteFails, rcvars
    <2>6. OneReturner'
      BY <1>2, <1>3, <1>4, <1>5, <1>6 DEF Complete, CompleteFails, rcvars
    <2>7. PendingHasOwner'
      <3> SUFFICES ASSUME NEW x \in Objects, mem'[x] = "live", state'[x] = "PENDING"
                   PROVE  \/ kern'[x] # "none"
                          \/ lost'[x] > 0
                          \/ \E u \in Threads : \/ pc'[u] = "submit" /\ obj'[u] = x
                                                \/ job'[u] = x
                                                \/ pc'[u] \in {"reap", "free"} /\ obj'[u] = x
        OBVIOUS
      <3>1. CASE x = c
        BY <1>2, <1>3, <1>4, <1>5, <1>6, <3>1 DEF Complete, CompleteFails, rcvars
      <3>2. CASE x # c
        <4>1. /\ mem'[x] = mem[x] /\ kern'[x] = kern[x] /\ UNCHANGED <<state, lost>>
              /\ \A u \in Threads :
                   /\ (pc[u] = "submit" /\ obj[u] = x) => (pc[u] = "submit" /\ obj[u] = x)'
                   /\ (pc[u] \in {"reap", "free"} /\ obj[u] = x)
                        => (pc[u] \in {"reap", "free"} /\ obj[u] = x)'
                   /\ job[u] = x => job'[u] = x
          BY <1>2, <1>3, <1>4, <1>5, <1>6, <3>2 DEF Complete, CompleteFails, rcvars
        <4> QED BY <4>1
      <3> QED BY <3>1, <3>2
    <2> QED BY <2>1, <2>2, <2>3, <2>4, <2>5, <2>6, <2>7
  <1>7. ASSUME NEW t \in Threads, NEW c \in Objects, NEW b \in {"string", "size"},
               Shared(t, c, b)
        PROVE  StateInv'
    BY <1>2, <1>3, <1>4, <1>5, <1>7, SMTT(30) DEF Shared, Create
  <1>8. ASSUME NEW t \in Threads, NEW c \in Objects, WaitComplete(t, c)
        PROVE  StateInv'
    <2>1. ClaimShape'
      BY <1>2, <1>3, <1>4, <1>5, <1>8 DEF WaitComplete, rcvars, Goto
    <2>2. OneClaim'
      BY <1>2, <1>3, <1>4, <1>5, <1>8 DEF WaitComplete, rcvars, Goto
    <2>3. ReleaseShape'
      BY <1>2, <1>3, <1>4, <1>5, <1>8 DEF WaitComplete, rcvars, Goto
    <2>4. KernelSafe'
      BY <1>2, <1>3, <1>4, <1>5, <1>8 DEF WaitComplete, rcvars, Goto
    <2>5. KernelOwnsBuffer'
      BY <1>2, <1>3, <1>4, <1>5, <1>8 DEF WaitComplete, rcvars, Goto
    <2>6. OneReturner'
      BY <1>2, <1>3, <1>4, <1>5, <1>8 DEF WaitComplete, rcvars, Goto
    <2>7. PendingHasOwner'
      <3> SUFFICES ASSUME NEW x \in Objects, mem'[x] = "live", state'[x] = "PENDING"
                   PROVE  \/ kern'[x] # "none"
                          \/ lost'[x] > 0
                          \/ \E u \in Threads : \/ pc'[u] = "submit" /\ obj'[u] = x
                                                \/ job'[u] = x
                                                \/ pc'[u] \in {"reap", "free"} /\ obj'[u] = x
        OBVIOUS
      <3>1. CASE x = c
        BY <1>2, <1>3, <1>4, <1>5, <1>8, <3>1 DEF WaitComplete, rcvars, Goto
      <3>2. CASE x # c
        <4>1. mem'[x] = mem[x] /\ kern'[x] = kern[x] /\ UNCHANGED <<state, lost, obj>>
          BY <1>2, <1>8, <3>2 DEF WaitComplete, rcvars
        <4>2. pc[t] = "none" /\ job[t] # x
          BY <1>5, <1>8 DEF WaitComplete
        <4>3. \A u \in Threads : u # t => pc'[u] = pc[u] /\ job'[u] = job[u]
          BY <1>2, <1>8 DEF WaitComplete, Goto
        <4> QED BY <4>1, <4>2, <4>3
      <3> QED BY <3>1, <3>2
    <2> QED BY <2>1, <2>2, <2>3, <2>4, <2>5, <2>6, <2>7
  <1>9. ASSUME NEW t \in Threads, NEW h \in Handles, NEW o \in {"read", "write"},
               Begin(t, h, o)
        PROVE  StateInv'
    <2>1. ClaimShape'
      BY <1>2, <1>3, <1>4, <1>5, <1>9 DEF Begin, Enter, Goto, TryBeginRead, TryBeginWrite
    <2>2. OneClaim'
      BY <1>2, <1>3, <1>4, <1>5, <1>9 DEF Begin, Enter, Goto, TryBeginRead, TryBeginWrite
    <2>3. ReleaseShape'
      BY <1>2, <1>3, <1>4, <1>5, <1>9 DEF Begin, Enter, Goto, TryBeginRead, TryBeginWrite
    <2>4. KernelSafe'
      BY <1>2, <1>3, <1>4, <1>5, <1>9 DEF Begin, Enter, Goto, TryBeginRead, TryBeginWrite
    <2>5. KernelOwnsBuffer'
      BY <1>2, <1>3, <1>4, <1>5, <1>9 DEF Begin, Enter, Goto, TryBeginRead, TryBeginWrite
    <2>6. OneReturner'
      BY <1>2, <1>3, <1>4, <1>5, <1>9 DEF Begin, Enter, Goto, TryBeginRead, TryBeginWrite
    <2>7. PendingHasOwner'
      BY <1>2, <1>3, <1>4, <1>5, <1>9 DEF Begin, Enter, Goto, TryBeginRead, TryBeginWrite
    <2> QED BY <2>1, <2>2, <2>3, <2>4, <2>5, <2>6, <2>7
  <1>10. ASSUME NEW t \in Threads, NEW h \in Handles, BeginReturn(t, h)
        PROVE  StateInv'
    <2>1. ClaimShape'
      BY <1>2, <1>3, <1>4, <1>5, <1>10 DEF BeginReturn, Enter, Goto
    <2>2. OneClaim'
      <3>1. \A u \in Threads, c \in Objects :
              Claims(u, c)' <=> Claims(u, c) \/ (u = t /\ c = cookie[h])
        BY <1>2, <1>3, <1>4, <1>5, <1>10 DEF BeginReturn, Enter, Goto
      <3>2. \A u \in Threads : ~Claims(u, cookie[h])
        BY <1>2, <1>3, <1>4, <1>5, <1>10 DEF BeginReturn, Enter, Goto, TryBeginReturn
      <3> HIDE DEF Claims
      <3> QED BY <3>1, <3>2
    <2>3. ReleaseShape'
      BY <1>2, <1>3, <1>4, <1>5, <1>10 DEF BeginReturn, Enter, Goto
    <2>4. KernelSafe'
      BY <1>2, <1>3, <1>4, <1>5, <1>10 DEF BeginReturn, Enter, Goto
    <2>5. KernelOwnsBuffer'
      BY <1>2, <1>3, <1>4, <1>5, <1>10 DEF BeginReturn, Enter, Goto
    <2>6. OneReturner'
      <3>1. \A u \in Threads, c \in Objects :
              Returning(u, c)' <=> Returning(u, c) \/ (u = t /\ c = cookie[h])
        BY <1>2, <1>3, <1>4, <1>5, <1>10 DEF BeginReturn, Enter, Goto
      <3>2. \A u \in Threads : ~Returning(u, cookie[h])
        BY <1>2, <1>3, <1>4, <1>5, <1>10 DEF BeginReturn, Enter, Goto, TryBeginReturn
      <3>3. /\ cookie[h] \in Objects
            /\ state' = [state EXCEPT ![cookie[h]] = "RETURNING"]
        BY <1>2, <1>3, <1>4, <1>5, <1>10 DEF BeginReturn, Enter, Goto
      <3> HIDE DEF Returning
      <3> QED BY <1>2, <3>1, <3>2, <3>3
    <2>7. PendingHasOwner'
      BY <1>2, <1>3, <1>4, <1>5, <1>10 DEF BeginReturn, Enter, Goto
    <2> QED BY <2>1, <2>2, <2>3, <2>4, <2>5, <2>6, <2>7
  <1>11. ASSUME NEW t \in Threads, AioWrapFails(t)
        PROVE  StateInv'
    <2>1. ClaimShape'
      BY <1>2, <1>3, <1>4, <1>5, <1>11 DEF AioWrapFails, WrapFails, Goto
    <2>2. OneClaim'
      BY <1>2, <1>3, <1>4, <1>5, <1>11 DEF AioWrapFails, WrapFails, Goto
    <2>3. ReleaseShape'
      BY <1>2, <1>3, <1>4, <1>5, <1>11 DEF AioWrapFails, WrapFails, Goto
    <2>4. KernelSafe'
      BY <1>2, <1>3, <1>4, <1>5, <1>11 DEF AioWrapFails, WrapFails, Goto
    <2>5. KernelOwnsBuffer'
      BY <1>2, <1>3, <1>4, <1>5, <1>11 DEF AioWrapFails, WrapFails, Goto
    <2>6. OneReturner'
      BY <1>2, <1>3, <1>4, <1>5, <1>11 DEF AioWrapFails, WrapFails, Goto
    <2>7. PendingHasOwner'
      BY <1>2, <1>3, <1>4, <1>5, <1>11 DEF AioWrapFails, WrapFails, Goto
    <2> QED BY <2>1, <2>2, <2>3, <2>4, <2>5, <2>6, <2>7
  <1>12. ASSUME NEW t \in Threads, Submit(t)
        PROVE  StateInv'
    <2>1. ClaimShape'
      BY <1>2, <1>3, <1>4, <1>5, <1>12 DEF Submit, Leave, Goto
    <2>2. OneClaim'
      BY <1>2, <1>3, <1>4, <1>5, <1>12 DEF Submit, Leave, Goto
    <2>3. ReleaseShape'
      BY <1>2, <1>3, <1>4, <1>5, <1>12 DEF Submit, Leave, Goto
    <2>4. KernelSafe'
      BY <1>2, <1>3, <1>4, <1>5, <1>12 DEF Submit, Leave, Goto
    <2>5. KernelOwnsBuffer'
      BY <1>2, <1>3, <1>4, <1>5, <1>12 DEF Submit, Leave, Goto
    <2>6. OneReturner'
      BY <1>2, <1>3, <1>4, <1>5, <1>12 DEF Submit, Leave, Goto
    <2>7. PendingHasOwner'
      BY <1>2, <1>3, <1>4, <1>5, <1>12 DEF Submit, Leave, Goto
    <2> QED BY <2>1, <2>2, <2>3, <2>4, <2>5, <2>6, <2>7
  <1>13. ASSUME NEW t \in Threads, SubmitFails(t)
        PROVE  StateInv'
    BY <1>2, <1>3, <1>4, <1>5, <1>13, SMTT(30) DEF SubmitFails, Leave, Goto
  <1>14. ASSUME NEW t \in Threads, Return(t)
        PROVE  StateInv'
    <2>1. ClaimShape'
      BY <1>2, <1>3, <1>4, <1>5, <1>14 DEF Return, rcvars, Goto
    <2>2. OneClaim'
      BY <1>2, <1>3, <1>4, <1>5, <1>14 DEF Return, rcvars, Goto
    <2>3. ReleaseShape'
      BY <1>2, <1>3, <1>4, <1>5, <1>14 DEF Return, rcvars, Goto
    <2>4. KernelSafe'
      BY <1>2, <1>3, <1>4, <1>5, <1>14 DEF Return, rcvars, Goto
    <2>5. KernelOwnsBuffer'
      BY <1>2, <1>3, <1>4, <1>5, <1>14 DEF Return, rcvars, Goto
    <2>6. OneReturner'
      BY <1>2, <1>3, <1>4, <1>5, <1>14 DEF Return, rcvars, Goto
    <2>7. PendingHasOwner'
      BY <1>2, <1>3, <1>4, <1>5, <1>14 DEF Return, rcvars, Goto
    <2> QED BY <2>1, <2>2, <2>3, <2>4, <2>5, <2>6, <2>7
  <1>15. ASSUME NEW t \in Threads, Commit(t)
        PROVE  StateInv'
    <2>1. ClaimShape'
      BY <1>2, <1>3, <1>4, <1>5, <1>15 DEF Commit, Leave, Goto
    <2>2. OneClaim'
      BY <1>2, <1>3, <1>4, <1>5, <1>15 DEF Commit, Leave, Goto
    <2>3. ReleaseShape'
      BY <1>2, <1>3, <1>4, <1>5, <1>15 DEF Commit, Leave, Goto
    <2>4. KernelSafe'
      BY <1>2, <1>3, <1>4, <1>5, <1>15 DEF Commit, Leave, Goto
    <2>5. KernelOwnsBuffer'
      BY <1>2, <1>3, <1>4, <1>5, <1>15 DEF Commit, Leave, Goto
    <2>6. OneReturner'
      BY <1>2, <1>3, <1>4, <1>5, <1>15 DEF Commit, Leave, Goto
    <2>7. PendingHasOwner'
      BY <1>2, <1>3, <1>4, <1>5, <1>15 DEF Commit, Leave, Goto
    <2> QED BY <2>1, <2>2, <2>3, <2>4, <2>5, <2>6, <2>7
  <1>16. ASSUME NEW t \in Threads, Restore(t)
        PROVE  StateInv'
    BY <1>2, <1>3, <1>4, <1>5, <1>16 DEF Restore, Leave, Goto
  <1>17. ASSUME NEW t \in Threads, Cancel(t)
        PROVE  StateInv'
    <2>1. ClaimShape'
      BY <1>2, <1>3, <1>4, <1>5, <1>17 DEF Cancel, CancelOutcomes, Leave, Goto
    <2>2. OneClaim'
      BY <1>2, <1>3, <1>4, <1>5, <1>17 DEF Cancel, CancelOutcomes, Leave, Goto
    <2>3. ReleaseShape'
      BY <1>2, <1>3, <1>4, <1>5, <1>17 DEF Cancel, CancelOutcomes, Leave, Goto
    <2>4. KernelSafe'
      BY <1>2, <1>3, <1>4, <1>5, <1>17 DEF Cancel, CancelOutcomes, Leave, Goto
    <2>5. KernelOwnsBuffer'
      BY <1>2, <1>3, <1>4, <1>5, <1>17 DEF Cancel, CancelOutcomes, Leave, Goto
    <2>6. OneReturner'
      <3>1. \A u \in Threads, c \in Objects : Returning(u, c)' <=> Returning(u, c)
        BY <1>2, <1>17 DEF Cancel, CancelOutcomes, Leave, Goto
      <3> QED BY <1>17, <3>1 DEF Cancel
    <2>7. PendingHasOwner'
      <3> SUFFICES ASSUME NEW x \in Objects, mem'[x] = "live", state'[x] = "PENDING"
                   PROVE  \/ kern'[x] # "none"
                          \/ lost'[x] > 0
                          \/ \E u \in Threads : \/ pc'[u] = "submit" /\ obj'[u] = x
                                                \/ job'[u] = x
                                                \/ pc'[u] \in {"reap", "free"} /\ obj'[u] = x
        OBVIOUS
      <3>1. /\ (kern[x] # "none" => kern'[x] # "none") /\ UNCHANGED <<mem, state, lost>>
            /\ \A u \in Threads :
                 /\ (pc[u] = "submit" /\ obj[u] = x) => (pc[u] = "submit" /\ obj[u] = x)'
                 /\ (pc[u] \in {"reap", "free"} /\ obj[u] = x)
                      => (pc[u] \in {"reap", "free"} /\ obj[u] = x)'
                 /\ job[u] = x => job'[u] = x
        BY <1>2, <1>3, <1>17 DEF Cancel, CancelOutcomes, Leave, Goto
      <3> QED BY <3>1
    <2> QED BY <2>1, <2>2, <2>3, <2>4, <2>5, <2>6, <2>7
  <1>18. ASSUME NEW t \in Threads, CancelFd(t)
        PROVE  StateInv'
    BY <1>2, <1>3, <1>4, <1>5, <1>18 DEF CancelFd, rcvars
  <1>19. ASSUME NEW t \in Threads, FreeCheck(t)
        PROVE  StateInv'
    <2>1. ClaimShape'
      BY <1>2, <1>3, <1>4, <1>5, <1>19 DEF FreeCheck, rcvars, Goto
    <2>2. OneClaim'
      BY <1>2, <1>3, <1>4, <1>5, <1>19 DEF FreeCheck, rcvars, Goto
    <2>3. ReleaseShape'
      BY <1>2, <1>3, <1>4, <1>5, <1>19 DEF FreeCheck, rcvars, Goto
    <2>4. KernelSafe'
      BY <1>2, <1>3, <1>4, <1>5, <1>19 DEF FreeCheck, rcvars, Goto
    <2>5. KernelOwnsBuffer'
      BY <1>2, <1>3, <1>4, <1>5, <1>19 DEF FreeCheck, rcvars, Goto
    <2>6. OneReturner'
      BY <1>2, <1>3, <1>4, <1>5, <1>19 DEF FreeCheck, rcvars, Goto
    <2>7. PendingHasOwner'
      <3> SUFFICES ASSUME NEW x \in Objects, mem'[x] = "live", state'[x] = "PENDING"
                   PROVE  \/ kern'[x] # "none"
                          \/ lost'[x] > 0
                          \/ \E u \in Threads : \/ pc'[u] = "submit" /\ obj'[u] = x
                                                \/ job'[u] = x
                                                \/ pc'[u] \in {"reap", "free"} /\ obj'[u] = x
        OBVIOUS
      <3>1. /\ UNCHANGED <<mem, state, kern, lost, job, obj>>
            /\ \A u \in Threads :
                 /\ pc[u] = "submit" => pc'[u] = "submit"
                 /\ pc[u] \in {"reap", "free"} => pc'[u] \in {"reap", "free"}
        BY <1>2, <1>19 DEF FreeCheck, rcvars, Goto
      <3> QED BY <3>1
    <2> QED BY <2>1, <2>2, <2>3, <2>4, <2>5, <2>6, <2>7
  <1>20. ASSUME NEW t \in Threads, FreeCancel(t)
        PROVE  StateInv'
    BY <1>2, <1>3, <1>4, <1>5, <1>20 DEF FreeCancel, CancelOutcomes, rcvars, Goto
  <1>21. ASSUME NEW t \in Threads, FreeSuspend(t)
        PROVE  StateInv'
    <2>1. ClaimShape'
      BY <1>2, <1>3, <1>4, <1>5, <1>21 DEF FreeSuspend, rcvars, Goto
    <2>2. OneClaim'
      BY <1>2, <1>3, <1>4, <1>5, <1>21 DEF FreeSuspend, rcvars, Goto
    <2>3. ReleaseShape'
      BY <1>2, <1>3, <1>4, <1>5, <1>21 DEF FreeSuspend, rcvars, Goto
    <2>4. KernelSafe'
      BY <1>2, <1>3, <1>4, <1>5, <1>21 DEF FreeSuspend, rcvars, Goto
    <2>5. KernelOwnsBuffer'
      BY <1>2, <1>3, <1>4, <1>5, <1>21 DEF FreeSuspend, rcvars, Goto
    <2>6. OneReturner'
      BY <1>2, <1>3, <1>4, <1>5, <1>21 DEF FreeSuspend, rcvars, Goto
    <2>7. PendingHasOwner'
      BY <1>2, <1>3, <1>4, <1>5, <1>21, SMTT(30) DEF FreeSuspend, rcvars, Goto
    <2> QED BY <2>1, <2>2, <2>3, <2>4, <2>5, <2>6, <2>7
  <1>22. ASSUME NEW t \in Threads, FreeReap(t)
        PROVE  StateInv'
    BY <1>2, <1>3, <1>4, <1>5, <1>22 DEF FreeReap, rcvars, Goto
  <1>23. ASSUME NEW t \in Threads, AioFree(t)
        PROVE  StateInv'
    <2>1. ClaimShape'
      BY <1>2, <1>3, <1>4, <1>5, <1>23 DEF AioFree, Free, Goto
    <2>2. OneClaim'
      BY <1>2, <1>3, <1>4, <1>5, <1>23 DEF AioFree, Free, Goto
    <2>3. ReleaseShape'
      BY <1>2, <1>3, <1>4, <1>5, <1>23 DEF AioFree, Free, Goto
    <2>4. KernelSafe'
      <3>1. /\ kern' = kern /\ obj[t] \in Objects
            /\ mem' = [mem EXCEPT ![obj[t]] = "freed"]
            /\ kern[obj[t]] = "none"
        BY <1>2, <1>3, <1>4, <1>5, <1>23 DEF AioFree, Free
      <3> QED BY <1>2, <3>1
    <2>5. KernelOwnsBuffer'
      BY <1>2, <1>3, <1>4, <1>5, <1>23 DEF AioFree, Free, Goto
    <2>6. OneReturner'
      <3>1. state' = state /\ \A u \in Threads, c \in Objects : Returning(u, c)' <=> Returning(u, c)
        BY <1>2, <1>3, <1>4, <1>5, <1>23 DEF AioFree, Free, Goto
      <3> HIDE DEF Returning
      <3> QED BY <3>1
    <2>7. PendingHasOwner'
      <3> SUFFICES ASSUME NEW x \in Objects, mem'[x] = "live", state'[x] = "PENDING"
                   PROVE  \/ kern'[x] # "none"
                          \/ lost'[x] > 0
                          \/ \E u \in Threads : \/ pc'[u] = "submit" /\ obj'[u] = x
                                                \/ job'[u] = x
                                                \/ pc'[u] \in {"reap", "free"} /\ obj'[u] = x
        OBVIOUS
      <3>1. CASE x = obj[t]
        BY <1>2, <1>3, <1>4, <1>5, <1>23, <3>1 DEF AioFree, Free, Goto
      <3>2. CASE x # obj[t]
        <4>1. /\ mem'[x] = mem[x] /\ kern'[x] = kern[x] /\ UNCHANGED <<state, lost>>
              /\ \A u \in Threads :
                   /\ (pc[u] = "submit" /\ obj[u] = x) => (pc[u] = "submit" /\ obj[u] = x)'
                   /\ (pc[u] \in {"reap", "free"} /\ obj[u] = x)
                        => (pc[u] \in {"reap", "free"} /\ obj[u] = x)'
                   /\ job[u] = x => job'[u] = x
          BY <1>2, <1>3, <1>4, <1>5, <1>23, <3>2 DEF AioFree, Free, Goto
        <4> QED BY <4>1
      <3> QED BY <3>1, <3>2
    <2> QED BY <2>1, <2>2, <2>3, <2>4, <2>5, <2>6, <2>7
  <1>24. ASSUME NEW t \in Threads, WaitRetain(t)
        PROVE  StateInv'
    BY <1>2, <1>3, <1>4, <1>5, <1>24, SMTT(30) DEF WaitRetain, Goto
  <1>25. ASSUME NEW t \in Threads, WaitFinish(t)
        PROVE  StateInv'
    BY <1>2, <1>3, <1>4, <1>5, <1>25 DEF WaitFinish, rcvars, Goto
  <1>26. CASE UNCHANGED vars
    BY <1>26 DEF vars, rcvars, aiovars
  <1> HIDE DEF StateInv
  <1> QED
    BY <1>6, <1>7, <1>8, <1>9, <1>10, <1>11, <1>12, <1>13, <1>14, <1>15,
       <1>16, <1>17, <1>18, <1>19, <1>20, <1>21, <1>22, <1>23, <1>24, <1>25,
       <1>26, QuietSteps
    DEF AioNext, FreeSteps
-----------------------------------------------------------------------------
(* Where the code takes the contents of a buffer for granted it is not the *)
(* memory malloc returned: a request that is INIT, that would be rolled    *)
(* back to INIT, that is written from, or whose read completed.            *)
DataInv ==
  /\ \A c \in Objects :
       (\/ "INIT" \in {state[c], saved[c]}
        \/ kern[c] = "done"
        \/ kern[c] # "none" /\ op[c] = "write")
         => buf[c] # "raw"
  /\ \A t \in Threads :
       /\ pc[t] = "submit" /\ (was[t] = "INIT" \/ op[obj[t]] = "write") => buf[obj[t]] # "raw"
       /\ pc[t] = "commit" => buf[obj[t]] # "raw"
       /\ pc[t] \in {"took", "made"} => buf[job[t]] # "raw"

LEMMA AioNext_Data ==
  ASSUME CloseShared = FALSE, EarlyReturn = FALSE,
         CountInv, StateInv, DataInv, [AioNext]_vars
  PROVE  DataInv'
  <1> USE RcAssumption, AioAssumption
      DEF RcAssumption, AioAssumption, RcTypeOK, AioTypeOK, States, DataInv
  <1>1. CountInv'
    BY AioNext_Count
  <1>2. /\ RcTypeOK /\ RcTypeOK'
        /\ AioTypeOK /\ AioTypeOK'
        /\ StepShape
    BY <1>1 DEF CountInv, RcInv
  <1>3. /\ \A t \in Threads : at[t] # "idle" => obj[t] \in Objects /\ mem[obj[t]] = "live"
        /\ \A h \in Handles : owner[h] # Nil => cookie[h] \in Objects
        /\ \A t \in Threads : job[t] # Nil => job[t] \in Objects /\ mem[job[t]] = "live"
    BY BusyHasObject, HolderHasObject, JobLive DEF CountInv
  <1>4. /\ \A t \in Threads : job[t] # Nil <=> pc[t] \in WaitSteps
        /\ KernelSafe /\ KernelOwnsBuffer /\ ClaimShape
    BY DEF CountInv, JobShape, StateInv
  <1> USE <1>2, <1>3, <1>4
      DEF StepShape, CallSteps, ReleaseSteps, WaitSteps, KernelSafe, KernelOwnsBuffer,
          ClaimShape, Returning
  <1>5. ASSUME NEW c \in Objects, Complete(c) \/ CompleteFails(c)
        PROVE  DataInv'
    BY <1>5, SMTT(30) DEF Complete, CompleteFails, rcvars
  <1>6. ASSUME NEW t \in Threads, NEW c \in Objects, NEW b \in {"string", "size"},
               Shared(t, c, b)
        PROVE  DataInv'
    BY <1>6 DEF Shared, Create
  <1>7. ASSUME NEW t \in Threads, NEW c \in Objects, AioRetain(t, c)
        PROVE  DataInv'
    BY <1>7 DEF AioRetain, Retain, aiovars
  <1>8. ASSUME NEW t \in Threads, NEW c \in Objects, WaitComplete(t, c)
        PROVE  DataInv'
    BY <1>8 DEF WaitComplete, rcvars, Goto
  <1>9. ASSUME NEW t \in Threads, NEW h \in Handles, AioWrap(t, h)
        PROVE  DataInv'
    BY <1>9 DEF AioWrap, Wrap, aiovars
  <1>10. ASSUME NEW t \in Threads, NEW h \in Handles, NEW o \in {"read", "write"},
                Begin(t, h, o)
        PROVE  DataInv'
    BY <1>10 DEF Begin, Enter, Goto, TryBeginRead, TryBeginWrite
  <1>11. ASSUME NEW t \in Threads, NEW h \in Handles, BeginReturn(t, h)
        PROVE  DataInv'
    BY <1>11 DEF BeginReturn, Enter, Goto
  <1>12. ASSUME NEW t \in Threads, NEW h \in Handles, BeginCancel(t, h)
        PROVE  DataInv'
    BY <1>12 DEF BeginCancel, Enter, Goto
  <1>13. ASSUME NEW t \in Threads, NEW h \in Handles, NEW b \in BOOLEAN,
                BeginSuspend(t, h, b)
        PROVE  DataInv'
    BY <1>13 DEF BeginSuspend, Enter, Goto
  <1>14. ASSUME NEW t \in Threads, NEW h \in Handles, BeginCopy(t, h)
        PROVE  DataInv'
    BY <1>14 DEF BeginCopy, Enter, Goto
  <1>15. ASSUME NEW t \in Threads, NEW h \in Handles, Query(t, h)
        PROVE  DataInv'
    BY <1>15 DEF Query, Enter, Goto
  <1>16. ASSUME NEW t \in Threads, NEW h \in Handles, AioGc(t, h)
        PROVE  DataInv'
    BY <1>16 DEF AioGc, Gc, Goto, MayCollect
  <1>17. ASSUME NEW t \in Threads, NEW h \in Handles, Close(t, h)
        PROVE  DataInv'
    BY <1>17 DEF Close, Gc, Goto, MayCollect
  <1>18. ASSUME NEW t \in Threads, AioWrapFails(t)
        PROVE  DataInv'
    BY <1>18 DEF AioWrapFails, WrapFails, Goto
  <1>19. ASSUME NEW t \in Threads, Submit(t)
        PROVE  DataInv'
    BY <1>19 DEF Submit, Leave, Goto
  <1>20. ASSUME NEW t \in Threads, SubmitFails(t)
        PROVE  DataInv'
    BY <1>20 DEF SubmitFails, Leave, Goto
  <1>21. ASSUME NEW t \in Threads, Return(t)
        PROVE  DataInv'
    BY <1>21 DEF Return, rcvars, Goto
  <1>22. ASSUME NEW t \in Threads, Commit(t)
        PROVE  DataInv'
    BY <1>22 DEF Commit, Leave, Goto
  <1>23. ASSUME NEW t \in Threads, Restore(t)
        PROVE  DataInv'
    BY <1>23 DEF Restore, Leave, Goto
  <1>24. ASSUME NEW t \in Threads, Cancel(t)
        PROVE  DataInv'
    BY <1>24 DEF Cancel, CancelOutcomes, Leave, Goto
  <1>25. ASSUME NEW t \in Threads, CancelFd(t)
        PROVE  DataInv'
    BY <1>25 DEF CancelFd, rcvars
  <1>26. ASSUME NEW t \in Threads, Suspend(t)
        PROVE  DataInv'
    BY <1>26 DEF Suspend, Leave, Goto
  <1>27. ASSUME NEW t \in Threads, EndCall(t)
        PROVE  DataInv'
    BY <1>27 DEF EndCall, Leave, Goto
  <1>28. ASSUME NEW t \in Threads, FreeCheck(t)
        PROVE  DataInv'
    BY <1>28 DEF FreeCheck, rcvars, Goto
  <1>29. ASSUME NEW t \in Threads, FreeCancel(t)
        PROVE  DataInv'
    BY <1>29 DEF FreeCancel, CancelOutcomes, rcvars, Goto
  <1>30. ASSUME NEW t \in Threads, FreeSuspend(t)
        PROVE  DataInv'
    BY <1>30 DEF FreeSuspend, rcvars, Goto
  <1>31. ASSUME NEW t \in Threads, FreeReap(t)
        PROVE  DataInv'
    BY <1>31 DEF FreeReap, rcvars, Goto
  <1>32. ASSUME NEW t \in Threads, AioFree(t)
        PROVE  DataInv'
    BY <1>32 DEF AioFree, Free, Goto
  <1>33. ASSUME NEW t \in Threads, WaitRetain(t)
        PROVE  DataInv'
    BY <1>33 DEF WaitRetain, Goto
  <1>34. ASSUME NEW t \in Threads, WaitFinish(t)
        PROVE  DataInv'
    BY <1>34 DEF WaitFinish, rcvars, Goto
  <1>35. CASE UNCHANGED vars
    BY <1>35 DEF vars, rcvars, aiovars
  <1> HIDE DEF DataInv
  <1> QED
    BY <1>5, <1>6, <1>7, <1>8, <1>9, <1>10, <1>11, <1>12, <1>13, <1>14, <1>15,
       <1>16, <1>17, <1>18, <1>19, <1>20, <1>21, <1>22, <1>23, <1>24, <1>25,
       <1>26, <1>27, <1>28, <1>29, <1>30, <1>31, <1>32, <1>33, <1>34, <1>35
    DEF AioNext, FreeSteps
-----------------------------------------------------------------------------
(* The transitions that ValidTransitions allows in one step.               *)
ValidStep ==
  \A c \in Objects :
    mem[c] = "live" /\ state'[c] # state[c] =>
      <<state[c], state'[c]>> \in
        {<<"UNINIT", "PENDING">>, <<"PENDING", "UNINIT">>,
         <<"INIT", "PENDING">>, <<"PENDING", "INIT">>,
         <<"PENDING", "RETURNING">>, <<"RETURNING", "INIT">>,
         <<"RETURNING", "UNINIT">>}

(* Only the steps that write the state word matter: a constructor works on *)
(* a request that is not live yet, and every other such step starts from   *)
(* the state that its claim vouches for.                                   *)
LEMMA AioNext_Valid ==
  ASSUME CountInv, StateInv, [AioNext]_vars
  PROVE  ValidStep
  <1>1. /\ RcTypeOK /\ AioTypeOK /\ StepShape /\ ClaimShape
        /\ \A t \in Threads : at[t] # "idle" => obj[t] \in Objects
        /\ \A t \in Threads : job[t] # Nil => job[t] \in Objects
        /\ \A t \in Threads : job[t] # Nil <=> pc[t] \in WaitSteps
        /\ \A h \in Handles : owner[h] # Nil => cookie[h] \in Objects
    BY BusyHasObject, HolderHasObject, JobLive
    DEF CountInv, RcInv, StateInv, JobShape
  <1> USE <1>1, RcAssumption
      DEF RcAssumption, RcTypeOK, AioTypeOK, StepShape, CallSteps, WaitSteps, ClaimShape,
          Returning, ValidStep
  <1>2. ASSUME NEW t \in Threads, NEW c \in Objects, NEW b \in {"string", "size"},
               Shared(t, c, b)
        PROVE  ValidStep
    BY <1>2 DEF Shared, Create
  <1>3. ASSUME NEW t \in Threads, NEW h \in Handles, NEW o \in {"read", "write"},
               Begin(t, h, o)
        PROVE  ValidStep
    BY <1>3 DEF Begin, Enter, TryBeginRead, TryBeginWrite
  <1>4. ASSUME NEW t \in Threads, SubmitFails(t) PROVE ValidStep
    BY <1>4 DEF SubmitFails
  <1>5. ASSUME NEW t \in Threads, NEW h \in Handles,
               BeginReturn(t, h) PROVE ValidStep
    BY <1>5 DEF BeginReturn, Enter, TryBeginReturn
  <1>6. ASSUME NEW t \in Threads, Commit(t) PROVE ValidStep
    BY <1>6 DEF Commit
  <1>7. ASSUME NEW t \in Threads, Restore(t) PROVE ValidStep
    BY <1>7 DEF Restore
  <1>8. ASSUME NEW t \in Threads, WaitFinish(t) PROVE ValidStep
    BY <1>8 DEF WaitFinish
  <1>9. ASSUME state' = state PROVE ValidStep
    BY <1>9
  <1> HIDE DEF ValidStep
  <1>10. ASSUME NEW t \in Threads, NEW c \in Objects,
                AioRetain(t, c) \/ WaitComplete(t, c)
         PROVE  ValidStep
    BY <1>9, <1>10 DEF AioRetain, WaitComplete, aiovars
  <1>11. ASSUME NEW t \in Threads, NEW h \in Handles,
                \/ AioWrap(t, h) \/ BeginCancel(t, h) \/ BeginCopy(t, h) \/ Query(t, h)
                \/ AioGc(t, h) \/ Close(t, h)
                \/ \E b \in BOOLEAN : BeginSuspend(t, h, b)
         PROVE  ValidStep
    BY <1>9, <1>11
    DEF AioWrap, BeginCancel, BeginCopy, Query, AioGc, Close, BeginSuspend, aiovars
  <1>12. ASSUME NEW t \in Threads,
                \/ AioWrapFails(t) \/ Submit(t) \/ Return(t) \/ Cancel(t) \/ CancelFd(t)
                \/ Suspend(t) \/ EndCall(t) \/ FreeSteps(t) \/ WaitRetain(t)
         PROVE  ValidStep
    BY <1>9, <1>12
    DEF AioWrapFails, Submit, Return, Cancel, CancelFd, Suspend, EndCall, FreeSteps,
        FreeCheck, FreeCancel, FreeSuspend, FreeReap, AioFree, WaitRetain
  <1>13. ASSUME NEW c \in Objects, Complete(c) \/ CompleteFails(c) PROVE ValidStep
    BY <1>9, <1>13 DEF Complete, CompleteFails
  <1>14. CASE UNCHANGED vars
    BY <1>9, <1>14 DEF vars, aiovars
  <1> QED
    BY <1>2, <1>3, <1>4, <1>5, <1>6, <1>7, <1>8, <1>10, <1>11, <1>12, <1>13, <1>14
    DEF AioNext
-----------------------------------------------------------------------------
(* Where __close is only called on the last reference, the counts and the  *)
(* shape of the calls are invariant, whatever else a program does.         *)
THEOREM CountInvariant ==
  ASSUME CloseShared = FALSE
  PROVE  AioSpec => []CountInv
  <1>1. CountInv /\ [AioNext]_vars => CountInv'
    BY AioNext_Count
  <1> QED BY <1>1, AioInit_Count, PTL DEF AioSpec

(* In such a program every variable keeps its type.                        *)
THEOREM AioTypes ==
  ASSUME CloseShared = FALSE
  PROVE  AioSpec => []AioTypeOK
  <1>1. CountInv => AioTypeOK
    BY DEF CountInv
  <1> QED BY <1>1, CountInvariant, PTL

(* In such a program requests obey the protocol of RcObject, so what is    *)
(* proved of counted objects holds of them (l_aiocb_retain, l_aiocb_free,  *)
(* and waitcomplete, which retains without a userdata to vouch for it).    *)
THEOREM RequestsCounted ==
  ASSUME CloseShared = FALSE
  PROVE  AioSpec => RequestsAreRcObjects
  <1>1. AioInit => RcInit
    BY DEF AioInit
  <1>2. CountInv /\ [AioNext]_vars => [RcNext]_rcvars
    BY RcStep
  <1> QED BY <1>1, <1>2, CountInvariant, PTL DEF AioSpec, RequestsAreRcObjects

(* In such a program nobody works on a freed request: no method, and no    *)
(* waitcomplete between aio_waitcomplete(2) and its last store.            *)
THEOREM RequestsStayLive ==
  ASSUME CloseShared = FALSE
  PROVE  AioSpec => []RequestsLive
  <1>1. CountInv => RequestsLive
    BY JobLive DEF CountInv, RcInv, RequestsLive
  <1> QED BY <1>1, CountInvariant, PTL

(* Where moreover _return is only called on a request that has completed,  *)
(* the state word tells who may touch a request.                           *)
THEOREM StateInvariant ==
  ASSUME CloseShared = FALSE, EarlyReturn = FALSE
  PROVE  AioSpec => [](CountInv /\ StateInv)
  <1>1. CountInv /\ StateInv /\ [AioNext]_vars => (CountInv /\ StateInv)'
    BY AioNext_Count, AioNext_State
  <1> QED BY <1>1, AioInit_Count, AioInit_State, PTL DEF AioSpec

(* The kernel never has a job for memory that was freed (l_aiocb_free).    *)
THEOREM KernelNeverInFreed ==
  ASSUME CloseShared = FALSE, EarlyReturn = FALSE
  PROVE  AioSpec => []KernelSafe
  <1>1. CountInv /\ StateInv => KernelSafe
    BY DEF StateInv
  <1> QED BY <1>1, StateInvariant, PTL

(* What the kernel works on is PENDING, so nobody resubmits or reads it.   *)
THEOREM KernelIsAlone ==
  ASSUME CloseShared = FALSE, EarlyReturn = FALSE
  PROVE  AioSpec => []KernelOwnsBuffer
  <1>1. CountInv /\ StateInv => KernelOwnsBuffer
    BY DEF StateInv
  <1> QED BY <1>1, StateInvariant, PTL

(* One thread at a time gets through to aio_return(2) on a request.        *)
THEOREM SingleReturner ==
  ASSUME CloseShared = FALSE, EarlyReturn = FALSE
  PROVE  AioSpec => []OneReturner
  <1>1. CountInv /\ StateInv => OneReturner
    BY DEF StateInv
  <1> QED BY <1>1, StateInvariant, PTL

(* A PENDING request is the kernel's, in a thread's hands, or lost to a    *)
(* memory error; no interleaving leaves one behind.                        *)
THEOREM NothingStuck ==
  ASSUME CloseShared = FALSE, EarlyReturn = FALSE
  PROVE  AioSpec => []PendingHasOwner
  <1>1. CountInv /\ StateInv => PendingHasOwner
    BY DEF StateInv
  <1> QED BY <1>1, StateInvariant, PTL

(* The state word moves along the table at the top of lua_aio.c only.      *)
THEOREM TransitionsValid ==
  ASSUME CloseShared = FALSE, EarlyReturn = FALSE
  PROVE  AioSpec => ValidTransitions
  <1>1. CountInv /\ StateInv /\ [AioNext]_vars => [ValidStep]_vars
    BY AioNext_Valid
  <1>2. [][ValidStep]_vars => ValidTransitions
    BY DEF ValidStep, ValidTransitions
  <1> QED BY <1>1, <1>2, StateInvariant, PTL DEF AioSpec

(* A buffer that Lua may read was given its contents or was the target of  *)
(* a read that completed, however many failed, canceled or rolled back     *)
(* requests came before (l_aiocb_buf, rcaiocb_commit, rcaiocb_rollback).   *)
THEOREM BuffersFilled ==
  ASSUME CloseShared = FALSE, EarlyReturn = FALSE
  PROVE  AioSpec => []InitWasFilled
  <1>1. AioInit => DataInv
    BY DEF AioInit, DataInv
  <1>2. CountInv /\ StateInv /\ DataInv /\ [AioNext]_vars => DataInv'
    BY AioNext_Data
  <1>3. DataInv => InitWasFilled
    BY DEF DataInv, InitWasFilled
  <1> QED BY <1>1, <1>2, <1>3, StateInvariant, PTL DEF AioSpec
=============================================================================
