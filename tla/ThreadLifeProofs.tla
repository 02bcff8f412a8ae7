-------------------------- MODULE ThreadLifeProofs --------------------------
(***************************************************************************)
(* For any number of threads and cleanup handlers: what ThreadLife says    *)
(* about the Lua states of threads that return, are cancelled, joined or   *)
(* detached.                                                               *)
(***************************************************************************)
EXTENDS ThreadLife, TLAPS

(* A join knows its thread, and so does the copy of its results.           *)
CallsHaveTarget ==
  \A t \in Threads : pc[t] # "idle" => target[t] \in Threads

(* Only a program that is not careful runs on in a closed state or peeks.  *)
NothingWild == \A t \in Threads : os[t] # "wild" /\ pc[t] # "peek"

(* A state exists from pthread.create on, and it is open as long as its    *)
(* thread can run.                                                         *)
RunningIsOpen ==
  \A t \in Threads :
    /\ os[t] = "none" => lua[t] = "none"
    /\ os[t] \in {"running", "cleanup"} => lua[t] = "open"

(* Without pthread.exit only cancellation runs the cleanup, so a thread    *)
(* that left a result behind left its state open.                          *)
ResultIsOpen ==
  \A t \in Threads :
    /\ os[t] = "cleanup" => result[t] = "canceled"
    /\ os[t] = "zombie" /\ result[t] # "canceled" => lua[t] = "open"

(* The thread whose results are copied is gone for every other caller, and *)
(* nobody else copies them.                                                *)
CopyIsAlone ==
  /\ \A t \in Threads :
       pc[t] = "copy" => os[target[t]] = "reaped" /\ lua[target[t]] = "open"
  /\ \A t, u \in Threads :
       pc[t] = "copy" /\ pc[u] = "copy" /\ target[t] = target[u] => t = u

(* A state that is not closed has not been closed.                         *)
ClosesCounted ==
  \A t \in Threads : closes[t] = IF lua[t] = "closed" THEN 1 ELSE 0

LifeInv ==
  /\ LifeTypeOK
  /\ CallsHaveTarget
  /\ CanceledIsClosed
  /\ careful => /\ NothingWild
                /\ RunningIsOpen
                /\ ResultIsOpen
                /\ CopyIsAlone
                /\ ClosesCounted
-----------------------------------------------------------------------------
(* Popping the last cleanup handler leaves a stack of handlers.            *)
LEMMA FrontType ==
  ASSUME NEW S, NEW s \in Seq(S), s # <<>>
  PROVE  Front(s) \in Seq(S)
  BY DEF Front

LEMMA LifeInit_Inv == LifeInit => LifeInv
  BY LifeAssumption
  DEF LifeAssumption, LifeInit, LifeInv, LifeTypeOK, CallsHaveTarget,
      CanceledIsClosed, NothingWild, RunningIsOpen, ResultIsOpen,
      CopyIsAlone, ClosesCounted

LEMMA LifeNext_Inv == LifeInv /\ [LifeNext]_lifevars => LifeInv'
  <1> SUFFICES ASSUME LifeInv, [LifeNext]_lifevars PROVE LifeInv'
    OBVIOUS
  <1> USE LifeAssumption
      DEF LifeAssumption, LifeInv, LifeTypeOK, CallsHaveTarget,
          CanceledIsClosed, NothingWild, RunningIsOpen, ResultIsOpen,
          CopyIsAlone, ClosesCounted
  <1>1. ASSUME NEW t \in Threads, NEW c \in Threads, NEW d \in BOOLEAN,
               Create(t, c, d)
        PROVE  LifeInv'
    BY <1>1 DEF Create, Free
  <1>2. ASSUME NEW t \in Threads, CreateNoMem(t) PROVE LifeInv'
    BY <1>2 DEF CreateNoMem, Free, CloseState
  <1>3. ASSUME NEW t \in Threads, CleanupPush(t) PROVE LifeInv'
    <2>1. LifeTypeOK'
      BY <1>3 DEF CleanupPush, Free
    <2>2. CallsHaveTarget' /\ CanceledIsClosed'
      BY <1>3 DEF CleanupPush, Free
    <2>3. careful' => NothingWild' /\ RunningIsOpen' /\ ResultIsOpen' /\ CopyIsAlone' /\ ClosesCounted'
      BY <1>3 DEF CleanupPush
    <2> HIDE DEF LifeTypeOK, CallsHaveTarget, CanceledIsClosed, NothingWild, RunningIsOpen,
                 ResultIsOpen, CopyIsAlone, ClosesCounted
    <2> QED BY <2>1, <2>2, <2>3
  <1>4. ASSUME NEW t \in Threads, CleanupPop(t) PROVE LifeInv'
    <2>1. Front(handlers[t]) \in Seq(1..MaxPush)
      BY <1>4, FrontType DEF CleanupPop
    <2> QED BY <1>4, <2>1 DEF CleanupPop, Free
  <1>5. ASSUME NEW t \in Threads, Return(t) PROVE LifeInv'
    BY <1>5 DEF Return, Free, Terminated
  <1>6. ASSUME NEW t \in Threads, Exit(t) PROVE LifeInv'
    BY <1>6 DEF Exit, Free
  <1>7. ASSUME NEW t \in Threads, NEW c \in Threads, Cancel(t, c)
        PROVE  LifeInv'
    BY <1>7 DEF Cancel, Free
  <1>8. ASSUME NEW t \in Threads, Canceled(t) PROVE LifeInv'
    BY <1>8 DEF Canceled
  <1>9. ASSUME NEW t \in Threads, CleanupStep(t) PROVE LifeInv'
    BY <1>9 DEF CleanupStep
  <1>10. ASSUME NEW t \in Threads, CleanupClose(t) PROVE LifeInv'
    BY <1>10 DEF CleanupClose, CloseState, Terminated
  <1>11. ASSUME NEW t \in Threads, NEW c \in Threads, NEW b \in BOOLEAN,
                JoinBegin(t, c, b)
         PROVE  LifeInv'
    BY <1>11 DEF JoinBegin, Free
  <1>12. ASSUME NEW t \in Threads, JoinGet(t) PROVE LifeInv'
    <2> DEFINE c == target[t]
    <2>1. c \in Threads /\ os[c] = "zombie"
      BY <1>12 DEF JoinGet
    <2>2. CASE result[c] = "canceled"
      <3>1. /\ os' = [os EXCEPT ![c] = "reaped"]
            /\ pc' = [pc EXCEPT ![t] = "idle"]
            /\ target' = [target EXCEPT ![t] = Nil]
            /\ UNCHANGED <<lua, closes, result, detached, asked, handlers,
                           pushed, careful>>
        BY <1>12, <2>2 DEF JoinGet
      <3>2. \A u \in Threads :
              pc'[u] = "copy" => pc[u] = "copy" /\ target'[u] = target[u]
        BY <3>1
      <3>3. \A u \in Threads : os[u] = "reaped" => os'[u] = "reaped"
        BY <2>1, <3>1
      <3>4. careful => CopyIsAlone'
        <4>1. careful => CopyIsAlone
          OBVIOUS
        <4>2. lua' = lua /\ \A u \in Threads : pc[u] = "copy" => target[u] \in Threads
          BY <3>1
        <4> HIDE DEF LifeInv, LifeTypeOK, CallsHaveTarget, CanceledIsClosed, NothingWild,
                     RunningIsOpen, ResultIsOpen, ClosesCounted
        <4> QED BY <3>2, <3>3, <4>1, <4>2
      <3>5. LifeTypeOK' /\ CallsHaveTarget' /\ CanceledIsClosed'
        BY <2>1, <2>2, <3>1
      <3>6. careful' => NothingWild' /\ RunningIsOpen' /\ ResultIsOpen' /\ ClosesCounted'
        BY <2>1, <2>2, <3>1
      <3> HIDE DEF LifeTypeOK, CallsHaveTarget, CanceledIsClosed, NothingWild, RunningIsOpen,
                   ResultIsOpen, CopyIsAlone, ClosesCounted
      <3> QED BY <3>1, <3>4, <3>5, <3>6
    <2>3. CASE result[c] # "canceled"
      <3>1. /\ os' = [os EXCEPT ![c] = "reaped"]
            /\ pc' = [pc EXCEPT ![t] = "copy"]
            /\ UNCHANGED <<target, lua, closes, result, detached, asked,
                           handlers, pushed, careful>>
        BY <1>12, <2>3 DEF JoinGet
      <3>2. careful => lua[c] = "open"
        BY <2>1, <2>3
      <3>3. careful => \A u \in Threads : pc[u] = "copy" => target[u] # c
        BY <2>1
      <3>4. careful => CopyIsAlone'
        <4>1. /\ target' = target /\ lua' = lua /\ pc'[t] = "copy" /\ os'[c] = "reaped"
              /\ \A u \in Threads : os[u] = "reaped" => os'[u] = "reaped"
              /\ \A u \in Threads : u # t => pc'[u] = pc[u]
              /\ \A u \in Threads : pc[u] = "copy" => target[u] \in Threads
          BY <2>1, <3>1
        <4>2. careful => CopyIsAlone
          OBVIOUS
        <4> HIDE DEF LifeInv, LifeTypeOK, CallsHaveTarget, CanceledIsClosed, NothingWild,
                     RunningIsOpen, ResultIsOpen, ClosesCounted
        <4> QED BY <3>2, <3>3, <4>1, <4>2
      <3>5. LifeTypeOK' /\ CallsHaveTarget' /\ CanceledIsClosed'
        BY <2>1, <2>3, <3>1
      <3>6. careful' => NothingWild' /\ RunningIsOpen' /\ ResultIsOpen' /\ ClosesCounted'
        BY <2>1, <2>3, <3>1
      <3> HIDE DEF LifeTypeOK, CallsHaveTarget, CanceledIsClosed, NothingWild, RunningIsOpen,
                   ResultIsOpen, CopyIsAlone, ClosesCounted
      <3> QED BY <3>1, <3>4, <3>5, <3>6
    <2> QED BY <2>2, <2>3
  <1>13. ASSUME NEW t \in Threads, JoinTimeout(t) PROVE LifeInv'
    BY <1>13 DEF JoinTimeout
  <1>14. ASSUME NEW t \in Threads, JoinClose(t) PROVE LifeInv'
    <2>1. LifeTypeOK' /\ CallsHaveTarget' /\ CanceledIsClosed'
      <3>1. LifeTypeOK'
        BY <1>14 DEF JoinClose, CloseState
      <3>2. CallsHaveTarget'
        BY <1>14 DEF JoinClose
      <3>3. CanceledIsClosed'
        BY <1>14 DEF JoinClose, CloseState
      <3> HIDE DEF LifeTypeOK, CallsHaveTarget, CanceledIsClosed
      <3> QED BY <3>1, <3>2, <3>3
    <2>2. careful' => NothingWild' /\ RunningIsOpen' /\ ResultIsOpen'
      BY <1>14 DEF JoinClose, CloseState
    <2>3. careful' => CopyIsAlone'
      <3>1. /\ pc[t] = "copy" /\ pc'[t] = "idle" /\ UNCHANGED <<os, careful>>
            /\ \A u \in Threads : u # t => pc'[u] = pc[u] /\ target'[u] = target[u]
            /\ \A v \in Threads : v # target[t] => lua'[v] = lua[v]
            /\ \A u \in Threads : pc[u] = "copy" => target[u] \in Threads
        BY <1>14 DEF JoinClose, CloseState
      <3>2. careful => CopyIsAlone
        OBVIOUS
      <3> HIDE DEF LifeInv, LifeTypeOK, CallsHaveTarget, CanceledIsClosed, NothingWild,
                   RunningIsOpen, ResultIsOpen, ClosesCounted
      <3> QED BY <3>1, <3>2
    <2>4. careful' => ClosesCounted'
      BY <1>14 DEF JoinClose, CloseState
    <2> HIDE DEF LifeTypeOK, CallsHaveTarget, CanceledIsClosed, NothingWild, RunningIsOpen,
                 ResultIsOpen, CopyIsAlone, ClosesCounted
    <2> QED BY <2>1, <2>2, <2>3, <2>4
  <1>15. ASSUME NEW t \in Threads, NEW c \in Threads, Peek(t, c)
         PROVE  LifeInv'
    BY <1>15 DEF Peek, Free
  <1>16. ASSUME NEW t \in Threads, PeekDone(t) PROVE LifeInv'
    BY <1>16 DEF PeekDone
  <1>17. ASSUME NEW t \in Threads, NEW c \in Threads, Detach(t, c)
         PROVE  LifeInv'
    <2>1. LifeTypeOK' /\ CallsHaveTarget' /\ CanceledIsClosed'
      BY <1>17 DEF Detach, Free, Joinable
    <2>2. careful' => NothingWild' /\ RunningIsOpen' /\ ResultIsOpen'
      BY <1>17 DEF Detach, Free, Joinable
    <2>3. careful' => CopyIsAlone'
      <3>1. /\ \A u \in Threads : os[u] = "reaped" => os'[u] = "reaped"
            /\ UNCHANGED <<lua, pc, target, careful>>
            /\ \A u \in Threads : pc[u] = "copy" => target[u] \in Threads
        BY <1>17 DEF Detach
      <3>2. careful => CopyIsAlone
        OBVIOUS
      <3> HIDE DEF LifeInv, LifeTypeOK, CallsHaveTarget, CanceledIsClosed, NothingWild,
                   RunningIsOpen, ResultIsOpen, ClosesCounted
      <3> QED BY <3>1, <3>2
    <2>4. careful' => ClosesCounted'
      BY <1>17 DEF Detach, Free, Joinable
    <2> HIDE DEF LifeTypeOK, CallsHaveTarget, CanceledIsClosed, NothingWild, RunningIsOpen,
                 ResultIsOpen, CopyIsAlone, ClosesCounted
    <2> QED BY <2>1, <2>2, <2>3, <2>4
  <1>18. CASE UNCHANGED lifevars
    BY <1>18 DEF lifevars
  <1> HIDE DEF LifeInv
  <1> QED
    BY <1>1, <1>2, <1>3, <1>4, <1>5, <1>6, <1>7, <1>8, <1>9, <1>10, <1>11,
       <1>12, <1>13, <1>14, <1>15, <1>16, <1>17, <1>18 DEF LifeNext

(* LifeInv is an invariant of the threads of any program.                  *)
THEOREM LifeInvariant == LifeSpec => []LifeInv
  BY LifeInit_Inv, LifeNext_Inv, PTL DEF LifeSpec

(* Types: in particular a cleanup stack never holds anything but handlers  *)
(* that were pushed.                                                       *)
THEOREM LifeTypes == LifeSpec => []LifeTypeOK
  <1>1. LifeInv => LifeTypeOK
    BY DEF LifeInv
  <1> QED BY <1>1, LifeInvariant, PTL

(* Without pthread.exit, peekjoin_np and failing allocations, threads run  *)
(* in open states and join reads from open states (thread_join and         *)
(* thread_cleanup agree on who closes).                                    *)
THEOREM OpenStates == LifeSpec => []CarefulUsesOpenState
  <1>1. LifeInv => CarefulUsesOpenState
    BY DEF LifeInv, CarefulUsesOpenState, ReadsOpenState, RunsOpenState,
           NothingWild, RunningIsOpen, CopyIsAlone
  <1> QED BY <1>1, LifeInvariant, PTL

(* In such a program lua_close is called at most once on each state.       *)
THEOREM NoDoubleClose == LifeSpec => []ClosedOnce
  <1>1. LifeInv => ClosedOnce
    BY DEF LifeInv, ClosedOnce, ClosesCounted
  <1> QED BY <1>1, LifeInvariant, PTL

(* In every program, careful or not, a cancelled thread that has ended has *)
(* run its cleanup handlers and closed its state (thread_cleanup).         *)
THEOREM CancelCloses == LifeSpec => []CanceledIsClosed
  <1>1. LifeInv => CanceledIsClosed
    BY DEF LifeInv
  <1> QED BY <1>1, LifeInvariant, PTL
-----------------------------------------------------------------------------
(* What EndedIsClosed rests on: the state of a joined thread is closed, or *)
(* the caller of join is copying from it and closes it next; a cancelled   *)
(* thread is in its cleanup or has ended.                                  *)
Copied(t) == \E u \in Threads : pc[u] = "copy" /\ target[u] = t

EndedAttended ==
  \A t \in Threads :
    /\ os[t] = "reaped" /\ ~detached[t] => lua[t] = "closed" \/ Copied(t)
    /\ result[t] = "canceled" => os[t] \in {"cleanup", "zombie", "reaped"}

(* Whoever is not copying may go elsewhere.                                *)
LEMMA StillCopied ==
  ASSUME NEW t \in Threads, pc[t] # "copy", UNCHANGED <<os, lua, result, detached>>,
         \A u \in Threads : u # t => pc'[u] = pc[u] /\ target'[u] = target[u],
         EndedAttended
  PROVE  EndedAttended'
  <1>1. ASSUME NEW v \in Threads, Copied(v) PROVE Copied(v)'
    <2>1. PICK u \in Threads : pc[u] = "copy" /\ target[u] = v
      BY <1>1 DEF Copied
    <2>2. pc'[u] = "copy" /\ target'[u] = v
      BY <2>1
    <2> QED BY <2>2 DEF Copied
  <1> QED BY <1>1 DEF EndedAttended

LEMMA EndedAttendedNext ==
  ASSUME LifeInv, EndedAttended, [LifeNext]_lifevars
  PROVE  EndedAttended'
  <1> USE LifeAssumption
      DEF LifeAssumption, LifeInv, LifeTypeOK, CallsHaveTarget, CanceledIsClosed, EndedAttended,
          Copied
  <1>1. ASSUME NEW t \in Threads, NEW c \in Threads, NEW d \in BOOLEAN,
               Create(t, c, d) \/ JoinBegin(t, c, d)
        PROVE  EndedAttended'
    <2>1. CASE Create(t, c, d)
      BY <2>1 DEF Create, Free
    <2>2. CASE JoinBegin(t, c, d)
      <3>1. /\ pc[t] # "copy" /\ UNCHANGED <<os, lua, result, detached>>
            /\ \A u \in Threads : u # t => pc'[u] = pc[u] /\ target'[u] = target[u]
        BY <2>2 DEF JoinBegin, Free
      <3> HIDE DEF EndedAttended
      <3> QED BY <3>1, StillCopied
    <2> QED BY <1>1, <2>1, <2>2
  <1>2. ASSUME NEW t \in Threads, NEW c \in Threads, Cancel(t, c) \/ Peek(t, c)
        PROVE  EndedAttended'
    <2>1. /\ pc[t] # "copy" /\ UNCHANGED <<os, lua, result, detached>>
          /\ \A u \in Threads : u # t => pc'[u] = pc[u] /\ target'[u] = target[u]
      BY <1>2 DEF Cancel, Peek, Free
    <2> HIDE DEF EndedAttended
    <2> QED BY <2>1, StillCopied
  <1>3. ASSUME NEW t \in Threads, NEW c \in Threads, Detach(t, c)
        PROVE  EndedAttended'
    BY <1>3 DEF Detach, Free, Joinable
  <1>4. ASSUME NEW t \in Threads, CreateNoMem(t) PROVE EndedAttended'
    BY <1>4 DEF CreateNoMem, Free, CloseState
  <1>5. ASSUME NEW t \in Threads, CleanupPush(t) \/ CleanupPop(t) \/ CleanupStep(t)
        PROVE  EndedAttended'
    BY <1>5 DEF CleanupPush, CleanupPop, CleanupStep
  <1>6. ASSUME NEW t \in Threads, Return(t) \/ Exit(t) PROVE EndedAttended'
    <2>1. /\ os[t] = "running" /\ result' = [result EXCEPT ![t] = "state"]
          /\ os' \in {[os EXCEPT ![t] = "cleanup"], [os EXCEPT ![t] = Terminated(t)]}
          /\ UNCHANGED <<lua, detached, pc, target>>
      BY <1>6 DEF Return, Exit, Free
    <2>2. \A u \in Threads : u # t => os'[u] = os[u] /\ result'[u] = result[u]
      BY <2>1
    <2>3. os'[t] = "reaped" => detached[t]
      BY <2>1 DEF Terminated
    <2>4. result'[t] # "canceled"
      BY <2>1
    <2> QED BY <2>1, <2>2, <2>3, <2>4
  <1>7. ASSUME NEW t \in Threads, Canceled(t) PROVE EndedAttended'
    BY <1>7 DEF Canceled
  <1>8. ASSUME NEW t \in Threads, CleanupClose(t) PROVE EndedAttended'
    BY <1>8 DEF CleanupClose, CloseState, Terminated
  <1>9. ASSUME NEW t \in Threads, JoinGet(t) PROVE EndedAttended'
    <2>0. PICK c \in Threads : c = target[t]
      BY <1>9 DEF JoinGet
    <2>1. /\ os[c] = "zombie" /\ pc[t] # "copy"
          /\ os' = [os EXCEPT ![c] = "reaped"]
          /\ UNCHANGED <<lua, result, detached>>
          /\ result[c] # "canceled" => pc'[t] = "copy" /\ target'[t] = c
          /\ \A u \in Threads : u # t => pc'[u] = pc[u] /\ target'[u] = target[u]
      BY <1>9, <2>0 DEF JoinGet
    <2>2. lua[c] = "closed" \/ Copied(c)'
      <3>1. result[c] = "canceled" => lua[c] = "closed"
        BY <2>1
      <3> HIDE DEF LifeInv, LifeTypeOK, CallsHaveTarget, CanceledIsClosed, EndedAttended
      <3> QED BY <2>1, <3>1
    <2>3. ASSUME NEW v \in Threads, Copied(v) PROVE Copied(v)'
      <3> HIDE DEF LifeInv, LifeTypeOK, CallsHaveTarget, CanceledIsClosed, EndedAttended
      <3>1. PICK u \in Threads : pc[u] = "copy" /\ target[u] = v
        BY <2>3
      <3>2. pc'[u] = "copy" /\ target'[u] = v
        BY <2>1, <3>1
      <3> QED BY <3>2
    <2>4. /\ \A v \in Threads : v # c => os'[v] = os[v]
          /\ os'[c] = "reaped"
      BY <2>1
    <2> HIDE DEF Copied, LifeInv, LifeTypeOK, CallsHaveTarget, CanceledIsClosed
    <2> QED BY <2>1, <2>2, <2>3, <2>4
  <1>10. ASSUME NEW t \in Threads, JoinTimeout(t) \/ PeekDone(t) PROVE EndedAttended'
    <2>1. /\ pc[t] # "copy" /\ UNCHANGED <<os, lua, result, detached>>
          /\ \A u \in Threads : u # t => pc'[u] = pc[u] /\ target'[u] = target[u]
      BY <1>10 DEF JoinTimeout, PeekDone
    <2> HIDE DEF EndedAttended
    <2> QED BY <2>1, StillCopied
  <1>11. ASSUME NEW t \in Threads, JoinClose(t) PROVE EndedAttended'
    BY <1>11 DEF JoinClose, CloseState
  <1>12. CASE UNCHANGED lifevars
    BY <1>12 DEF lifevars
  <1> HIDE DEF EndedAttended, LifeInv
  <1> QED
    BY <1>1, <1>2, <1>3, <1>4, <1>5, <1>6, <1>7, <1>8, <1>9, <1>10, <1>11, <1>12 DEF LifeNext

(* thread_join, thread_cleanup: in every program, with pthread.exit and    *)
(* peekjoin_np too, no joined thread leaves an open state that nobody is   *)
(* about to close, and no cancelled thread runs on.                        *)
THEOREM NoStateForgotten == LifeSpec => []EndedAttended
  <1>1. LifeInit => EndedAttended
    BY LifeAssumption, ResultAssumption DEF LifeAssumption, LifeInit, EndedAttended
  <1>2. LifeInv /\ EndedAttended /\ [LifeNext]_lifevars => EndedAttended'
    BY EndedAttendedNext
  <1> QED BY <1>1, <1>2, LifeInvariant, PTL DEF LifeSpec
=============================================================================
