------------------------------- MODULE Listio -------------------------------
(* aio.listio of aio/lua_aio.c: one thread claims the requests of a list, one *)
(* by one, and submits them together, while other threads submit and fetch    *)
(* the same requests one at a time.  The life of a single request is in Aio.  *)
EXTENDS Naturals, Sequences, FiniteSets

CONSTANTS Requests,     \* requests that are shared between the threads
          NoRequest,    \* an element of the list that is no request
          MaxEntries    \* bound on the length of a list

ASSUME ListioAssumption == NoRequest \notin Requests /\ MaxEntries \in Nat

VARIABLES lop,       \* lop[c]: aio_lio_opcode
          lstate,    \* lstate[c]: the atomic state word
          lbase,     \* lbase[c]: aio_state
          filled,    \* requests whose buffer was given contents, or written by
                     \* the kernel (how much of it, in a short read, is in Aio)
          lkern,     \* lkern[c]: the kernel's job for c
          entries,   \* the list given to the call in progress
          slots,     \* cbs and states: the requests claimed, with their states
          lpc,       \* idle, claim
          hurt       \* requests that a list call gave a state they are not in

lioVars == <<lop, lstate, lbase, filled, lkern, entries, slots, lpc, hurt>>

Lists == UNION {[1..n -> Requests \cup {NoRequest}] : n \in 1..MaxEntries}

ListioInit ==
    /\ lop \in [Requests -> {"read", "write"}]
    /\ lstate \in [Requests -> {"UNINIT", "INIT"}] /\ lbase = lstate
    /\ filled = {c \in Requests : lstate[c] = "INIT"}
    /\ lkern = [c \in Requests |-> "none"]
    /\ entries = <<>> /\ slots = <<>> /\ lpc = "idle" /\ hurt = {}

\* rcaiocb_trybeginread and rcaiocb_trybeginwrite
Claimable(c) == lstate[c] = "INIT" \/ (lop[c] = "read" /\ lstate[c] = "UNINIT")

\* l_lio_listio up to its loop, for any list: with requests that are in use,
\* repeated or none at all.  (The function asks for a table as its third
\* argument, where the manual has an optional sigevent: called with two
\* arguments it raises an error before it does anything.)
ListBegin(es) ==
    /\ lpc = "idle" /\ lpc' = "claim" /\ entries' = es /\ slots' = <<>>
    /\ UNCHANGED <<lop, lstate, lbase, filled, lkern, hurt>>

NextEntry == entries[Len(slots) + 1]
Claiming == lpc = "claim" /\ Len(slots) < Len(entries)

\* Mutant: the last one is forgotten
RollbackShort(n) ==
    [c \in Requests |-> IF \E i \in 1..n : i # n /\ slots[i].c = c
                        THEN slots[CHOOSE i \in 1..n : slots[i].c = c].was ELSE lstate[c]]

\* rollback_states: the first n slots get their states back.
RollbackStates(n) ==
    [c \in Requests |-> IF \E i \in 1..n : slots[i].c = c
                        THEN slots[CHOOSE i \in 1..n : slots[i].c = c].was ELSE lstate[c]]

\* One round of the loop: the next request is claimed.
ListClaim ==
    /\ Claiming /\ NextEntry # NoRequest /\ Claimable(NextEntry)
    /\ slots' = Append(slots, [c |-> NextEntry, was |-> lstate[NextEntry]])
    /\ lstate' = [lstate EXCEPT ![NextEntry] = "PENDING"]
    /\ UNCHANGED <<lop, lbase, filled, lkern, entries, lpc, hurt>>

\* "invalid aiocb"
ListInvalid ==
    /\ Claiming /\ NextEntry = NoRequest
    /\ lstate' = RollbackStates(Len(slots))
    /\ lpc' = "idle" /\ entries' = <<>> /\ slots' = <<>>
    /\ UNCHANGED <<lop, lbase, filled, lkern, hurt>>

\* "buffer not initialized": the slot of the refused request is rolled back as
\* well.  Its state is the one that was found; its pointer was never stored, so
\* it is what that memory held before, the address of any request included.
ListRefused ==
    /\ Claiming /\ NextEntry # NoRequest /\ ~Claimable(NextEntry)
    /\ \E stray \in SUBSET Requests :
          /\ Cardinality(stray) <= 1
          /\ lstate' = [c \in Requests |-> IF c \in stray THEN lstate[NextEntry]
                                           ELSE RollbackStates(Len(slots))[c]]
          /\ hurt' = hurt \cup stray
    /\ lpc' = "idle" /\ entries' = <<>> /\ slots' = <<>>
    /\ UNCHANGED <<lop, lbase, filled, lkern>>

Queued(cs) == [c \in Requests |-> IF c \in cs THEN "active" ELSE lkern[c]]
Claimed == {slots[i].c : i \in DOMAIN slots}

\* lio_listio(2) queues every request, and the binding returns.
ListSubmit ==
    /\ lpc = "claim" /\ Len(slots) = Len(entries)
    /\ lkern' = Queued(Claimed)
    /\ lpc' = "idle" /\ entries' = <<>> /\ slots' = <<>>
    /\ UNCHANGED <<lop, lstate, lbase, filled, hurt>>

\* It fails, having queued none of them, some (EAGAIN) or all (LIO_WAIT that a
\* signal interrupts, or EIO for one of them); all are rolled back.
ListSubmitFails ==
    /\ lpc = "claim" /\ Len(slots) = Len(entries)
    /\ \E cs \in SUBSET Claimed : lkern' = Queued(cs) /\ hurt' = hurt \cup cs
    /\ lstate' = RollbackStates(Len(slots))
    /\ lpc' = "idle" /\ entries' = <<>> /\ slots' = <<>>
    /\ UNCHANGED <<lop, lbase, filled>>

\* Another thread submits a request by itself; the kernel completes one; a
\* thread fetches the outcome with _return (these are steps of Aio).
SubmitOne(c) ==
    /\ Claimable(c)
    /\ lstate' = [lstate EXCEPT ![c] = "PENDING"]
    /\ lkern' = Queued({c})
    /\ UNCHANGED <<lop, lbase, filled, entries, slots, lpc, hurt>>

CompleteOne(c) ==
    /\ lkern[c] = "active"
    /\ \/ /\ lkern' = [lkern EXCEPT ![c] = "done"]
          /\ filled' = IF lop[c] = "read" THEN filled \cup {c} ELSE filled
       \/ lkern' = [lkern EXCEPT ![c] = "failed"] /\ UNCHANGED filled
    /\ UNCHANGED <<lop, lstate, lbase, entries, slots, lpc, hurt>>

ReturnOne(c) ==
    /\ lstate[c] = "PENDING" /\ lkern[c] \in {"done", "failed"}
    /\ lbase' = IF lkern[c] = "done" THEN [lbase EXCEPT ![c] = "INIT"] ELSE lbase
    /\ lstate' = [lstate EXCEPT ![c] = lbase'[c]]
    /\ lkern' = [lkern EXCEPT ![c] = "none"]
    /\ UNCHANGED <<lop, filled, entries, slots, lpc, hurt>>

ListioNext ==
    \/ \E es \in Lists : ListBegin(es)
    \/ ListClaim \/ ListInvalid \/ ListRefused \/ ListSubmit \/ ListSubmitFails
    \/ \E c \in Requests : SubmitOne(c) \/ CompleteOne(c) \/ ReturnOne(c)

ListioSpec == ListioInit /\ [][ListioNext]_lioVars

-----------------------------------------------------------------------------
\* Two error paths of a list call give a request a state it is not in: the
\* rollback of the slot that has no pointer yet (lua_aio.c:753), and the rollback
\* of requests that lio_listio(2) queued before it failed (:762).  Nothing else
\* does, whatever the list holds and whatever other threads do meanwhile: the
\* kernel's requests are PENDING, one that is PENDING is the kernel's or in the
\* slots of a call that will submit it or roll it back, so that "invalid aiocb",
\* a refused claim and a failed submission lose none, and one that is INIT was
\* given contents, or has a completed read behind it.
ListStatesTrue ==
    \A c \in Requests \ hurt :
        /\ lkern[c] # "none" => lstate[c] = "PENDING"
        /\ lstate[c] = "PENDING" => lkern[c] # "none" \/ c \in Claimed
        /\ lstate[c] = "INIT" => c \in filled
=============================================================================
