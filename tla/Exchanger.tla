----------------------------- MODULE Exchanger -----------------------------
(***************************************************************************)
(* What pthread.rendezvous promises (pthread.3lua): a call blocks until it *)
(* is matched with a call from another thread, and each of the two returns *)
(* the arguments of the other.  When an argument of either cannot be       *)
(* copied between Lua states, an error is raised in both.                  *)
(***************************************************************************)
CONSTANTS Threads, Offers, CopyableOffers, None, Error

VARIABLES
  phase,   \* phase[t]: "out", "asking", or "answered"
  offer,   \* offer[t]: the arguments of t's call
  answer   \* answer[t]: what the call will return, None before

vars == <<phase, offer, answer>>

Init ==
  /\ phase = [t \in Threads |-> "out"]
  /\ offer = [t \in Threads |-> None]
  /\ answer = [t \in Threads |-> None]

Ask(t) ==
  /\ phase[t] = "out"
  /\ phase' = [phase EXCEPT ![t] = "asking"]
  /\ \E a \in Offers : offer' = [offer EXCEPT ![t] = a]
  /\ UNCHANGED answer

Meet(t, u) ==
  /\ t # u
  /\ phase[t] = "asking" /\ phase[u] = "asking"
  /\ phase' = [phase EXCEPT ![t] = "answered", ![u] = "answered"]
  /\ answer' = IF {offer[t], offer[u]} \subseteq CopyableOffers
               THEN [answer EXCEPT ![t] = offer[u], ![u] = offer[t]]
               ELSE [answer EXCEPT ![t] = Error, ![u] = Error]
  /\ UNCHANGED offer

Finish(t) ==
  /\ phase[t] = "answered"
  /\ phase' = [phase EXCEPT ![t] = "out"]
  /\ offer' = [offer EXCEPT ![t] = None]
  /\ answer' = [answer EXCEPT ![t] = None]

Next == \/ \E t \in Threads : Ask(t) \/ Finish(t)
        \/ \E t, u \in Threads : Meet(t, u)

Spec == Init /\ [][Next]_vars
=============================================================================
