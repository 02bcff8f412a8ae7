---------------------------- MODULE SharedObject ----------------------------
(***************************************************************************)
(* What the reference-counted objects of the pthread and aio modules       *)
(* promise: an object has a set of holders, anyone may join as long as     *)
(* there is one, and the object is reclaimed only after the last holder    *)
(* has left.  There is no counter here.                                    *)
(***************************************************************************)
CONSTANTS Objects, Parties

VARIABLES life, holders

vars == <<life, holders>>

TypeOK ==
  /\ life \in [Objects -> {"none", "live", "freed"}]
  /\ holders \in [Objects -> SUBSET Parties]

Init ==
  /\ life = [o \in Objects |-> "none"]
  /\ holders = [o \in Objects |-> {}]

Make(o, p) ==
  /\ life[o] = "none"
  /\ life' = [life EXCEPT ![o] = "live"]
  /\ holders' = [holders EXCEPT ![o] = {p}]

Share(o, p) ==
  /\ life[o] = "live"
  /\ holders[o] # {}
  /\ p \notin holders[o]
  /\ holders' = [holders EXCEPT ![o] = @ \cup {p}]
  /\ UNCHANGED life

Hand(o, p, q) ==
  /\ life[o] = "live"
  /\ p \in holders[o]
  /\ q \notin holders[o]
  /\ holders' = [holders EXCEPT ![o] = (@ \ {p}) \cup {q}]
  /\ UNCHANGED life

Drop(o, p) ==
  /\ life[o] = "live"
  /\ p \in holders[o]
  /\ holders' = [holders EXCEPT ![o] = @ \ {p}]
  /\ UNCHANGED life

Reclaim(o) ==
  /\ life[o] = "live"
  /\ holders[o] = {}
  /\ life' = [life EXCEPT ![o] = "freed"]
  /\ UNCHANGED holders

Next ==
  \E o \in Objects :
    \/ Reclaim(o)
    \/ \E p \in Parties : Make(o, p) \/ Share(o, p) \/ Drop(o, p)
    \/ \E p, q \in Parties : Hand(o, p, q)

Spec == Init /\ [][Next]_vars
=============================================================================
