------------------------------ MODULE RcObject ------------------------------
(***************************************************************************)
(* The reference-counted objects of libpthread/lua_pthread.c.              *)
(*                                                                         *)
(* A pthread_mutex_t, pthread_cond_t, ... lives on the C heap and carries  *)
(* an atomic reference count (refcount.h).  Each Lua state that uses the   *)
(* object owns a userdata whose COOKIE slot holds the object's address     *)
(* (utils.h: new, checkcookie).  The address may travel between threads as *)
(* a lightuserdata, and retain(cookie) makes another userdata from it.     *)
(*                                                                         *)
(* Creating and retaining are two steps, the count first and the userdata  *)
(* second, and so is collecting: the decrement, then the destruction by    *)
(* the thread that brought the count to zero.  Steps of different threads  *)
(* interleave freely between them.                                         *)
(***************************************************************************)
EXTENDS Naturals, FiniteSets

CONSTANTS Threads,   \* OS threads; each runs one Lua state
          Objects,   \* heap addresses of reference-counted objects
          Handles,   \* userdata that can exist
          Nil,       \* NULL
          MaxLost    \* bound on failed userdata allocations per object

ASSUME RcAssumption ==
  /\ IsFiniteSet(Threads)
  /\ IsFiniteSet(Handles)
  /\ Nil \notin Threads \cup Objects \cup Handles
  /\ Threads \cap Handles = {}
  /\ MaxLost \in Nat

VARIABLES
  mem,      \* mem[o]: "none" before malloc, "live", "freed" after free
  refs,     \* refs[o]: the atomic_refcount field
  lost,     \* lost[o]: references whose userdata could not be allocated
  owner,    \* owner[h]: the thread whose Lua state holds userdata h, or Nil
  cookie,   \* cookie[h]: the COOKIE user value of h
  at,       \* at[t]: where thread t is in a binding
  obj,      \* obj[t]: the object that binding works on
  arg       \* arg[t]: the userdata argument of a call in progress, or Nil

rcvars == <<mem, refs, lost, owner, cookie, at, obj, arg>>

Holders(o) == {h \in Handles : owner[h] # Nil /\ cookie[h] = o}
Wrapping(o) == {t \in Threads : at[t] = "wrap" /\ obj[t] = o}

RcTypeOK ==
  /\ mem \in [Objects -> {"none", "live", "freed"}]
  /\ refs \in [Objects -> Nat]
  /\ lost \in [Objects -> Nat]
  /\ owner \in [Handles -> Threads \cup {Nil}]
  /\ cookie \in [Handles -> Objects \cup {Nil}]
  /\ at \in [Threads -> {"idle", "wrap", "free", "call"}]
  /\ obj \in [Threads -> Objects \cup {Nil}]
  /\ arg \in [Threads -> Handles \cup {Nil}]

RcInit ==
  /\ mem = [o \in Objects |-> "none"]
  /\ refs = [o \in Objects |-> 0]
  /\ lost = [o \in Objects |-> 0]
  /\ owner = [h \in Handles |-> Nil]
  /\ cookie = [h \in Handles |-> Nil]
  /\ at = [t \in Threads |-> "idle"]
  /\ obj = [t \in Threads |-> Nil]
  /\ arg = [t \in Threads |-> Nil]
-----------------------------------------------------------------------------
(* Mutant: calloc'd object whose refcount_init was forgotten.              *)
CreateUncounted(t, o) ==
  /\ at[t] = "idle"
  /\ mem[o] = "none"
  /\ mem' = [mem EXCEPT ![o] = "live"]
  /\ refs' = [refs EXCEPT ![o] = 0]
  /\ at' = [at EXCEPT ![t] = "wrap"]
  /\ obj' = [obj EXCEPT ![t] = o]
  /\ UNCHANGED <<lost, owner, cookie, arg>>

(* A constructor after its last failure point: the object is allocated and *)
(* initialised and refcount_init stored 1.  Every earlier failure frees    *)
(* what was allocated and leaves no trace.                                 *)
Create(t, o) ==
  /\ at[t] = "idle"
  /\ mem[o] = "none"
  /\ mem' = [mem EXCEPT ![o] = "live"]
  /\ refs' = [refs EXCEPT ![o] = 1]
  /\ at' = [at EXCEPT ![t] = "wrap"]
  /\ obj' = [obj EXCEPT ![t] = o]
  /\ UNCHANGED <<lost, owner, cookie, arg>>

(* Mutant: retain makes a second userdata without counting it.             *)
RetainUncounted(t, o) ==
  /\ at[t] = "idle"
  /\ Holders(o) # {}
  /\ at' = [at EXCEPT ![t] = "wrap"]
  /\ obj' = [obj EXCEPT ![t] = o]
  /\ UNCHANGED <<mem, refs, lost, owner, cookie, arg>>

(* retain(cookie): refcount_retain.  The manual makes it the caller's duty *)
(* that the userdata the cookie came from has not been collected; that     *)
(* duty is the guard.                                                      *)
Retain(t, o) ==
  /\ at[t] = "idle"
  /\ Holders(o) # {}
  /\ refs' = [refs EXCEPT ![o] = @ + 1]
  /\ at' = [at EXCEPT ![t] = "wrap"]
  /\ obj' = [obj EXCEPT ![t] = o]
  /\ UNCHANGED <<mem, lost, owner, cookie, arg>>

(* new(): allocate a userdata in the calling state and store the cookie.   *)
Wrap(t, h) ==
  /\ at[t] = "wrap"
  /\ owner[h] = Nil
  /\ owner' = [owner EXCEPT ![h] = t]
  /\ cookie' = [cookie EXCEPT ![h] = obj[t]]
  /\ at' = [at EXCEPT ![t] = "idle"]
  /\ obj' = [obj EXCEPT ![t] = Nil]
  /\ UNCHANGED <<mem, refs, lost, arg>>

(* lua_newuserdatauv raises a memory error: new() does not return and the  *)
(* reference taken for the userdata is never given back.                   *)
WrapFails(t) ==
  /\ at[t] = "wrap"
  /\ lost[obj[t]] < MaxLost
  /\ lost' = [lost EXCEPT ![obj[t]] = @ + 1]
  /\ at' = [at EXCEPT ![t] = "idle"]
  /\ obj' = [obj EXCEPT ![t] = Nil]
  /\ UNCHANGED <<mem, refs, owner, cookie, arg>>

(* Mutants: release that tests the wrong one of fetch_sub's two values, or *)
(* that is true too early.                                                 *)
LastReleaseAtZero(o) == refs[o] = 0
LastReleaseAtTwo(o) == refs[o] \in {1, 2}

(* refcount_release: fetch_sub, TRUE in the thread that saw the value 1.   *)
LastRelease(o) == refs[o] = 1

(* Mutant: __gc destroys the object whatever refcount_release returned.    *)
GcAlwaysFrees(t, h) ==
  /\ at[t] = "idle"
  /\ owner[h] = t
  /\ refs' = [refs EXCEPT ![cookie[h]] = @ - 1]
  /\ owner' = [owner EXCEPT ![h] = Nil]
  /\ cookie' = [cookie EXCEPT ![h] = Nil]
  /\ at' = [at EXCEPT ![t] = "free"]
  /\ obj' = [obj EXCEPT ![t] = cookie[h]]
  /\ UNCHANGED <<mem, lost, arg>>

(* __gc: Lua collects h once, when nothing refers to it any more.          *)
Gc(t, h) ==
  LET o == cookie[h] IN
  /\ at[t] = "idle"
  /\ owner[h] = t
  /\ refs' = [refs EXCEPT ![o] = @ - 1]
  /\ owner' = [owner EXCEPT ![h] = Nil]
  /\ cookie' = [cookie EXCEPT ![h] = Nil]
  /\ IF LastRelease(o)
     THEN /\ at' = [at EXCEPT ![t] = "free"]
          /\ obj' = [obj EXCEPT ![t] = o]
     ELSE UNCHANGED <<at, obj>>
  /\ UNCHANGED <<mem, lost, arg>>

(* The rest of __gc in the thread of the last release: destroy and free.   *)
Free(t) ==
  /\ at[t] = "free"
  /\ mem' = [mem EXCEPT ![obj[t]] = "freed"]
  /\ at' = [at EXCEPT ![t] = "idle"]
  /\ obj' = [obj EXCEPT ![t] = Nil]
  /\ UNCHANGED <<refs, lost, owner, cookie, arg>>

(* A method call: checkcookie reads the address from the userdata and the  *)
(* call works on the object until it returns, possibly after blocking.     *)
(* The argument stays on the Lua stack, so Lua does not collect it.        *)
Enter(t, h) ==
  /\ at[t] = "idle"
  /\ owner[h] = t
  /\ at' = [at EXCEPT ![t] = "call"]
  /\ obj' = [obj EXCEPT ![t] = cookie[h]]
  /\ arg' = [arg EXCEPT ![t] = h]
  /\ UNCHANGED <<mem, refs, lost, owner, cookie>>

Leave(t) ==
  /\ at[t] = "call"
  /\ at' = [at EXCEPT ![t] = "idle"]
  /\ obj' = [obj EXCEPT ![t] = Nil]
  /\ arg' = [arg EXCEPT ![t] = Nil]
  /\ UNCHANGED <<mem, refs, lost, owner, cookie>>

RcNext ==
  \E t \in Threads :
    \/ \E o \in Objects : Create(t, o) \/ Retain(t, o)
    \/ \E h \in Handles : Wrap(t, h) \/ Gc(t, h) \/ Enter(t, h)
    \/ WrapFails(t)
    \/ Free(t)
    \/ Leave(t)

(* The thread of the last release is inside a C function that cannot be    *)
(* interrupted: it goes on to free the object.                             *)
RcSpec == RcInit /\ [][RcNext]_rcvars /\ \A t \in Threads : WF_rcvars(Free(t))
-----------------------------------------------------------------------------
(* The count of a live object is the number of references to it: userdata  *)
(* in all Lua states, references on their way into a userdata, and the     *)
(* ones lost to a failed allocation (refcount_init/retain/release).        *)
RefsCountHolders ==
  \A o \in Objects :
    mem[o] = "live" =>
      refs[o] = Cardinality(Holders(o)) + Cardinality(Wrapping(o)) + lost[o]

(* Nothing reaches freed memory: not a userdata that Lua may still pass to *)
(* a method, not a call in progress (which may be blocked in it), and not  *)
(* a thread about to store the address in a new userdata.                  *)
NoUseAfterFree ==
  /\ \A h \in Handles : owner[h] # Nil => mem[cookie[h]] = "live"
  /\ \A t \in Threads : at[t] # "idle" => mem[obj[t]] = "live"

(* The thread that destroys and frees an object is alone with it: no       *)
(* userdata, no call and no second destroyer is left (__gc after           *)
(* refcount_release returned true).                                        *)
FreeIsExclusive ==
  \A t \in Threads :
    at[t] = "free" =>
      /\ Holders(obj[t]) = {}
      /\ \A u \in Threads \ {t} : obj[u] # obj[t]

(* An object with no reference left and none lost is freed: the last of    *)
(* any number of racing __gc calls sees the count go from 1 to 0.          *)
UnreferencedIsFreed ==
  \A o \in Objects :
    (/\ mem[o] = "live"
     /\ Holders(o) = {}
     /\ Wrapping(o) = {}
     /\ lost[o] = 0) ~> mem[o] = "freed"

(* The counter implements the holder sets of SharedObject.                 *)
Abs == INSTANCE SharedObject WITH
         Parties <- Threads \cup Handles,
         life <- mem,
         holders <- [o \in Objects |-> Holders(o) \cup Wrapping(o)]

(* Every step of the counting protocol is a step of the abstract object or *)
(* leaves it alone: in particular free happens with no holder.             *)
ImplementsSharedObject == Abs!Spec
=============================================================================
