# TLA+ models of flualibs

flualibs is a collection of Lua modules for the FreeBSD base system, written in
C.  Most of its functions convert arguments, make one system call and return.
The parts with logic of their own are the ones that keep C objects alive behind
Lua userdata, share them between the Lua states of several threads, or hand
their memory to the kernel.  Those are the parts modelled here: the threaded ones
each in a module of its own, and the bindings around a library's or the kernel's
objects in one module that is told by a table what every function does to them.

Paths below are relative to `src/`; line numbers refer to the files as they are.

## 1. Inventory

### 1.1 How the parts hang together

`utils.h` gives every module the same object representation: a full userdata
with a user value named COOKIE that holds a C pointer (`new`, `checkcookie`,
`checkcookienull`, `setcookie`), and for objects that depend on another one a
second user value REF that keeps the other alive (`newref`).  A method reads the
pointer from its first argument and calls C with it; `__gc` and sometimes
`__close` give the object back.  Lua states are single-threaded; threads come in
with `libpthread`, each thread running a Lua state of its own.  Values cross
between states by copying (`copyn`), and objects by passing an address (a
lightuserdata, the *cookie*) and calling `retain` on the other side, which is
what the atomic counters of `libpthread/refcount.h` are for.

| Component | State it keeps | Operations | Interacts with | What is hard | What makes it correct |
|---|---|---|---|---|---|
| reference counting (`utils.h`, `libpthread/refcount.h`) | counter, userdata cookies in several Lua states | create, `retain`, `cookie`, method calls, `__gc` | everything in `libpthread`, `aio` | `retain` and `__gc` in different threads; a userdata allocation that fails after the count was taken | count exact, freed once, by the last, with nobody inside |
| asynchronous I/O (`aio/lua_aio.c`) | request state word, saved state, buffer, kernel job | `shared`, `retain`, `read`/`write`/`mlock`/`fsync`, `_return`, `cancel`, `suspend`, `error`, field access, `waitcomplete`, `__gc`, `__close`, `listio`, local requests | kernel, reference counting, `signal`, `sys.event` | the kernel writes to memory that Lua may collect; several threads on one request; failed submissions | the kernel never has freed memory; who owns the buffer is always what the state word says |
| rendezvous (`libpthread/lua_pthread.c` 1990-2210) | mutex, condition, pointer to the waiter's Lua state | `new`, `exchange`, `timedexchange` | `copyn`, libthr | a thread works on another thread's Lua stack; deadlines, cancellation, lost wakeups | each call gets the arguments of exactly one other |
| thread life cycle (`lua_pthread.c` 310-560, 690-760, 1816-1851) | Lua state per thread, cleanup stack, detach state | `create`, return, `exit`, `cancel`, `testcancel`, `join`, `timedjoin_np`, `peekjoin_np`, `detach`, `cleanup.push`/`pop` | `copyn`, libthr | who closes a Lua state, and who may still read it | closed once, never read or run after that, never forgotten by a join |
| once (`lua_pthread.c` 780-830) | once control | `__call` | libthr | calls itself through its own `__call` | runs the function once |
| mutex, condition, rwlock, spinlock, barrier, key | one libthr object each | one libthr call each | libthr | lifetime only | see reference counting |
| name/value lists (`libnv/lua_nv.c`) | forest of nvlists, own and borrowed userdata, iteration cookies | about 90 adders, getters, takers, movers | `libcasper` services | ownership moves between userdata; borrowed pointers into a list that is freed | each live list has exactly one owner, no borrowed userdata outlives it |
| event queues (`sys/event`) | descriptor, coroutine addresses in the kernel | `kqueue`, `kevent`, `close` | kernel, `aio` completion events | a coroutine's address outlives the coroutine | an event resumes a live coroutine |
| descriptors (`mqueue`, `sys/inotify`, `sys/eventfd`, `sys/procdesc`, `dirent`) | descriptor or DIR behind a userdata | open, `close`, `__close`, `__gc`, I/O | kernel, `stdio` | closing twice, using after closing | closed once, never used after |
| casper (`libcasper`) | channels and service handles | `init`, `wrap`, `clone`, `service_open`, limits, requests | `libnv` | a channel handed over to a service handle | one owner per channel |
| library handles (`libzfs`, `libzfs.core`, `libnvpair`, `libbe`, `libkvm`, `libifconfig`, `libmagic`, `sys.acl`, `sys.mac`) | handles, parts of handles, lists, some with REF | open, children, iteration callbacks, close | callbacks into Lua, lists of `libnvpair` | closing a parent while a child exists; a part wrapped as an object of its own; callbacks in the middle of a walk | nothing freed is used, nothing is freed twice, nothing is left |
| conversions (`sys.capsicum`, `sys.cpuset`, `sys.extattr`, `sys.socket`, `netinet`, `netdb`, `sys.sysctl`, `libcasper` services' encodings) | value objects | encode, decode | kernel | bounds | round trips |
| plain wrappers (`unistd`, `fcntl`, `stdio`, `signal`, `syslog`, `time`, `pwd`, `grp`, `sys.stat`, `sys.linker`, `sys.module`, `sys.limits`, `sys.reboot`, `libutil`, `libmd`, `libfetch`, `libpathconv`, `b64`, `xor`, `libbsddialog`, `readpassphrase`) | none | one call each | C library | - | - |

PROJECT.json lists all of them with their status, and under "hazards" the lines
at which the hard behaviours bite.

### 1.2 What is hard to test in them

- orders of `retain`, `__gc` and a blocked call in different threads
  (`refcount.h:31`), and `waitcomplete` finding a request nobody holds
  (`lua_aio.c:807`);
- the compare-and-swap on a request's state against submission, return and
  collection (`lua_aio.c:88`), and what a failing system call leaves behind
  (`:460`, `:563`, `:808`);
- the thread parked in `exchange` whose stack is written by another
  (`lua_pthread.c:2118`), its deadline (`:2162`), its cancellation (`:2105`);
- the several ways a Lua state is closed (`lua_pthread.c:338`, `:423`, `:541`)
  against the ways it is read (`:541`, `:709`);
- the order in which Lua collects handles that need one another (`lua_zfs.c:298`,
  `lua_sysctl.c:48`, `lua_ifconfig.c:491`), and parts wrapped as objects of their
  own (`lua_zfs.c:1526`, `lua_nvpair.c:169`);
- callbacks that close what is being walked, and stack positions counted by hand
  (`lua_zfs.c:585`, `:1625`);
- a coroutine collected while the kernel has its address (`lua_event.c:131`);
- a list of requests that is given up in its middle (`lua_aio.c:753`, `:762`).

## 2. Modules

| Module | Stands for |
|---|---|
| `SharedObject` | abstract: objects with sets of holders, no counter |
| `RcObject` | the counting protocol; implements `SharedObject` |
| `RcObjectProofs` | theorems about `RcObject` |
| `Aio` | extends `RcObject` (its Objects are the requests): state word, kernel, buffers |
| `Exchanger` | abstract: a pairwise, simultaneous swap of arguments |
| `Rendezvous` | mutex, condition, waiter, Lua stacks; implements `Exchanger` |
| `RendezvousProofs` | theorems about `Rendezvous` |
| `ThreadLife` | threads, their Lua states, cleanup stacks, joins |
| `Nv` | name/value lists: forest, owning and borrowing userdata |
| `Handles` | objects of C libraries and of the kernel behind userdata, for any table of functions |
| `LibZfs`, `NvPair`, `Casper`, `Descriptors`, `SysHandles` | the tables: what each function of these bindings does to its objects |
| `LuaStack` | the part of the Lua C API that moves values on a stack (external) |
| `ZfsIter` | the iterators of `libzfs` and their callbacks, on the Lua stack |
| `EventLoop` | `kevent` with coroutines, and the event loop of `sys/event/test.lua` |
| `Listio` | `aio.listio` against other threads |
| `Bindings` | the sum of `Handles` with all tables, `ZfsIter`, `EventLoop` and `Listio` |
| `AioProofs`, `ThreadLifeProofs`, `NvProofs`, `HandlesProofs`, `ZfsIterProofs` | theorems about the modules they are named after |
| `BindingsProofs` | theorems about `EventLoop` and `Listio`, and about the sum |
| `MC*` | instances for TLC (symmetry sets; that the tables meet the hypotheses of the theorems; that `Pushed` is what the loop of the callbacks leaves) |

Operators called *Mutant* in their comment are deliberately wrong variants of the
definition that follows them.  They take part in no specification; each shows, by
replacing its original, that some property would notice that bug.

### 2.1 RcObject

`mem[o]` and `refs[o]` are the heap object and its `atomic_refcount`; `owner[h]`
and `cookie[h]` are a userdata, the Lua state it lives in and its COOKIE.  A
thread's place in a binding is `at[t]`: between counting and `new()` (*wrap*),
inside a method call that may block (*call*), between the release that reached
zero and `free` (*free*).  `Create`, `Retain`, `Wrap`, `WrapFails`, `Gc`,
`Free`, `Enter`, `Leave` are the steps at which other threads can see a change.
The constructors and `__gc` functions of mutexes, conditions, barriers, rwlocks,
spinlocks, once controls, rendezvous and threads have the same shape; the map
names the mutex's.  A constructor's earlier failures free what was allocated and
are no step.  `retain` is guarded by the manual's duty on the caller: the
userdata a cookie came from has not been collected yet.

Lua gives one guarantee that the model uses: the arguments of a running call
are on its stack and are not collected, so `Gc` is not enabled for a thread
inside a call.

### 2.2 Aio

`state` is the atomic word, `saved` is `aio_state`, `kern` the kernel's job (none,
active, done, failed), `buf` how much of the buffer was ever written. `Begin` is the
compare-and-swap of `read`, `write`, `mlock` and `fsync`; `Submit` and `SubmitFails`
the system call with commit or rollback; `BeginReturn`, `Return`, `Commit`,
`Restore` the two-phase `_return`; `FreeCheck` ... `AioFree` the collection of the
last reference with its cancel, wait and reap; `WaitComplete`, `WaitRetain`,
`WaitFinish` are `waitcomplete`.  The kernel (`Complete`, `CompleteFails`,
`aio_return`, `aio_cancel`) is external and modelled from the FreeBSD interface the
code relies on: a read may fill its buffer or only the beginning of it, an outcome
is handed out once, `aio_return` of a running request is EINVAL and changes nothing,
a cancellation either ends the job or leaves it.  `listio` is in `Listio`; requests
with local buffers are not modelled.

Three constants say how the program uses the binding, so that each assumption is
visible in the configuration that makes it, and a variable that never changes,
`waits`, tells which of two kinds of program it is: one that fetches completions
with `_return` and may let go of an outstanding request, or one in which the
`Waiters` call `waitcomplete`, nobody calls `_return`, as the manual demands, and
some userdata of an outstanding request is kept.  (If it is not kept, the last
collection and `aio_waitcomplete` can both get the request, and `RequestsLive`
fails, `:807`.)

| Constant | FALSE / empty means | otherwise |
|---|---|---|
| `EarlyReturn` | `_return` only after the request was seen complete | run `aio_early_return` |
| `CloseShared` | `__close` only on the last reference | `l_aiocb_free` runs again at `__gc` of the same userdata and takes a second reference from the count (`lua_aio.c:329`): `RequestsAreRcObjects` fails |
| `Waiters` | nobody calls `waitcomplete` | they do, when `waits` |

`EarlyReturn = FALSE` asks that the request is complete when `_return` claims it,
and the duty of the `Waiters`' programs keeps the last userdata of an outstanding
request from being collected (`MayCollect`); the code has neither test, they are
what a program has to do for it.

A read that is shorter than its buffer is committed like a full one (`:566`), so
that INIT does not mean what the comment at `:61` says, in the example of
`aio.3lua:165` and `aio/test.lua:6` too, where a file is read into a larger buffer.
What holds is `InitWasFilled`: a buffer that may be read was given contents by the
program or by a completed read, however much of it; that all of it was written
(`buf[c] = "data"`) fails.

The state test and the copy of `cb.buf` are two steps (`BeginCopy`, `EndCall`),
and nothing in the code keeps a second thread from submitting a read between
them (`:411`); no property claims otherwise.

### 2.3 Rendezvous

One rendezvous object.  `stack[t]` is the part of the Lua stack that belongs to
the call and `cnt[t]` the integer the code keeps on top of a waiter's; `narg` and
`nres` are the locals of the same names.  `due[t]` is a history variable: what a
match owes the caller, written when the match happens and read by properties
only.  `copyn` is abstracted to whether a value can be copied (`Bad`), since the
values themselves pass through unchanged; that it stops at the first bad value,
and what it leaves on which stack, is kept.  `TimedResult` does the index
arithmetic of `timedexchange` (2199-2203) literally, because a property is about
it.  Waits: `Signal` wakes one blocked thread, `Timeout` leaves the queue, and
either way the mutex must be taken again (`Reacquire`) before the code goes on;
between the two another caller may come in.

Left out: wakeups without a signal (the `wait` at 2105 is not in a loop; with
them `ExchangeMatches` fails), and errors of `pthread_cond_wait` other than the
timeout, which a correctly initialised object does not produce.

### 2.4 ThreadLife

`os[t]` is libthr's view of a thread, `lua[t]` its Lua state, `closes[t]` the
number of `lua_close` calls on it.  `thread_cleanup` takes the handlers from
index 1 upwards (322-337) and closes the state (338).  A returning thread disarms
it (`Return`), `pthread.exit` does not (`Exit`).  `Exiters`, `Peekers` and
`MemFails` say who calls `pthread.exit` and `peekjoin_np` and whether a `malloc` in
`create` may fail.  The variable `careful`, chosen at the start, rules all three
out; in a careful program the states are handled safely, in another they are not:

- `Exit`: run `life_exit`;
- `Peek`: `peekjoin_np` copies out of a state that a concurrent `join` closes
  (709): `ReadsOpenState` fails;
- `CreateNoMem`: the error path closes `L` instead of the new state (423), and
  `RunsOpenState` fails.

A detached thread that returns leaves its state open for ever (`Detach`,
`Return`); no document promises otherwise, and `EndedIsClosed` is about joined
threads.  The order of the handlers, first pushed first, differs from
`pthread_cleanup_push(3)`; the model has no effect of a handler to tell the
orders apart.

### 2.5 Nv

A list is destroyed by the `__gc` of the one userdata that owns it, together with
everything below it; other userdata borrow lists (`const nvlist_t`) or the pair
that holds a list in its parent (`nvlist_t cookie`) and keep the userdata they
came from alive through REF.  `anc[l]` is the chain of parent pointers from `l` up
as a set, so that the tree below a list is `{m : l \in anc[m]}`.  Values that are
no lists do not matter for ownership and appear only as `AddFails`.  libnv itself
is external: an `add` clones, a `move` under a name that is taken destroys the
value and puts the list in error, an `xfer` destroys what it sent.  `limit`,
`xfer` and `initnv` of libcasper consume lists in the same way (`Consume`,
`Xfer`).

As in C, what was borrowed from a list must not be used after the list was moved,
sent, taken out or freed by a call of the program: those userdata become `stale`
and take part in no further call.  What remains for the binding to get right is
everything Lua does by itself, i.e. collection in any order, and the clearing of
cookies.  One more duty falls on the caller, `KeepDefaults`:
`get_nvlist(name, default)` borrows the list of its default but refers to the list
that was searched (`lua_nv.c:135`), so the default has to be kept by hand, for as
long as any userdata obtained with it exists.  That holds of userdata the program
no longer uses as well: `get_parent` and `get_array_next` hand out others that
refer to them, and live on what they keep.  With `KeepDefaults = FALSE`,
`KeptAlive`, which is the comment at `utils.h:91`, fails.

Faithful to the code, `AnyNvlist` accepts const lists only (`lua_nv.h:71` compares
the wrong stack slots).  Left out: moving a list into itself (libnv makes it its
own parent and nobody can free it); arrays of lists built from Lua, whose elements
are looked up with a relative stack index and refused (`lua_nv.c:803`, `920`);
the userdata of `next()`, whose cookie stays NULL (`:287`).

### 2.6 Handles and the tables

A C object (`mem`) is live or freed, is a whole or a part of another (`whole`), and
may use another for as long as it lives (`up`).  A userdata (`ud`) has a COOKIE and
a REF.  A row of a table is one function: the kinds of userdata it checks, what it
makes and who owns that, which argument it consumes, whether it or its failure
report uses the handle that the argument was opened through (`zfsfail` and
`zpoolfail` do), whether it refuses closed arguments, whether it leaves memory
behind, whether it calls back into Lua.  Rows that differ in their names only are
one row to TLC.  The actions are `Call`, `Make`, `Take`, an iteration in three steps
(`WalkBegin`, `WalkItem`, `WalkEnd`) between which the callback does whatever
programs do, `Close`, `Collect` (Lua's collector, in any order that its references
allow) and, after `CloseState`, `Finalize` in the order of `lua_close`.  `bad`
records the use of a freed pointer and the second free of one, after which nothing is
said any more; an address is used again once nothing holds it.

Programs call every function of the tables, and every close and every `new()` may
fail.  Where the code itself is wrong, the model follows it and the properties say how
far the damage goes:

- *Stray* userdata free an object that is not their own: lists inside a dataset, a
  pool or another list, wrapped with `new()` (`"lent"`, `"reflent"`:
  `lua_zfs.c:1526`, `lua_nvpair.c:169`, `:411`); handles that `foreach_mountpoint`
  wraps a second time (`"again"`: `lua_zfs.c:633`); and what kept its cookie because
  its close reported an error although the object is gone (`lua_kvm.c:120`,
  descriptors, `dirent`).  `bad` records whether a fault came through a stray;
  `UsesLive`, `FreedOnce` and `NoDangling` say that nothing else is ever at fault.
  Strays do free twice: without the exemption `FreedOnce` fails in two calls, those of
  `libzfs/core/test.lua:5-6` and `zfs.core.3lua:294-295`.
- Blocks are left behind by `crypto_create`, `is_mounted`, `pool_in_use` and
  `vdev_split` of `libzfs`, the failing `add_*_array` of `libnvpair` and `value` of
  casper's mibs, `mounted_at` of `libbe` when it fails, `to_text` of
  `sys.acl`, `get_description`, `get_orig_name`, `get_groups`, `create` and
  `create_vlan` of `libifconfig`, `open`, `receive` and `timedreceive` of `mqueue`
  and `kevent` of `sys.event`; and the object just made, by any function whose `new()`
  raises a memory error (`utils.h:84`).  `NothingLeft` says that after `lua_close`
  nothing else is left: every object that had a userdata was given back.

The bindings also leave duties to the program without saying so.  The constants
name them, per binding, so that the configuration is the table of what each
binding needs.  A binding is outside the set where the property fails with it in:

| Duty | Constant of `Handles` | Bindings that need it | Otherwise fails |
|---|---|---|---|
| close dependents before the handle they came from | `CloseParents` | `libzfs`, `libcasper`, `libifconfig` | `NoDangling` |
| keep the userdata of that handle reachable | `DropParents` | the same | `NoDangling` |
| not close in a callback what is being walked | `CloseInWalk` | `libzfs`, `libkvm`, `libifconfig` | `UsesLive` |
| not use a closed object | `UseClosed` | `mqueue`, `kevent` | `UsesLive` |

`sys.acl`, `sys.mac`, `libbe`, `libmagic` and `libzfs.core` need none of
them: their references, or their having no dependents, are enough.

`Covered(l)` says when the duties cover binding `l`, of its table alone: what a
callback walks is not closed in it; functions refuse what was closed or are not
called with it; who may close or forget an object while others depend on it has only
dependents with a REF to it, of objects that nothing but their finalizer ends, and
strays; and a kind of userdata that keeps its object alive always does and is in no
binding that makes strays. `DutiesCover`, that this is so of every binding, is the
hypothesis of the theorems about `Handles`, and `MCBindings` has TLC evaluate it on
the tables.

Not in the tables: the values of arguments and results that are not handles, error
messages, and the two resolvers of `libkvm` and the property iterators of `libzfs`
(3874-3957), which call back without an object of their own.

### 2.7 ZfsIter

The iterators keep callback and additional arguments on the caller's stack,
remove their own parameters from its middle and find the rest by counting.  The
stack is a sequence of named values, and `LuaStack` says what the API does with it,
for invalid indices too, as liblua does without its API checks.  `Enter` is the
call up to libzfs, `Callback` and `FilterCallback` one callback up to `lua_pcall`,
`Returns` and `Throws` its end, `FailedWalk`, `FinishedWalk` and `FinishedSend` the
end of the iteration.  `Pushed` says in one formula what the loop of `lua_pushvalue`
calls leaves, each copy being as far below the top as the one before; TLC compares it
with the loop, one push after the other, on all small stacks (`PushedIsLoop`).
`Misfits` are the functions whose removals or counts are off, whatever the caller
passes: those with two or more parameters, which remove positions 2, 3 and 4 in
ascending order where each removal moves the next parameter down
(`lua_zfs.c:1623-1625`), and `send`, whose filter counts one too few (`:2185`).
What they call is a parameter (`MisfitsNeverCall`), although `zfs.3lua:608` says that
the callback receives the handle.  The others call the callback,
but not with the arguments of the caller: the copies are off by one (run
`zfs_iter_args`), and `CallbackGetsShifted` says exactly what is passed instead.

What libzfs does when a callback returns -1 is not in the repository and an
assumption of the model: `zfs_iter_snapspec` and `zfs_iter_snapshots_sorted`, and
their `_v2`, remember the error and go on (`GoesOn`), `zfs_foreach_mountpoint` does
not look at it, the other walks stop.  Where the walk goes on, fail and message of the
callback stay on the stack, are counted among the additional arguments of the next
callback and returned at the end, one pair for every callback that raised an error
(`IterResults`), so that `iter_snapspec` returns four values or more where
`zfs.3lua:145` has two.

### 2.8 EventLoop

`knote[i]` is the udata of an event in the queue, `changes` the changelist, `threads`
the table that keeps handlers alive.  The loop is that of `sys/event/test.lua` 51-73,
which the manual page prints as well.  `kevent` applies the changes, of which the last
one for an event counts (`EventAfter`).  If none fails it waits (`KeventWaits`); if one
does, because the kernel refuses an addition or the event to be deleted is not there
(`Failing`), it comes back at once as an event with EV_ERROR (`KeventError`), for which
there is room once; a second one, or an error of the call itself, ends the program
(`KeventFails`, the loop's `assert`).  Otherwise it returns an event (`KeventReturn`),
and the coroutine named by it is resumed and yields (`HandlerYields`) or ends
(`HandlerDies`), in which case the event's deletion is queued and the coroutine
forgotten.  The kernel removes events by itself at any time (`KernelRemoves`):
EV_ONESHOT, a closed descriptor, a process that is gone.

A coroutine whose event was refused or removed stays in `threads`, since the branch
for EV_ERROR only prints (`test.lua:57`), and the loop waits for it for ever.
`stranded` remembers these, and `HandlersHaveEvents` says that the loop loses nobody
else.  Two silent duties remain.  `Share = FALSE`: one event per coroutine; with
`TRUE`, a coroutine that ends on one of its two events is collected while the other
is in the queue and `EventsLive` fails, although the loop says *Now it is safe to GC
the thread* (`test.lua:68`).  `Reuse = FALSE`: a handler does not give its own
descriptor number, opened anew, to another coroutine before it ends; with `TRUE` the
deletion queued for it (`test.lua:63`, *Delete the event for this thread*) deletes the
other's event and `HandlersHaveEvents` fails.

### 2.9 Listio

`aio.listio` claims the requests of its list one by one (`ListClaim`), gives up on an
element that is no request (`ListInvalid`) or cannot be claimed (`ListRefused`), and
submits them together (`ListSubmit`, `ListSubmitFails`); other threads submit single
requests in between (`SubmitOne`), fetch outcomes (`ReturnOne`), and the kernel
completes.  The rollback after a refusal includes the slot of the refused request,
whose pointer was never stored (`lua_aio.c:753`): the model writes the state of any
request, or none.  `lio_listio(2)` may fail having queued none, some or all of the
requests, and all are rolled back (`:762`), so that
the kernel may have a request that is not PENDING, against the comment at `:62`.  `hurt` remembers
the requests that one of these two paths has given a state they are not in, the one
the stray pointer names and those that were queued; `ListStatesTrue` says that every
other request keeps a true state whatever lists hold, repeated requests and requests
in use included, and whatever other threads do meanwhile.

`l_lio_listio` asks for a table as third argument (`:726`), where `aio.3lua:90` has an
optional sigevent: the documented call with two arguments raises an error before
anything else, and callers have to pass one.  The model begins after that check.

### 2.10 Bindings

A program of one binding at a time.  `Handles` runs with the table of that binding
(`zfs` and `zpool` are two tables, because together they only multiply states);
`callbacks`, `events` and `listio` stand for the three modules that have variables of
their own.  A step is a step of the part in use and leaves the others alone, so each
part is explored by itself within one run.

## 3. What TLC checks

| Run | Instance | Shows |
|---|---|---|
| `rc` | 2 threads, 2 objects, 3 userdata, 1 lost reference | counts exact, no use after free, exclusive destruction, it happens, refinement of `SharedObject` |
| `aio` | 2 threads, 1 request, 3 userdata; `_return` with collection while outstanding, or a `waitcomplete` thread | kernel safety, buffer ownership, no buffer readable that nothing was written to, one returner, no request stuck PENDING or freed under `waitcomplete`, the transition table of `lua_aio.c:45-57`, steps are steps of `RcObject`, the final collection ends |
| `aio_early_return` (violation) | 1 thread, 1 request | `_return` on a running request makes the collection skip its drain |
| `rdv_untimed` | 3 threads, one copyable and one uncopyable value, 1 call each | one waiter, results are the partner's arguments, refinement of `Exchanger`, matched calls return, callers get in |
| `rdv_timed` | 3 threads, 2 calls each, deadlines and cancellation everywhere | types; only parked stacks are written |
| `rdv_timed_true` (violation) | 2 threads, 1 argument | the `true` of `timedexchange` is inserted one place too low |
| `rdv_timeout_race` (violation) | 2 threads, one with a deadline | an exchange that happened is reported as a timeout |
| `life` | main and 2 threads, 1 handler each | careful programs: open states only are read and run, closed once; all programs: a cancelled thread runs its handlers and closes its state, joined ones are closed, cancelled threads finish |
| `life_exit` (violation) | main and 1 thread | `pthread.exit` closes the state that `join` reads |
| `nv` | 3 lists, 5 userdata | one owner per live tree, none destroyed twice or leaked; borrowed userdata in use point to live lists |
| `bindings` | 12 tables with 4 objects and 3 userdata; iterators over 2 handles, up to 2 additional arguments; 2 events, 3 coroutines, 3 changes; 2 requests in lists of up to 3 | under the duties of 2.6: but for strays, no freed object used, none freed twice, none dangling; none left that had a userdata; what callbacks get, and that iterators return nothing else; no event resumes a collected coroutine and the loop forgets no handler; lists of requests harm none but on two paths |
| `zfs_iter_args` (violation) | up to 2 additional arguments | a callback gets itself in place of its argument |

**Bounds.**  `MaxLost`, `MaxArgs`, `MaxCalls`, `MaxPush` and the sizes of the sets.
Two threads and three userdata are the least with which a retain, a collection of
another userdata and a call in progress meet on one object, and a second object
shows that objects do not disturb each other.  Requests share no state, so one is
enough in `Aio`; three userdata let one thread hold two while the other holds the
third.  Three callers are the least with which a third thread comes between a
matched pair; a second call per thread (in `rdv_timed`) lets a thread that timed out
meet what its first call left behind.  One argument tells right results from shifted
ones.  Main and two threads are the least for two joiners of one thread.  Three
lists are the least for a parent, two children and for two trees of which one has a
child; five userdata let two owners, two borrowed lists and a pair exist together.
Three userdata are the least for a handle, what was opened through it and a list
that came from it, or an access list, its entry and the entry's flags; a fourth
object lets a block be left behind beside them.  Three coroutines on two events let
one be replaced while another is forgotten; three entries let a list be given up
with one request claimed before and one left after.  `MaxItems` = 2 lets a second
callback find what the first left on the stack.  Handles, lists, threads other than
main, and callers are interchangeable; symmetry is used in runs without liveness
only.

**Deadlock.**  The models may stop: every object freed and every thread idle at
its bound on calls, or a rendezvous caller who waits for a partner that never
comes.  Deadlock is therefore not an error; what must not be stuck is stated
instead (`PendingHasOwner`, `FreeTerminates`, `MatchedReturns`, `CallersGetIn`,
`EndedIsClosed`).

**Fairness.**  Weak, and only for what the scheduler guarantees.  `Free` and
`FreeSteps`: a thread inside a C function goes on.  `Complete`/`CompleteFails`:
the kernel finishes a job it has started.  `Inside`: a thread in `exchange` that
can run does; for `Lock` and `Reacquire`, weak fairness suffices in the bounded
instance, where calls run out and the mutex becomes free for good; with endless
calls a fair mutex would be needed.  `CleanupStep`, `CleanupClose`, `JoinGet`,
`JoinClose`: threads in C code that nothing interrupts.  Handlers are assumed to
return.  Nothing is assumed about callers: no one has to make a call, to release
an object, or to come to a rendezvous.

### 3.1 Disagreements with the documentation

Five runs are expected to fail, each on what a comment or a manual page says:
`KernelSafe` (comment at `lua_aio.c:337-339`), `ExchangedIsTrue` and
`TimeoutMeansNoExchange` (`pthread.3lua:658-663`), `ReadsOpenState`
(`pthread.3lua:229-231`), `CallbackGetsArgs` (`zfs.3lua:335`).  PROJECT.json quotes them
under "findings".  Other places where the code does not do what a comment, a test or a
manual page says are part of the models as they are, and the properties of the passing
runs say what is left: short reads (`InitWasFilled`), failed lists of requests
(`ListStatesTrue`), stray userdata (`FreedOnce`), coroutines without an event
(`HandlersHaveEvents`), iterators that go on or do not call (`IterResults`,
`MisfitsNeverCall`).

## 4. What is proved

TLAPS checks the proofs for every value of the constants that meets the named
assumptions.  These say that the distinguished values (`Nil`, `NoCo`, `NoRequest`,
an `Error`) are none of the others, that subsets named in a configuration are
subsets and bounds natural numbers, and, in `RcAssumption`, that threads and
userdata are finite.  A duty of the program, where a property needs one, is a
hypothesis of the theorem, the same one that the configuration of the run makes.

| Module | Theorems, and the property each states | Duty assumed |
|---|---|---|
| `RcObjectProofs` | `RcTypeCorrect`, `RefsExact` (`RefsCountHolders`), `MemorySafe` (`NoUseAfterFree`), `DestroyAlone` (`FreeIsExclusive`), `CountingImplementsHolders` (refinement of `SharedObject`), `LastReleaseSeen` | none beyond `retain`'s |
| `AioProofs` | `AioTypes`, `RequestsCounted` (`RequestsAreRcObjects`), `RequestsStayLive` (`RequestsLive`) | `CloseShared = FALSE` |
| | `KernelNeverInFreed` (`KernelSafe`), `KernelIsAlone` (`KernelOwnsBuffer`), `SingleReturner` (`OneReturner`), `NothingStuck` (`PendingHasOwner`), `TransitionsValid` (`ValidTransitions`) | also `EarlyReturn = FALSE` |
| | `BuffersFilled` (`InitWasFilled`) | the same |
| `RendezvousProofs` | `RdvTypeCorrect`, `StackParked` (`WaiterParked`) | none |
| | `SignalReachesWaiter` (`OneWaiter`), `ResultsArePartners` (`ExchangeMatches`), `RendezvousExchanges` (refinement of `Exchanger`), `NoWakeupLost` | no deadlines, no cancellation |
| | `MutexIsReleased` | no cancellation |
| `ThreadLifeProofs` | `LifeTypes`, `OpenStates` (`CarefulUsesOpenState`), `NoDoubleClose` (`ClosedOnce`), `CancelCloses` (`CanceledIsClosed`), `NoStateForgotten` | `careful`, inside the properties that need it |
| `NvProofs` | `NvTypes`, `SingleOwner` (`OneOwner`), `BorrowedKeptAlive` (`KeptAlive`) | `KeepDefaults` |
| `HandlesProofs` | `LiveUses` (`UsesLive`), `FreesOnce` (`FreedOnce`), `NoneDangling` (`NoDangling`), `AllGivenBack` (`NothingLeft`) | `DutiesCover` |
| `ZfsIterProofs` | `ResultsRight` (`IterResults`), `ArgsShifted` (`CallbackGetsShifted`), `MisfitsNeverCall` | none |
| `BindingsProofs` | `EventsReachLiveThreads` (`EventsLive`), `NoThreadForgotten` (`HandlersHaveEvents`) | `Share = FALSE`, `Reuse = FALSE` |
| | `ListKeepsStatesTrue` (`ListStatesTrue`) | none |
| | `PartsCompose` (every part's specification), `ProgramsAreSafe` (all invariants of the run `bindings`) | none; those of the parts |

Each of these rests on an inductive invariant, stated as a theorem of its own
(`RcInvariant`, `CountInvariant` and so on), because none of the properties is
inductive alone; TLC checked each invariant on the instance of the run first.

**RcObjectProofs.**  That the count is exact says nothing of a thread in the middle
of `free`; that nothing refers to freed memory depends on the count being exact when
it reaches zero.  `RcInv` joins both with four shapes: a userdata exists exactly
if it has a cookie (`HandleShape`); a thread in a binding has an object, and a
call has an argument userdata of its own thread for the same object
(`CallShape`), which is what keeps blocked calls safe; the thread about to free
saw zero and is the only one (`FreeShape`); nothing is lost of an object that does
not exist yet (`FreshShape`).  Each action preserves it by a lemma of its own; the
counting steps use the library's facts on cardinality.  From `RcInv`,
`StepImplements` maps every step to a step of `SharedObject` or to a stutter.
`LastReleaseSeen` is the safety half of `UnreferencedIsFreed`: a live object whose
count is zero has a thread that is about to free it (`ZeroAttended`), so that only the
fairness of `Free` is left to TLC.

**AioProofs.**  In two layers.  `CountInv` says that every step of a request is a
step of `RcObject` or none, so that `RcInv` carries over; it adds at which steps a
thread is inside a call, after its last release or coming out of
`aio_waitcomplete(2)` (`StepShape`, `JobShape`), and that a request which
`waitcomplete` has got, or may get, has a userdata (`Kept`): without the last part a
collection could free the request between the system call and the `retain`
(`lua_aio.c:807`).  `StateInv` says what the state word stands for: a thread that
submits, fetches or has been handed a request has it to itself (`ClaimShape`,
`OneClaim`), and the collection is past `aio_suspend` only when the job is over
(`ReleaseShape`).  `ValidTransitions` follows action by action; `DataInv` adds that
whoever will write INIT has seen the buffer filled.

**RendezvousProofs.**  `RdvInv` says that a thread is past `Lock` or `Reacquire` and
before `Unlock` exactly if it holds the mutex, that the thread in `rp->waiter` is
blocked, has left the queue without the mutex, or is about to clear the field, and
that a thread is on the condition exactly if it is blocked.  `WaiterParked` follows
because the caller holds the mutex, so the waiter is not past `Reacquire`.
`PatientInv` adds that without deadlines every blocked thread is the one in
`rp->waiter`.  `MatchInv` adds the stacks: before its match a call has its own
arguments above the object, after it the values it is owed on top with their number
beside them (`ShapeOf`), for sequences of any length.  `MatchEffect` says what the
two copies of the second caller leave on both stacks; that the results are the
partner's arguments, and that `Match` is the `Meet` of `Exchanger` while every other
step is an `Ask`, a `Finish` or a stutter (`StepExchanges`), follow from it.  `NoWakeupLost`
(a matched caller is past its wait) follows as well and is the safety half of
`MatchedReturns`; `MutexIsReleased` is that of `CallersGetIn` and needs only that
nobody is cancelled, because the one place at which a thread stays with the mutex is
the cleanup of a cancelled one (`CancelledOnly`).  With
deadlines or cancellation `OneWaiter` and `ExchangeMatches` are false (runs
`rdv_timed_true`, `rdv_timeout_race`).

**ThreadLifeProofs.**  `LifeInv` says, for careful programs, that a thread which can
run has an open state, that only cancellation runs the cleanup, so one that left a
result left its state open (`ResultIsOpen`), and that the `join` which reads a state
is the only one to have been given that thread (`CopyIsAlone`).  `EndedAttended` is
inductive with it and needs no careful program: a joined thread's state is closed, or a
join is copying from it and closes it next (`NoStateForgotten`, the safety half of
`EndedIsClosed`).

**NvProofs.**  `Forest` says that the lists above a list form a chain.  `OneOwner` is
inductive with it; `KeptAlive` is not, because it depends on chains of REF values of
any length, and transitive closure cannot be computed in a proof without induction.
`Kept` therefore states that a closure exists: a set `up[b]` per userdata, each member
of which is referred to from inside (`Chain`), and which holds the owner of a list
above the one `b` points to (`Anchored`).  Every action gives the new closure in terms of
the old one.  The attempt to prove it with the default of `get_nvlist` kept only while
its userdata are in use failed, for the reason given in 2.5; the guard of `Gc` says
now what the duty is.

**HandlesProofs.**  The theorems are about any table, of which `HandlesAssumption` asks
only that rows are well formed.  `HandlesInv` says that what goes wrong does so through
a stray (`Blameless`), and that until then objects `m` and userdata `d` have a `Shape`:
a live object is a whole or a part of a live whole, and what it was opened through is
live (`ObjectShape`); a userdata that is no stray has its object to itself and frees it
unless it is a part (`UdShape`); a whole has such a userdata or is a block that was left
behind (`Owned`), which has no parts and no userdata (`Lost`); userdata are numbered in
the order of creation, and an object is younger than what it depends on (`Aged`), which is
why the order of `lua_close` is right; a part refers to an older userdata of the same
whole (`Referred`), so the oldest of several refers to the owner, and a whole that its
parts need is not collected (`CollectAlone`, by the least element of a set), for which
there must be no strays among them (`Strayed`); where objects depend on others the program
has duties (`Minded`).  A stray may come into being in any state, since it takes nothing
away (`AddStray`); as soon as it frees, `bad` names it.  `m` and `d` need not be those of a
state, so a function that frees one object and makes or loses another is two steps of the
proof, `FreeOne` and `BearOne` or `LoseShape`.

**ZfsIterProofs.**  The stack is followed value by value: what each `lua_remove` leaves
where (`RemoveSecond`, `RemoveAbove`, `BaseFacts`), what the pushes of a callback leave
above it (`PushedFacts`), and what `lua_pcall` takes from there (`CallFacts`), for stacks
of any height.  `IterInv` says that the stack of an iterator is the one it was entered
with, and above it fail and a message for every callback that has raised an error
(`PlainShape`, `Leftovers`), from which the results follow; that the value called is the
second from below, the callback or, in a misfit, a parameter (`CalleeShape`); and that
nothing above the six arguments of `send` is the callback (`SendShape`).
`CallbackGetsArgs` is false; what is proved in its place is what a callback gets for any
list of arguments and any number of failures before it: `Shifted`, the arguments and
leftovers from the second on and then the callback itself.

**BindingsProofs, the event loop.**  Queue, changelist and the loop's table agree
when `kevent` waits, but for stranded coroutines (`WaitShape`); before that every
event without a thread has its deletion in the changelist, and every thread that is
not stranded an event in the queue or its addition there (`PendingShape`), whichever
addition the kernel refuses, and no event or coroutine is in the list twice
(`ChangeShape`), which is what the order of the changes depends on.

**BindingsProofs, lists of requests.**  The slots are the claimed prefix of the list
(`SlotShape`); what is in a slot and not hurt is PENDING, not the kernel's, in no other
slot, and remembers a state that was true (`SlotTrue`), so a rollback from any place
restores the truth; and where the code takes the contents of a buffer for granted they
are there (`FilledTrue`).

**BindingsProofs, the sum.**  A step of `Bindings` is a step of one part and leaves the
variables of the others alone (`StepOfEach`); so a behaviour of the program is one of
every part, and the theorems of the parts hold in it together.  The hypotheses of
`ProgramsAreSafe` are the ones the configuration of the run makes: `DutiesCover`, which
TLC evaluates on the tables of all bindings (`TablesCovered`), one event per coroutine,
and no number given away by its own handler.

**Only model-checked.**  Liveness (`UnreferencedIsFreed`, `FreeTerminates`,
`MatchedReturns`, `CallersGetIn`, `EndedIsClosed`): fairness is out of the prover's
reach.  That `Pushed` is what the loop of the callbacks computes (`PushedIsLoop`): an
induction over data.

## 5. Not modelled, and the plan

Every invariant and action property of a passing run is proved, and of the liveness
properties the part that is an invariant (that of `FreeTerminates`, that a thread after
its last release is at one of the steps of `l_aiocb_free`, is `StepShape`).  What is left
to do: what a call with a deadline is guaranteed in spite of the race of 3.1, and the
components that are not modelled.

Not modelled:

- the wrappers of one call each, which have no state (last row of the inventory),
  and the value conversions (sockets, addresses, sysctl, capsicum rights);
- the terminal interfaces (`libbsddialog`, `libdpv`), which are I/O;
- `pthread.once`: its first call waits for itself and a later one trips an
  assertion (`lua_pthread.c:799`, `:869`), whatever the interleaving;
- the operations of mutexes, conditions, barriers, locks and keys, each of which is
  one call of libthr; the life of these objects is that of `RcObject`;
- what libraries and the kernel do behind a handle, other than ending it; the
  FreeBSD kernel, libthr, libzfs, liblua appear as external steps;
- checks of single arguments and what messages say: the range tests of
  `set_fib` and `set_metric` of `libifconfig` are inverted (`lua_ifconfig.c:756`,
  `:880`), and a failure of `libzfs` may be reported as the one before it
  (`lua_zfs.c:36`), but neither has a state to model;
- the size of the Lua stack, which `copyn` does not look at (`lua_pthread.c:46`);
- `foreach_mountpoint` on several threads at once: Lua gives a state that two
  threads use no meaning at all.
