# WazabiEDR driver: a TLA+ specification

The WazabiEDR driver is a Windows kernel driver in Rust (`src/src/`). It
registers kernel callbacks, turns notifications into fixed-layout events, and
hands them to a user-mode agent through an *inverted call*: the agent leaves an
`IOCTL_WEDR_GET_EVENT` request (an IRP) with the driver, and the driver
completes it when it has an event. This directory models the driver, checks the
models with TLC and proves their safety properties with TLAPS.

## 1. Inventory

| Part | Source | State it keeps | Operations |
|---|---|---|---|
| event ring | `queue/ring.rs`, `state.rs` | `QUEUE_BUF`, `QUEUE_HEAD`, `QUEUE_TAIL`, `QUEUE_LEN` | `queue_push_locked` (evicts the oldest when full), `queue_pop_locked` |
| event submission | `queue/submit.rs` | `DROP_COUNT`; a pool buffer per event | `alloc_event`, `submit_event` (hand over, fail the request, or queue) |
| IRP dispatch | `ipc/dispatch.rs`, `ipc/irp.rs` | `PENDING_IRP` | create/close, cleanup, device control, catch-all; `complete_irp`, `mark_irp_pending` |
| entry and unload | `lib.rs`, `state.rs` | one flag (or handle) per callback, the registry cookie, `CONTROL_DEVICE` | `driver_entry`, `driver_unload` |
| spin lock guard | `util/spin_lock.rs` | `QUEUE_LOCK` | acquire, drop |
| kernel callbacks | `callbacks/{process,image,thread,object,registry}.rs` | none of their own | one notify routine per kind; filters; string copies |
| event header | `callbacks/header.rs` | `TRUNC_COUNT`, `DROP_COUNT` | `make_header` swaps both with zero |
| registry prefix gate | `callbacks/registry.rs` | none | `key_has_ascii_prefix_ci`, `is_interesting_path` |
| wire format | `events.rs` | none | layouts |

**Interactions.** A callback allocates a buffer, stamps the header, fills the
event and calls `submit_event`. `submit_event` and `dispatch_device_control`
meet under `QUEUE_LOCK`. `dispatch_cleanup` and `driver_unload` go for
`PENDING_IRP` *without* the lock; the two counters are atomics nobody locks.
`driver_unload` removes the callbacks, cancels the parked request, drains the
ring, and deletes link and device, in that order. The kernel may run a callback
from the moment it is registered, before `driver_entry` has noted that it is.

**What is hard.** Four kinds of thread race over one word (`PENDING_IRP`); the
queue is tested and the request parked in two accesses; requests are completed
and buffers freed after the unlock, on the strength of ownership alone; losses
are counted in one thread and reported by another; any registration may fail;
the agent is served before loading has ended; unloading removes the callbacks one
at a time against invocations in flight, some of them spinning on the lock. The `hazards` list of
`PROJECT.json` gives each of these at its line, with the properties that cover it.

**What makes each part correct.**

- Ring: a bounded FIFO that drops the oldest, and owns exactly what is in it.
- Inverted call: no request asleep beside a queued event; each request
  completed once, with the right status and length; each buffer freed once;
  events in order; each loss counted once; unload leaves nothing behind.
- Entry and unload: nothing reachable before it is ready, nothing removed that
  the kernel does not have, nothing left after a failed load or an unload.
- Callbacks: names lent by the registry are returned; a cut string is counted,
  once; a length field tells the truth; a key whose name the registry gives is
  reported exactly when that name starts with a watched prefix.
- The driver as a whole: each part meets what the others assume of it, and
  nothing outlives the image.

## 2. Modules

| Module | What it is |
|---|---|
| `EventQueue` | abstract: a bounded drop-oldest queue with a loss counter |
| `Ring` | `queue/ring.rs`: array, indices, pool ownership; implements `EventQueue` |
| `RingProofs` | theorems about `Ring` |
| `EventFeed` | abstract: what the driver promises the agent |
| `InvertedCall` | callbacks, requests, cleanups and unload racing; implements `EventFeed` |
| `InvertedCallProofs` | theorems about `InvertedCall`: lock, owners, wake-ups |
| `LossProofs` | extends it: the fate of events, the counting of losses, the answers |
| `FeedProofs` | extends that: `InvertedCall` implements `EventFeed` |
| `Lifecycle` | `driver_entry` and `driver_unload`, step by step, with every failure |
| `LifecycleProofs` | theorems about `Lifecycle` |
| `Driver` | the two together; implements `InvertedCall` and `Lifecycle` |
| `DriverProofs` | theorems about `Driver`, with those of its two halves |
| `PathGate` | the registry prefix gate as operators, and its reference definition |
| `PathGateProofs` | theorems about `PathGate` |
| `Callbacks` | the notify routines up to `submit_event`, with the gate of `PathGate` |
| `CallbacksProofs` | theorems about `Callbacks` |
| `MCRing`, `MCInvertedCall`, `MCLifecycle`, `MCDriver`, `MCCallbacks` | instances for TLC |

An operator whose comment begins with "Mutant:" is not part of a model. It is a
plausible mistake in the definition that follows it; putting it in that
definition's place makes TLC find a property violated, which shows that the
property depends on the code it is about. `PROJECT.json` pairs each property
with its mutant.

### Ring

Variables carry the names of the statics. `QUEUE_BUF` starts uninitialised and
popped slots are not cleared, as in the code. `pool` records who owns each
buffer; the pool recycles addresses, so stale pointers to live buffers lie about
in the array. Every caller holds `QUEUE_LOCK`, so an operation is one step.
`EvictOldest` is the eviction inside `queue_push_locked`. `DROP_COUNT` wraps at
`DROP_MOD` (2^32 in the driver). `Contents`, the slots from head on, is the
refinement mapping to `EventQueue`.

### InvertedCall

Each event is one invocation of a callback, each IRP one run of
`dispatch_device_control`, each file object one run of `dispatch_cleanup`; the
unload runs once. `epc`, `ipc`, `fpc` and `upc` say where they are. A step is one
access to shared state plus the local work beside it:

| Code | Actions |
|---|---|
| `alloc_event` | `AllocEvent`, `AllocFail` |
| `make_header` | `make_header` |
| `submit_event` | `SubmitAcquire`, `SubmitSwap`; path 1 `SubmitDeliver`, `DeliverComplete`; path 2 `SubmitTooSmall`, `TooSmallCount`, `TooSmallComplete`; path 3 `SubmitEnqueue` |
| `dispatch_create_close` | `Open`, `Close` |
| `dispatch_cleanup` | `CleanupSwap`, `CleanupComplete` |
| `dispatch_device_control` | `DeviceControl`, `InvalidRequest`, `DcAcquire`; fast path `DcPop`, `FastComplete` or `FastTooSmall`, `FastTooSmallComplete`; slow path `DcPark`, `MarkPending` or `DcRefuse`, `RefuseComplete` |
| `driver_unload` | `UnloadStart` .. `UnloadRelease` |

The test of the queue and the compare-exchange that parks a request are one
step (`DcPark`, `DcRefuse`): the thread holds the lock that protects the queue,
so nothing that happens between the two accesses can change what the first one
saw. The queue is a sequence because `Ring` has been shown to implement one.
`Freed` and `complete_irp` go to the value `"corrupt"` on a second free or
completion, and the type invariant excludes that value. `gap` and `covers` are
history variables: the identities of the losses that `DROP_COUNT` and
`drop_count` count.

The kernel around the driver is taken from how the code uses it: a handle is
closed when no request on it is left, the I/O manager calls no dispatch routine
during an unload, and removing a callback waits for its running invocations.

### Lifecycle

One thread runs `driver_entry` and later `driver_unload`, one step per kernel
call or store. Both functions are straight-line code with one block per
callback, written out five times; `k` says which block the thread is in. The
blocks of the two functions come in two orders, `Registrations` and `Removals`,
which the model does not relate: the run uses the two that the code has, and the
theorems hold for any two. Each call of `driver_entry` may fail, and so may
`IoDeleteSymbolicLink`, whose status `driver_unload` discards
(`DeleteSymbolicLinkFails`): the link is then `"stale"`, a name without a device.
Removing a callback that the kernel has does not fail. `registered`, `device` and
`symlink` are the kernel's truth; `flag`, `REGISTRY_CALLBACK_COOKIE` and
`CONTROL_DEVICE` the driver's record. `Remove` sets `bugcheck` when the driver
asks for the removal of something the kernel does not have. `OBJECT_CALLBACK_HANDLE`
is null or not, so it is a flag too. Callbacks and requests run at the same time.
There are `Calls` invocations, of any callbacks, several of one callback included;
`WaitForCallback` waits for those of the callback being removed and no others.
What they do is reduced to what matters here: a submission (`CallbackSubmit`)
adds an event or takes the parked request in one step, a request (`Request`)
takes an event or is parked in one step. `DrainPop` and `DrainEnd` are the drain
loop of `driver_unload`. A registry invocation that read a wrong cookie has no
event (`HasEvent`): the configuration manager refuses the cookie and
`write_key_path_from_object` returns 0.

### Driver

`InvertedCall` lets callbacks run until one step removes them all, and takes the
driver to be loaded from the start; `Lifecycle` has the loading and the removals
one at a time, and each submission and each request in one step. `Driver` has
all the variables of both, except the ones that one module has as an abstraction
of the other: `upc` of `InvertedCall` is computed from `Lifecycle`'s `pc`
(`Stage`), and `queued` and `parked` of `Lifecycle` from `queue` and
`PENDING_IRP`. Its actions are conjunctions of theirs:

| Action | `Lifecycle` does | `InvertedCall` does |
|---|---|---|
| `EntryStep`, `RemovalStep`, `DeleteStep` | a step of `driver_entry` or `driver_unload` | nothing |
| `UnloadStart` | the same | waits until no dispatch routine runs |
| `UnloadSwap`, `UnloadPop`, `UnloadRelease` | `CancelPending`, `DrainPop`, `DrainEnd` | the same, in detail |
| `UnloadCancel`, `UnloadAcquire` | nothing (`inside` keeps the place) | the same |
| `Enter`, `ReadCookie`, `Return` | the same | nothing; `Return` only before the allocation or after the submission |
| `Allocate`, `SubmitQuietly` | nothing | the steps of `alloc_event_for` and `submit_event` |
| `Publish` | `CallbackSubmit` | the step that takes the request or queues the event |
| `Open`, `UseHandle`, `DispatchStep`, `CleanupComplete` | `Request` or `Cleanup` at `DcPop`, `DcPark` and `CleanupSwap`, else nothing | the dispatch routines |

The size of an event is that of the type its callback emits (`SizeOf`).
`ImplementsInvertedCall` and `ImplementsLifecycle` check that nothing was lost in
the abstractions. The first is about more than the mapping: `InvertedCall` moves
on from the removals only when every submission has ended, which here has to
follow from a separate wait for each callback's invocations, and its
submissions start only while callbacks are registered, which here has to follow
from each invocation's own lifetime.

### Callbacks

A call is one invocation. Key names are sequences of UTF-16 units, because the
gate reads them; other strings are their lengths; `source` is what there was
and `written` what the event says. `CopyInto` is `copy_unicode_into`,
`copy_unicode_string_into`, their copy inside `emit_image_load`, and the data
preview of `emit_set_value`. The key of a notification is fixed when the kernel
calls. Keys named by their object go through
`GetKeyObjectID`, `CopyKey`, `ReleaseKeyObjectID`, `Gate`, before
`AllocEventFor` writes the header, `CopyString` fills the fields and `Submit`
ends the call. The lookup can fail for any key, a watched one included
(`GetKeyObjectIDFails`: a null object, a cookie the configuration manager refuses,
a key without a name); the call is then `"unresolved"` and ends without an event
and without a count, as in the code. The gate is `is_interesting_path` of `PathGate`, applied to the cut
copy of a key named by its object and to the full name of a new key; `GateExact`
compares both outcomes with `Watched` on the full name, for every call but the
unresolved ones, which never reach the gate. `cuts` and `reports` are
history variables, as above.

### PathGate

`key_has_ascii_prefix_ci` refuses units beyond ASCII, takes the low byte of the
others and folds the lower-case letters; `is_interesting_path` tries every prefix.
The loop is a bounded quantifier. The reference, `Watched`, says what is meant: the
key begins with the prefix, two characters being the same when they are equal or
the two cases of one letter.

## 3. Runs

| Run | Instance | States | What it checks |
|---|---|---|---|
| `ring` | 4 buffers, capacity 3, modulus 3 | 1.1 M | `TypeOK`, `Window`, `Ownership`, `ImplementsEventQueue` |
| `inverted_call` | 3 events, 2 requests, 1 handle, capacity 2 | 448 K | `TypeOK`, `NoLostWakeup`, `OneBufferHolder`, `LossesCountedOnce`, `NoSilentLoss`, `AnswerDelivered`, `ImplementsFeed`, `AnswerIsFinal` |
| `handles` | 2 events, 2 requests, 2 handles, capacity 1 | 838 K | `OneIrpHolder`, `AnswersCorrect`, `NothingLeftBehind`, `CompletedIsUntouched` |
| `inverted_call_live` | 2 events, 2 requests, 1 handle, no symmetry | 294 K | `RequestHandled`, `ParkedServed`, `UnloadEnds` |
| `lifecycle` | the five callbacks in the driver's two orders, 2 invocations, capacity 2 | 53 K | `TypeOK`, `NoDoubleRemove`, `ReadyBeforeReachable`, `FailureLeavesNothing`, `UnloadLeavesNothing`, `QuietTeardown`, `RecordMatchesKernel`, `CookieWindow`, `UnloadEnds` |
| `callbacks` | 2 calls, buffers of 3 units, strings of 0, 2, 3, 4, six keys, two prefixes | 92 K | `TypeOK`, `NamesGivenBack`, `FieldsFaithful`, `GateExact`, `CutsCountedOnce` |
| `driver` | 2 callbacks, 2 events, 1 request, 1 handle, capacity 1, no symmetry | 355 K | `TypeOK`, `LockInitialised`, `NothingOutlivesImage`, `ImplementsInvertedCall`, `ImplementsLifecycle`, `UnloadEnds` |
| `mark_race`, `cleanup_race`, `drop_sum`, `cookie_race`, `cuts_on_wire` | as above | | the findings of section 4 |

**Bounds.** The ring has one buffer more than slots, so that it fills, evicts,
wraps and recycles; the modulus makes the counter wrap. In `InvertedCall` three
events over a queue of two fill it and evict, and two queued events have an order
to get wrong; the other runs have capacity 1. Two requests are one parked
and one refused, or one on each side of a cleanup; two handles are needed for a
cleanup to take the other handle's request. Sizes `{1, 2}` are an event that
fits and one that does not. In `Callbacks`, with room for `MAX - 1 = 2` units
(3 for the data preview), lengths 0, 2, 3, 4 are empty, exactly full, one over, and
over for the preview too; the keys are an empty one, one shorter than its prefix,
one in the other case, one that is cut, one with a unit whose low byte would match,
and one that begins with `{`, which is 32 from the watched `[` and no letter. In
`Lifecycle` two invocations are of two callbacks or of the same one. In `Driver`
two callbacks, the registry's last, are enough for one to be removed while the
other submits, and two events over a queue of one evict. Events, requests, handles and calls are
interchangeable, no definition orders them and no liveness run uses symmetry.

**Fairness.** Weak fairness of every thread that is inside the driver: the
scheduler runs kernel threads, and no critical section blocks. Weak fairness is
enough because a spin lock is held for boundedly many steps and in the instance
finitely many threads ask for it. In `Driver` and `Lifecycle` the thread that
loads and unloads is one of them, and a callback that was called returns. Nothing obliges the kernel to call a callback
or to unload the driver, nor the agent to send, close or retry: a request may
stay parked for ever if no event comes, so `ParkedServed` starts from a callback
that already has its buffer.

**Deadlock** is checked in every run; `Gone` and `Finished` are the states in
which the driver really has stopped.

## 4. Where code and documentation disagree

- `mark_race`: the request is public in `PENDING_IRP` before `mark_irp_pending`
  is called, so it can be completed, and freed, before it is marked
  (`ipc/dispatch.rs:90-106` against `ipc/irp.rs:33`).
- `cleanup_race`: `dispatch_cleanup` looks in `PENDING_IRP` once; a request of
  the same handle still on its way there is parked afterwards
  (`ipc/dispatch.rs:32-40`). It remains completable by the next event, another
  cleanup or the unload.
- `drop_sum`: a header that reports losses can be on an event that is lost, and
  the losses it reported go with it, so the `drop_count`s do not add up to "le
  total des pertes depuis la dernière remise à zéro (une reconnexion de l'agent)"
  (`doc/reference/event-types.md:36-37`). The trace has one agent that never
  reconnects.
- `cookie_race`: the registry callback can read the cookie before
  `driver_entry` has stored it (`state.rs:101`). `CookieWindow` says when: only
  between `CmRegisterCallback` and the store, never during the unload.
- `cuts_on_wire`: a key name is cut, and counted, before the gate decides
  whether there is an event (`events.rs:110`).

Remarks without a run of their own:

- A string of exactly `MAX` units is cut to `MAX - 1` and counted (`CopyInto`), as
  `ARCHITECTURE.md:272-273` says: `min(longueur, MAX - 1)`. Three other places
  describe a copy that keeps `MAX` units: `callbacks/registry.rs:187` ("Bumps
  `TRUNC_COUNT` if the resolved path was longer than `max`"), `events.rs:135-136`
  ("truncated to `COMMAND_LINE_MAX` units") and `doc/reference/event-types.md:70`
  ("Jusqu'à 512 unités UTF-16 ; au-delà, tronqué"). `FieldsFaithful` states what the
  code does: what is missing was cut at `MAX - 1`.
- `callbacks/registry.rs:153` says the spare slot below `MAX` keeps a cut path
  "distinguishable from one that exactly fills the buffer", but a string of exactly
  `MAX - 1` units has the same length as a cut one; only `trunc_count` tells them
  apart.
- A lookup that fails (`callbacks/registry.rs:213`) drops the notification of a
  watched key, and no counter says so. `GateExact` covers the keys whose name the
  registry gives.
- `lib.rs:104` ("On any failure we tear down whatever was already set up") and
  `ARCHITECTURE.md:102-119` describe a teardown on every failure. The code tears down
  when the device or the link fails; a registration that fails is skipped
  (`lib.rs:169`) and the driver loads without it. `FailureLeavesNothing` is about
  the former, `RecordMatchesKernel` about the latter.
- `lib.rs:333` discards the status of `IoDeleteSymbolicLink`. If it fails, the name
  outlives the device and the image. `UnloadLeavesNothing` allows exactly that.
- `doc/reference/event-types.md:7-14` describes version 3 of the events, without
  `trunc_count`; the code is at version 6 and has it (`events.rs:17`).

## 5. Proofs

Every safety property that a passing run checks, invariant, action property or
refinement, is also a theorem: the run shows it for one instance, the theorem for
any number of callbacks, events, requests and handles, any sizes, any capacity and
any orders of registration and removal.

**Assumptions**, all named, in the modules that declare the constants:

- the capacity, the modulus and `MAX` are positive naturals, event sizes too;
- the kinds of thread are disjoint and differ from `NULL`; there are finitely
  many events, and finitely many calls in `Callbacks`;
- `OrderAssumption`: `driver_entry` registers each callback once, the registry's
  among them, and `driver_unload` has one removal for each, in any order; `NullAssumption`: `NULL` is neither a cookie nor a device;
- `PrefixesAssumption`: prefixes are ASCII, not empty and shorter than the buffer, as the
  twelve in the code are; `KeysAssumption`: keys are sequences of 16-bit units;
- `SizeAssumption` (`Driver`): each callback's event has one of the sizes.

Each component's proof has the same shape. An inductive invariant, a
conjunction of named parts, was checked by TLC on a small instance. Each part
has a step lemma with one case per action, and most actions leave most parts
alone for a reason stated once in a frame lemma.

**Ring** (`RingProofs`: `RingTypeCorrect`, `RingIndicesAgree`, `RingSafe`,
`RingRefines`). The inductive invariant is `TypeOK /\ Window /\ Ownership`: none of
the three is inductive alone. `Window` needs the ranges, and the double-free half of
`TypeOK` needs `Ownership`: a push frees what the head points at, so that slot must
hold a queued buffer. The lemmas on `Pos` settle the modular arithmetic once:
positions within one window are distinct, and a step of the head shifts them.
Refinement follows action by action from what each does to `Contents`.

**Owners** (`InvertedCallProofs`: `TypeCorrect`, `NoWakeupIsLost`,
`RequestsHaveOneHolder`, `BuffersHaveOneHolder`, `UnloadLeavesNothing`):

- `LockInv`: `lock` names a thread exactly while its program counter is between
  acquire and release. Mutual exclusion is what all the rest uses.
- `WakeupInv`: a parked request means an empty queue, and from a callback's swap
  until it releases the lock nothing is parked. `NoLostWakeup` by itself is not
  inductive: `SubmitEnqueue` needs the second half.
- `LocalInv`: what each thread's program counter says about its locals.
- `IrpInv`: an owed request has a holder, and *any two holders are equal*.
  `Held` and `Holders` restate "exactly one" in that first-order form; every
  action hands a request from one holder to one other.
- `BufferInv`: the same argument for buffers, with `Distinct` for the
  queue, whose positions are holders too.
- `UnloadInv`: what is finished at each stage of `driver_unload`.

**Losses and answers** (`LossProofs`: `LossesAreCountedOnce`, `NoEventVanishes`,
`AnswersAreCorrect`). On top of the owners, `LossInv` adds what becomes of an event
that nobody owns any more:

- `HeaderInv`: `DROP_COUNT` and the headers count pairwise disjoint sets, so the
  atomic swap moves a count and never splits or repeats it.
- `LostInv`: an event counted as lost has no live buffer, and its callback is past the
  point where it could be counted again. Without it nothing excludes that
  an event is counted by the too-small path and evicted as well.
- `CopyInv`: an event is in at most one `SystemBuffer`, fits it, and is then not
  counted as lost.
- `StatusInv`: which status goes with which buffer and length.
- `FateInv`: a returned event whose buffer is freed was delivered, counted or
  drained; this is `NoSilentLoss` in the form that each action preserves.

**The feed** (`FeedProofs`: `AnswersAreDelivered`, `FeedRefines`, `AnswersAreFinal`,
`CompletedStaysPut`). The abstract answer of a request is fixed long before
`complete_irp` is called, by the one step that claims it: a swap of `PENDING_IRP`
or the pop of an event. `FeedInv` adds `ClaimInv` (a request is claimed once, and
then is not parked), `FreshInv` (who has not come that far has claimed nothing)
and `ToldInv` (a status agrees with the claim). Then each action is a step of
`EventFeed` or a stutter:

| `EventFeed` | `InvertedCall` |
|---|---|
| `Publish` | `SubmitEnqueue` |
| `Serve` | `SubmitSwap`, with a request in the word |
| `Take` | `DcPop` |
| `Wait`, `Refuse`, `Reject` | `DcPark`, `DcRefuse`, `InvalidRequest` |
| `Cancel` | `CleanupSwap`, `UnloadSwap` |
| `Discard` | `UnloadPop` |

`AnswersAreFinal` and `CompletedStaysPut` are the action properties behind the
code's reliance on ownership after the unlock: nobody revises an answer, and nobody
writes the buffer or the status of a request that is the I/O manager's again.
`CompletedIsUntouched` leaves `marked` out on purpose: that write can come after
the completion, which is the finding `mark_race`.

**Entry and unload** (`LifecycleProofs`: `TypeCorrect`, `RemovalIsSafe`,
`NothingReachedTooEarly`, `FailedLoadLeavesNothing`, `UnloadIsComplete`,
`TeardownIsQuiet`, `RecordIsRight`, `OnlyEarlyReadsMiss`). `RecordInv` is the heart.
Its `RegisterInv` says that flag and kernel agree on the callbacks behind the block
that `driver_entry` is in and that those ahead are absent; its `RemovalInv` says
the same of `driver_unload`, with the two the other way round; in the block itself
each program counter says which of the two words is ahead. That the two orders name
the same callbacks carries the first over to the second. `BlockInv` keeps the
thread within the blocks there are. `CookieInv` says the cookie is stored whenever
the registry callback is registered, but for the moment before the store, and stays while
its removal waits for invocations; `CookieWindow` follows from that last part.
`DeviceInv` and `TrafficInv` do the same for device and link, and for the events.
`RunInv` ties invocations to it: one that runs is of
a registered callback or of the one whose removal is waiting, so once the last
wait has ended none is left.

**Callbacks** (`CallbacksProofs`: `CallbacksTypeCorrect`, `NoNameIsLeaked`,
`EventsAreFaithful`, `GateDecidesByName`, `CutsAreCountedOnce`). `LentInv` says a name
is out exactly between the two calls that lend and return it. `TodoInv` says that
each string of an event is copied once, and that a key already resolved is not
copied again; without it a second copy of a field could count the same cut
twice. `FieldInv` and `CutInv` carry the accounting, and `GateInv` the link from
the copy on the stack to the key, to which `GateIsExact` and `CutKeepsDecision`
apply. `GateDecidesByName` is about calls whose lookup gave a name: a failed lookup
keeps its key and ends unresolved, so nothing is claimed of it.

**The prefix gate** (`PathGateProofs`: `GateIsExact`, `CutKeepsDecision`). For every
key of 16-bit units and every set of ASCII prefixes, the code's test decides
`Watched`; and the code's test on a copy cut to at least as many units as the
longest prefix still decides `Watched` of the full key. The lemma
`CutKeepsPrefixes` says that such a cut loses no prefix. `FoldIsSameLetter` is the heart: for a unit and an ASCII byte,
passing the range test and agreeing after the fold is being the same letter.
`PrefixTest` lifts it to a prefix.

**The whole driver** (`DriverProofs`: `CallsRefined`, `LoadingRefined`,
`DriverTypeCorrect`, `LockIsInitialised`, `NothingIsLeft`, and `DriverServes`,
`DriverUnloads`, `DriverFeeds`). The two refinements rest on each other: that a removal
which ends is a step of `InvertedCall` needs `Lifecycle`'s invariant (no callback
runs any more), and that a request is a step of `Lifecycle` needs
`InvertedCall`'s (no dispatch routine runs once the unload does). So one induction
carries both invariants and `LinkInv`, which ties the program counters of the two
halves together: `CallLink` (an invocation that is out is not in the middle of a
submission, and one that has yet to publish has something to publish), `AgentLink` (no
handle, request or event before the link exists) and `DrainLink`. The module takes
the proof modules of the halves by `INSTANCE`, so their step lemmas do the work, and
by the refinements their theorems become theorems of the driver: `DriverServes`,
`DriverUnloads` and `DriverFeeds` state them.

**Only model-checked:** liveness (`RequestHandled`, `ParkedServed`, and
`UnloadEnds` of three modules), which needs fairness and `ENABLED` and is beyond the
prover. The five properties of section 4 are false.

## 6. Not modelled

- IRQL, paging and the memory model below sequential consistency: every shared
  word is an atomic or is guarded by the lock.
- The packed byte layout of events, timestamps, names in the device namespace,
  log lines and their rate limit.
- `fill_parent_image_path`, `fill_user_sid` and `resolve_integrity_level`:
  dead code, `emit_process_create` no longer calls them, so no state of the
  driver depends on them.
- String copies inside `Driver`: `Callbacks` has them, and they touch nothing the
  other threads read but `TRUNC_COUNT`.
- Crash recovery: the driver persists nothing.
- Build script, INF file and installation.

## 7. Plan

In place, most important first:

1. `Ring` with `EventQueue`: the queue that everything else abstracts.
2. `InvertedCall` with `EventFeed`: the protocol.
3. `Lifecycle`: load, failure, unload.
4. `Callbacks` with `PathGate`: filters, gate, truncation, counters.
5. `Driver`: `Lifecycle` and `InvertedCall` composed.

With the proofs of section 5 the safety of all five is proved. Left: what does hold
where section 4 shows that the documented property does not. When a parked
request can outlive the cleanup of its handle, and that it is still completed by
one of the remaining parties; which losses a missing `drop_count` can hide.
`CookieWindow` is such a property, for the cookie.
