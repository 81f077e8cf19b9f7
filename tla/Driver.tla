------------------------------- MODULE Driver -------------------------------
(***************************************************************************)
(* The whole driver: the threads of module InvertedCall, while the thread  *)
(* of module Lifecycle loads and unloads what they run on.                 *)
(*                                                                         *)
(* InvertedCall takes two things for granted: that callbacks can run until *)
(* driver_unload has removed them all, in one step, and that the driver is *)
(* loaded from the start.  Lifecycle removes them one at a time, and       *)
(* registers them while the agent is already using the device; but it      *)
(* reduces a submission and a request to one step each.  Here both run in  *)
(* full and share what they share in the code: a callback submits only     *)
(* while its invocation runs, a removal waits for the invocations of that  *)
(* callback only, and driver_unload cancels and drains what the threads    *)
(* left.  ImplementsInvertedCall and ImplementsLifecycle then say that     *)
(* each module is right to abstract from the other.                        *)
(***************************************************************************)
EXTENDS Naturals, Sequences, FiniteSets

CONSTANTS
  Registrations, Removals,
  REGISTRY, COOKIE,                 \* as in Lifecycle
  Events, Irps, Files, Sizes,       \* as in InvertedCall
  QUEUE_CAP, UNLOAD, NULL,
  SizeOf                            \* callback c: size_of its event type

Callbacks == {Registrations[j] : j \in DOMAIN Registrations}

\* As in the two modules; and the event of every callback has one of the sizes.
ASSUME OrderAssumption ==
  /\ Registrations \in Seq(Callbacks)
  /\ Removals \in Seq(Callbacks)
  /\ \A i, j \in DOMAIN Registrations : Registrations[i] = Registrations[j] => i = j
  /\ \A i, j \in DOMAIN Removals : Removals[i] = Removals[j] => i = j
  /\ \A c \in Callbacks : \E j \in DOMAIN Removals : Removals[j] = c
  /\ REGISTRY \in Callbacks
ASSUME CapAssumption == QUEUE_CAP \in Nat \ {0}
ASSUME SizesAssumption == Sizes \subseteq Nat \ {0}
ASSUME ThreadsAssumption ==
  /\ Events \cap Irps = {} /\ Events \cap Files = {} /\ Irps \cap Files = {}
  /\ UNLOAD \notin Events \cup Irps \cup Files
  /\ NULL \notin Events \cup Irps \cup Files \cup {UNLOAD}
ASSUME FiniteAssumption == IsFiniteSet(Events)
ASSUME NullAssumption == NULL # COOKIE /\ NULL # "device"
ASSUME SizeAssumption == \A c \in Callbacks : SizeOf[c] \in Sizes

VARIABLES
  lock, queue, PENDING_IRP, DROP_COUNT, epc, size, drop_count, taken, pool,
  ipc, file, outlen, slot, sysbuf, io, status, info, marked, fpc, ftaken,
  utaken, gap, covers,              \* as in InvertedCall
  pc, k, MajorFunction, QUEUE_LOCK, device, CONTROL_DEVICE, symlink, registered,
  flag, REGISTRY_CALLBACK_COOKIE, cb, of, seen,
  bugcheck,                         \* as in Lifecycle
  inside                            \* where driver_unload is between the swap of
                                    \* PENDING_IRP and the end of the drain

traffic == <<lock, queue, PENDING_IRP, DROP_COUNT, epc, size, drop_count, taken, pool,
             ipc, file, outlen, slot, sysbuf, io, status, info, marked, fpc, ftaken,
             utaken, gap, covers>>
thread == <<pc, k, inside>>
setup == <<MajorFunction, QUEUE_LOCK, device, CONTROL_DEVICE, symlink, registered, flag,
           REGISTRY_CALLBACK_COOKIE, bugcheck>>
calls == <<cb, of, seen>>
life == <<thread, setup, calls>>
vars == <<traffic, life>>

\* InvertedCall's view of the loading and unloading thread.
Stage ==
  CASE pc \in {"swap", "remove", "wait"} -> "deregister"
    [] pc = "cancel" -> "cancel"
    [] pc = "drain" -> inside
    [] pc \in {"unlink", "delete", "unloaded"} -> "unloaded"
    [] OTHER -> "running"

IC == INSTANCE InvertedCall WITH upc <- Stage

\* Lifecycle's view of the queue and of the parked request.
LC == INSTANCE Lifecycle WITH
  Calls <- Events, queued <- Len(queue), parked <- (PENDING_IRP # NULL)

Init ==
  /\ lock = NULL
  /\ queue = << >>
  /\ PENDING_IRP = NULL
  /\ DROP_COUNT = 0
  /\ utaken = NULL
  /\ gap = {}
  /\ pc = "entry"
  /\ k = 1
  /\ inside = "none"
  /\ IC!Init
  /\ LC!Init

----------------------------------------------------------------------------
(* The thread that loads and unloads the driver. *)

\* driver_entry.
EntryStep ==
  /\ UNCHANGED <<traffic, inside>>
  /\ LC!EntryStep

\* The I/O manager calls driver_unload when no dispatch routine is running.
UnloadStart ==
  /\ \A i \in Irps : ipc[i] \in {"idle", "returned"}
  /\ \A f \in Files : fpc[f] # "cleanup"
  /\ UNCHANGED <<traffic, inside>>
  /\ LC!UnloadStart

\* The callbacks are removed one at a time.
RemovalStep ==
  /\ UNCHANGED <<traffic, inside>>
  /\ LC!SwapFlag \/ LC!Remove \/ LC!WaitForCallback

\* The parked request is swapped out ...
UnloadSwap ==
  /\ pc = "cancel"
  /\ pc' = "drain"
  /\ inside' = "cancelling"
  /\ UNCHANGED <<k, setup, calls>>
  /\ IC!UnloadSwap

\* ... and cancelled ...
UnloadCancel ==
  /\ inside = "cancelling"
  /\ inside' = "drain"
  /\ UNCHANGED <<pc, k, setup, calls>>
  /\ IC!UnloadCancel

\* ... the queue is drained under the lock ...
UnloadAcquire ==
  /\ inside = "drain"
  /\ inside' = "draining"
  /\ UNCHANGED <<pc, k, setup, calls>>
  /\ IC!UnloadAcquire

UnloadPop ==
  /\ UNCHANGED life
  /\ IC!UnloadPop

UnloadRelease ==
  /\ inside = "draining"
  /\ inside' = "none"
  /\ pc' = "unlink"
  /\ UNCHANGED <<k, setup, calls>>
  /\ IC!UnloadRelease

\* ... and the names go.
DeleteStep ==
  /\ UNCHANGED <<traffic, inside>>
  /\ LC!DeleteSymbolicLink \/ LC!DeleteSymbolicLinkFails \/ LC!DeleteDevice

UnloadStep ==
  \/ RemovalStep
  \/ UnloadSwap \/ UnloadCancel
  \/ UnloadAcquire \/ UnloadPop \/ UnloadRelease
  \/ DeleteStep

----------------------------------------------------------------------------
(* An invocation of a callback. *)

\* The kernel calls a registered callback: one invocation for each event.
Enter(e, c) ==
  /\ IC!Idle(e)
  /\ UNCHANGED <<traffic, inside>>
  /\ LC!CallbackEnter(e, c)

\* The registry callback resolves its key before it allocates.
ReadCookie(e) ==
  /\ IC!Idle(e)
  /\ UNCHANGED <<traffic, inside>>
  /\ LC!ReadCookie(e)

\* The callback has something to report, and allocates an event of its own type.
Allocate(e) ==
  /\ LC!HasEvent(e)
  /\ UNCHANGED life
  /\ IC!AllocFail(e) \/ IC!AllocEvent(e, SizeOf[of[e]])

\* The steps of a submission that leave the queue and PENDING_IRP as they are.
SubmitQuietly(e) ==
  /\ UNCHANGED life
  /\ \/ IC!make_header(e)
     \/ IC!SubmitAcquire(e)
     \/ PENDING_IRP = NULL /\ IC!SubmitSwap(e)
     \/ IC!SubmitDeliver(e)
     \/ IC!DeliverComplete(e)
     \/ IC!SubmitTooSmall(e)
     \/ IC!TooSmallCount(e)
     \/ IC!TooSmallComplete(e)

\* The step of it that takes the parked request, or queues the event.
Publish(e) ==
  /\ cb' = [cb EXCEPT ![e] = "submitted"]
  /\ UNCHANGED <<thread, setup, of, seen>>
  /\ \/ PENDING_IRP # NULL /\ IC!SubmitSwap(e)
     \/ IC!SubmitEnqueue(e)

\* Mutant: the submission is left to another thread, and the callback returns.
ReturnEarly(e) ==
  /\ UNCHANGED <<traffic, inside>>
  /\ LC!CallbackReturn(e)

\* The callback returns when it had nothing to report, or has submitted it.
Return(e) ==
  /\ IC!Idle(e) \/ IC!Returned(e)
  /\ UNCHANGED <<traffic, inside>>
  /\ LC!CallbackReturn(e)

CallbackStep(e) ==
  \/ ReadCookie(e)
  \/ Allocate(e)
  \/ SubmitQuietly(e)
  \/ Publish(e)
  \/ Return(e)

----------------------------------------------------------------------------
(* The agent. *)

\* It can open the device from the moment the link exists, before driver_entry
\* has registered anything.
Open(f) ==
  /\ LC!Reachable
  /\ UNCHANGED life
  /\ IC!Open(f)

\* What it can do with an open handle.
UseHandle(f) ==
  /\ UNCHANGED life
  /\ \/ IC!CleanupSwap(f)
     \/ IC!Close(f)
     \/ \E i \in Irps, n \in Sizes : IC!DeviceControl(i, f, n)

DispatchStep(i) ==
  /\ UNCHANGED life
  /\ IC!DispatchStep(i)

CleanupComplete(f) ==
  /\ UNCHANGED life
  /\ IC!CleanupComplete(f)

----------------------------------------------------------------------------
(* The specification. *)

\* The image is gone.
Gone ==
  /\ pc \in {"failed", "unloaded"}
  /\ UNCHANGED vars

Next ==
  \/ EntryStep
  \/ UnloadStart
  \/ UnloadStep
  \/ \E e \in Events : CallbackStep(e) \/ \E c \in Callbacks : Enter(e, c)
  \/ \E f \in Files : Open(f) \/ UseHandle(f) \/ CleanupComplete(f)
  \/ \E i \in Irps : DispatchStep(i)
  \/ Gone

Spec == Init /\ [][Next]_vars

\* Every thread inside the driver is scheduled again; nothing makes the kernel
\* unload the driver or call a callback, or the agent use its handle.
FairSpec ==
  /\ Spec
  /\ WF_vars(EntryStep)
  /\ WF_vars(UnloadStep)
  /\ \A e \in Events : WF_vars(CallbackStep(e))
  /\ \A i \in Irps : WF_vars(DispatchStep(i))
  /\ \A f \in Files : WF_vars(CleanupComplete(f))

----------------------------------------------------------------------------
(* Properties. *)

\* The type invariant.  As in InvertedCall it leaves out "corrupt": with the
\* callbacks registered and removed one by one, still no buffer is freed twice and
\* no request completed twice.
TypeOK ==
  /\ IC!TypeOK
  /\ LC!TypeOK
  /\ inside \in {"none", "cancelling", "drain", "draining"}

\* Registering the callbacks one by one while the agent is already served, and
\* removing them one by one while the others still submit, comes to what
\* InvertedCall assumes of driver_entry and driver_unload: so what is shown of
\* InvertedCall holds of a driver that is being loaded or unloaded.
ImplementsInvertedCall == IC!Spec

\* The threads, step by step, come to what Lifecycle assumes of callbacks and
\* requests: a submission adds one event or takes the parked request while its
\* callback runs, a request takes one event or is parked while the device is
\* reachable.
ImplementsLifecycle == LC!Spec

\* QUEUE_LOCK is never taken before driver_entry has initialised it, though
\* requests and callbacks arrive while driver_entry runs.
LockInitialised == lock # NULL => QUEUE_LOCK

\* When the image goes, whether the load failed or the unload ended, no thread is in
\* it, the kernel has no pointer into it, every request is answered, every event
\* buffer is given back, and the name userland opens is gone unless the kernel
\* refused to delete it ("The order MUST be: 1. Stop new events at the
\* source ... 4. Tear down the symlink + device", driver_unload).
NothingOutlivesImage ==
  pc \in {"failed", "unloaded"} =>
    /\ registered = {} /\ ~device /\ symlink # "present"
    /\ lock = NULL
    /\ \A e \in Events : cb[e] = "out" /\ pool[e] # "live"
    /\ \A i \in Irps : io[i] # "owned" /\ ipc[i] \in {"idle", "returned"}
    /\ \A f \in Files : fpc[f] # "cleanup"

\* An unload ends once begun, though each removal waits for callbacks that may be
\* spinning on the lock.
UnloadEnds == pc = "swap" ~> pc = "unloaded"
=============================================================================
