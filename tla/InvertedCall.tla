---------------------------- MODULE InvertedCall ----------------------------
(***************************************************************************)
(* The inverted call between the driver and its agent.  The agent leaves   *)
(* an IOCTL_WEDR_GET_EVENT request (an IRP) with the driver; a kernel      *)
(* callback that produces an event completes it.  With no request waiting  *)
(* events queue up; with no event queued a request is parked in            *)
(* PENDING_IRP.                                                            *)
(*                                                                         *)
(* Every event is one invocation of a kernel callback, every IRP one run   *)
(* of dispatch_device_control, every file object one run of                *)
(* dispatch_cleanup, and driver_unload runs once; all of them run          *)
(* concurrently.  They share QUEUE_LOCK, the queue, the PENDING_IRP word   *)
(* and the DROP_COUNT word; the last two are atomics that are also touched *)
(* without the lock.  A step is one access to that shared state together   *)
(* with the local work next to it.                                         *)
(*                                                                         *)
(* The queue is a sequence here: module Ring shows that the array and its  *)
(* indices implement one.                                                  *)
(***************************************************************************)
EXTENDS Integers, Sequences, FiniteSets

CONSTANTS
  Events,     \* callback invocations, each with the event it builds
  Irps,       \* GET_EVENT requests
  Files,      \* handles the agent opens
  Sizes,      \* event sizes and output buffer lengths
  QUEUE_CAP,  \* the most events the queue keeps
  UNLOAD,     \* the thread that runs driver_unload
  NULL        \* the null pointer

ASSUME CapAssumption == QUEUE_CAP \in Nat \ {0}
ASSUME SizesAssumption == Sizes \subseteq Nat \ {0}
ASSUME ThreadsAssumption ==
  /\ Events \cap Irps = {} /\ Events \cap Files = {} /\ Irps \cap Files = {}
  /\ UNLOAD \notin Events \cup Irps \cup Files
  /\ NULL \notin Events \cup Irps \cup Files \cup {UNLOAD}
ASSUME FiniteAssumption == IsFiniteSet(Events)

VARIABLES
  lock,         \* QUEUE_LOCK: the thread that holds it, or NULL
  queue,        \* queued events, oldest first
  PENDING_IRP,  \* the parked request, or NULL
  DROP_COUNT,   \* losses no header has reported yet
  epc,          \* event e: where its callback is
  size,         \* event e: its size
  drop_count,   \* event e: the drop_count field of its header
  taken,        \* event e: the request its callback swapped out of PENDING_IRP
  pool,         \* event e: its pool buffer
  ipc,          \* request i: where its dispatch routine is
  file,         \* request i: the handle it was sent on
  outlen,       \* request i: OutputBufferLength
  slot,         \* request i: the event its dispatch routine popped
  sysbuf,       \* request i: the event copied into SystemBuffer
  io,           \* request i: who has it, the driver ("owned") or the agent
  status,       \* request i: IoStatus.Status
  info,         \* request i: IoStatus.Information
  marked,       \* request i: SL_PENDING_RETURNED, and whether it came too late
  fpc,          \* file f: open, in dispatch_cleanup, cleaned up, closed
  ftaken,       \* file f: the request its cleanup swapped out of PENDING_IRP
  upc,          \* where driver_unload is
  utaken,       \* the request driver_unload swapped out of PENDING_IRP
  gap,          \* history: the lost events that DROP_COUNT counts
  covers        \* history: the lost events the header of e reports

shared == <<lock, queue, PENDING_IRP>>
loss   == <<DROP_COUNT, gap>>
evVars == <<epc, size, drop_count, taken, covers>>
reqVars == <<ipc, file, outlen, slot, marked>>
ioVars == <<sysbuf, io, status, info>>
fileVars == <<fpc, ftaken>>
unloadVars == <<upc, utaken>>
vars == <<shared, loss, evVars, pool, reqVars, ioVars, fileVars, unloadVars>>

Init ==
  /\ lock = NULL
  /\ queue = << >>
  /\ PENDING_IRP = NULL
  /\ DROP_COUNT = 0
  /\ epc = [e \in Events |-> "idle"]
  /\ size = [e \in Events |-> 0]
  /\ drop_count = [e \in Events |-> 0]
  /\ taken = [e \in Events |-> NULL]
  /\ pool = [e \in Events |-> "none"]
  /\ ipc = [i \in Irps |-> "idle"]
  /\ file = [i \in Irps |-> NULL]
  /\ outlen = [i \in Irps |-> 0]
  /\ slot = [i \in Irps |-> NULL]
  /\ sysbuf = [i \in Irps |-> NULL]
  /\ io = [i \in Irps |-> "agent"]
  /\ status = [i \in Irps |-> "none"]
  /\ info = [i \in Irps |-> 0]
  /\ marked = [i \in Irps |-> "no"]
  /\ fpc = [f \in Files |-> "unopened"]
  /\ ftaken = [f \in Files |-> NULL]
  /\ upc = "running"
  /\ utaken = NULL
  /\ gap = {}
  /\ covers = [e \in Events |-> {}]

----------------------------------------------------------------------------
(* Helpers. *)

\* A callback can run until its registration is gone.
CallbacksRegistered == upc \in {"running", "deregister"}

\* The I/O manager sends requests to a driver that is not being unloaded.
Loaded == upc = "running"

\* ExFreePool on a buffer that is not allocated corrupts the pool.
Freed(p, e) == [p EXCEPT ![e] = IF @ = "live" THEN "freed" ELSE "corrupt"]

\* complete_irp gives the request back; doing it twice corrupts memory.
complete_irp(i, st, n) ==
  /\ io' = [io EXCEPT ![i] = IF @ = "owned" THEN "done" ELSE "corrupt"]
  /\ status' = [status EXCEPT ![i] = st]
  /\ info' = [info EXCEPT ![i] = n]

\* One more loss: fetch_add on DROP_COUNT.
CountLoss(e) ==
  /\ DROP_COUNT' = DROP_COUNT + 1
  /\ gap' = gap \cup {e}

Idle(e) == epc[e] = "idle"
Returned(e) == epc[e] \in {"returned", "oom"}

----------------------------------------------------------------------------
(* A kernel callback: alloc_event_for, then submit_event. *)

\* alloc_event gets a buffer; the size is that of the callback's event type.
AllocEvent(e, n) ==
  /\ CallbacksRegistered
  /\ Idle(e)
  /\ epc' = [epc EXCEPT ![e] = "allocated"]
  /\ size' = [size EXCEPT ![e] = n]
  /\ pool' = [pool EXCEPT ![e] = "live"]
  /\ UNCHANGED <<shared, loss, drop_count, taken, covers, reqVars, ioVars, fileVars,
                 unloadVars>>

\* alloc_event gets none: the event is lost, and counted.
AllocFail(e) ==
  /\ CallbacksRegistered
  /\ Idle(e)
  /\ epc' = [epc EXCEPT ![e] = "oom"]
  /\ CountLoss(e)
  /\ UNCHANGED <<shared, size, drop_count, taken, covers, pool, reqVars, ioVars,
                 fileVars, unloadVars>>

\* Mutant: DROP_COUNT is read and not reset.
MakeHeaderByLoad(e) ==
  /\ epc[e] = "allocated"
  /\ epc' = [epc EXCEPT ![e] = "stamped"]
  /\ drop_count' = [drop_count EXCEPT ![e] = DROP_COUNT]
  /\ covers' = [covers EXCEPT ![e] = gap]
  /\ UNCHANGED <<shared, loss, size, taken, pool, reqVars, ioVars, fileVars, unloadVars>>

\* make_header swaps DROP_COUNT with zero: this event reports those losses.
make_header(e) ==
  /\ epc[e] = "allocated"
  /\ epc' = [epc EXCEPT ![e] = "stamped"]
  /\ drop_count' = [drop_count EXCEPT ![e] = DROP_COUNT]
  /\ covers' = [covers EXCEPT ![e] = gap]
  /\ DROP_COUNT' = 0
  /\ gap' = {}
  /\ UNCHANGED <<shared, size, taken, pool, reqVars, ioVars, fileVars, unloadVars>>

\* submit_event takes the lock ...
SubmitAcquire(e) ==
  /\ epc[e] = "stamped"
  /\ lock = NULL
  /\ lock' = e
  /\ epc' = [epc EXCEPT ![e] = "locked"]
  /\ UNCHANGED <<queue, PENDING_IRP, loss, size, drop_count, taken, covers, pool,
                 reqVars, ioVars, fileVars, unloadVars>>

\* Mutant: PENDING_IRP is read and not swapped.
SubmitPeek(e) ==
  /\ epc[e] = "locked"
  /\ taken' = [taken EXCEPT ![e] = PENDING_IRP]
  /\ epc' = [epc EXCEPT ![e] = "swapped"]
  /\ UNCHANGED <<shared, loss, size, drop_count, covers, pool, reqVars, ioVars,
                 fileVars, unloadVars>>

\* ... and swaps the parked request, if any, out of PENDING_IRP.
SubmitSwap(e) ==
  /\ epc[e] = "locked"
  /\ taken' = [taken EXCEPT ![e] = PENDING_IRP]
  /\ PENDING_IRP' = NULL
  /\ epc' = [epc EXCEPT ![e] = "swapped"]
  /\ UNCHANGED <<lock, queue, loss, size, drop_count, covers, pool, reqVars, ioVars,
                 fileVars, unloadVars>>

\* Mutant: a buffer one unit short passes.
FitsOffByOne(e, i) == outlen[i] + 1 >= size[e]

Fits(e, i) == outlen[i] >= size[e]

\* Mutant: the event is not copied.
SubmitDeliverNoCopy(e) ==
  /\ epc[e] = "swapped"
  /\ taken[e] # NULL
  /\ Fits(e, taken[e])
  /\ lock' = NULL
  /\ epc' = [epc EXCEPT ![e] = "delivering"]
  /\ UNCHANGED <<queue, PENDING_IRP, loss, size, drop_count, taken, covers, pool,
                 reqVars, ioVars, fileVars, unloadVars>>

\* Path 1: copy into the request's buffer and release the lock ...
SubmitDeliver(e) ==
  /\ epc[e] = "swapped"
  /\ taken[e] # NULL
  /\ Fits(e, taken[e])
  /\ sysbuf' = [sysbuf EXCEPT ![taken[e]] = e]
  /\ lock' = NULL
  /\ epc' = [epc EXCEPT ![e] = "delivering"]
  /\ UNCHANGED <<queue, PENDING_IRP, loss, size, drop_count, taken, covers, pool,
                 reqVars, io, status, info, fileVars, unloadVars>>

\* ... then free the event's buffer and complete the request.
DeliverComplete(e) ==
  /\ epc[e] = "delivering"
  /\ pool' = Freed(pool, e)
  /\ complete_irp(taken[e], "SUCCESS", size[e])
  /\ epc' = [epc EXCEPT ![e] = "returned"]
  /\ UNCHANGED <<shared, loss, size, drop_count, taken, covers, reqVars, sysbuf,
                 fileVars, unloadVars>>

\* Mutant: the event is not freed.
SubmitTooSmallLeaks(e) ==
  /\ epc[e] = "swapped"
  /\ taken[e] # NULL
  /\ ~Fits(e, taken[e])
  /\ lock' = NULL
  /\ epc' = [epc EXCEPT ![e] = "dropping"]
  /\ UNCHANGED <<queue, PENDING_IRP, loss, size, drop_count, taken, covers, pool, reqVars,
                 ioVars, fileVars, unloadVars>>

\* Path 2: the buffer is too small.  Release the lock and free the event ...
SubmitTooSmall(e) ==
  /\ epc[e] = "swapped"
  /\ taken[e] # NULL
  /\ ~Fits(e, taken[e])
  /\ lock' = NULL
  /\ pool' = Freed(pool, e)
  /\ epc' = [epc EXCEPT ![e] = "dropping"]
  /\ UNCHANGED <<queue, PENDING_IRP, loss, size, drop_count, taken, covers, reqVars,
                 ioVars, fileVars, unloadVars>>

\* Mutant: the loss is not counted.
TooSmallUncounted(e) ==
  /\ epc[e] = "dropping"
  /\ epc' = [epc EXCEPT ![e] = "failing"]
  /\ UNCHANGED <<shared, loss, size, drop_count, taken, covers, pool, reqVars, ioVars,
                 fileVars, unloadVars>>

\* ... count the loss ...
TooSmallCount(e) ==
  /\ epc[e] = "dropping"
  /\ CountLoss(e)
  /\ epc' = [epc EXCEPT ![e] = "failing"]
  /\ UNCHANGED <<shared, size, drop_count, taken, covers, pool, reqVars, ioVars,
                 fileVars, unloadVars>>

\* Mutant: the request is not completed.
TooSmallForgotten(e) ==
  /\ epc[e] = "failing"
  /\ epc' = [epc EXCEPT ![e] = "returned"]
  /\ UNCHANGED <<shared, loss, size, drop_count, taken, covers, pool, reqVars, ioVars,
                 fileVars, unloadVars>>

\* ... and fail the request with the size it needs.
TooSmallComplete(e) ==
  /\ epc[e] = "failing"
  /\ complete_irp(taken[e], "BUFFER_TOO_SMALL", size[e])
  /\ epc' = [epc EXCEPT ![e] = "returned"]
  /\ UNCHANGED <<shared, loss, size, drop_count, taken, covers, pool, reqVars, sysbuf,
                 fileVars, unloadVars>>

\* Path 3: nobody waits.  Queue the event, evicting the oldest one if the queue
\* is full, and release the lock.
SubmitEnqueue(e) ==
  /\ epc[e] = "swapped"
  /\ taken[e] = NULL
  /\ \/ /\ Len(queue) = QUEUE_CAP
        /\ queue' = Append(Tail(queue), e)
        /\ pool' = Freed(pool, Head(queue))
        /\ CountLoss(Head(queue))
     \/ /\ Len(queue) # QUEUE_CAP
        /\ queue' = Append(queue, e)
        /\ UNCHANGED <<pool, loss>>
  /\ lock' = NULL
  /\ epc' = [epc EXCEPT ![e] = "returned"]
  /\ UNCHANGED <<PENDING_IRP, size, drop_count, taken, covers, reqVars, ioVars,
                 fileVars, unloadVars>>

----------------------------------------------------------------------------
(* The agent's handle: dispatch_create_close and dispatch_cleanup. *)

\* IRP_MJ_CREATE always succeeds.
Open(f) ==
  /\ Loaded
  /\ fpc[f] = "unopened"
  /\ fpc' = [fpc EXCEPT ![f] = "open"]
  /\ UNCHANGED <<shared, loss, evVars, pool, reqVars, ioVars, ftaken, unloadVars>>

\* Mutant: PENDING_IRP is read and not swapped.
CleanupPeek(f) ==
  /\ Loaded
  /\ fpc[f] = "open"
  /\ ftaken' = [ftaken EXCEPT ![f] = PENDING_IRP]
  /\ fpc' = [fpc EXCEPT ![f] = "cleanup"]
  /\ UNCHANGED <<shared, loss, evVars, pool, reqVars, ioVars, unloadVars>>

\* dispatch_cleanup swaps the parked request out, without the lock and whichever
\* handle it was sent on.
CleanupSwap(f) ==
  /\ Loaded
  /\ fpc[f] = "open"
  /\ ftaken' = [ftaken EXCEPT ![f] = PENDING_IRP]
  /\ PENDING_IRP' = NULL
  /\ fpc' = [fpc EXCEPT ![f] = "cleanup"]
  /\ UNCHANGED <<lock, queue, loss, evVars, pool, reqVars, ioVars, unloadVars>>

\* It cancels the request it took, and completes the cleanup itself.
CleanupComplete(f) ==
  /\ fpc[f] = "cleanup"
  /\ \/ /\ ftaken[f] # NULL
        /\ complete_irp(ftaken[f], "CANCELLED", 0)
     \/ /\ ftaken[f] = NULL
        /\ UNCHANGED <<io, status, info>>
  /\ fpc' = [fpc EXCEPT ![f] = "cleaned"]
  /\ UNCHANGED <<shared, loss, evVars, pool, reqVars, sysbuf, ftaken, unloadVars>>

\* IRP_MJ_CLOSE: the I/O manager sends it once no request on the file is left.
Close(f) ==
  /\ Loaded
  /\ fpc[f] = "cleaned"
  /\ \A i \in Irps : file[i] = f => io[i] = "done" /\ ipc[i] = "returned"
  /\ fpc' = [fpc EXCEPT ![f] = "closed"]
  /\ UNCHANGED <<shared, loss, evVars, pool, reqVars, ioVars, ftaken, unloadVars>>

----------------------------------------------------------------------------
(* A request: dispatch_device_control, and dispatch_invalid. *)

\* The I/O manager sends a request on an open handle; the handle may be cleaned
\* up by another thread of the agent from here on.
DeviceControl(i, f, n) ==
  /\ Loaded
  /\ fpc[f] = "open"
  /\ ipc[i] = "idle"
  /\ ipc' = [ipc EXCEPT ![i] = "entered"]
  /\ file' = [file EXCEPT ![i] = f]
  /\ outlen' = [outlen EXCEPT ![i] = n]
  /\ io' = [io EXCEPT ![i] = "owned"]
  /\ UNCHANGED <<shared, loss, evVars, pool, slot, marked, sysbuf, status, info,
                 fileVars, unloadVars>>

\* Not IOCTL_WEDR_GET_EVENT, or a major function the driver does not claim.
InvalidRequest(i) ==
  /\ ipc[i] = "entered"
  /\ complete_irp(i, "INVALID_DEVICE_REQUEST", 0)
  /\ ipc' = [ipc EXCEPT ![i] = "returned"]
  /\ UNCHANGED <<shared, loss, evVars, pool, file, outlen, slot, marked, sysbuf,
                 fileVars, unloadVars>>

\* Mutant: the lock is not taken.
DcAcquireNoLock(i) ==
  /\ ipc[i] = "entered"
  /\ ipc' = [ipc EXCEPT ![i] = "locked"]
  /\ UNCHANGED <<shared, loss, evVars, pool, file, outlen, slot, marked, ioVars,
                 fileVars, unloadVars>>

\* dispatch_device_control takes the lock ...
DcAcquire(i) ==
  /\ ipc[i] = "entered"
  /\ lock = NULL
  /\ lock' = i
  /\ ipc' = [ipc EXCEPT ![i] = "locked"]
  /\ UNCHANGED <<queue, PENDING_IRP, loss, evVars, pool, file, outlen, slot, marked,
                 ioVars, fileVars, unloadVars>>

\* Mutant: the newest event is popped.
DcPopNewest(i) ==
  /\ ipc[i] = "locked"
  /\ queue # << >>
  /\ slot' = [slot EXCEPT ![i] = queue[Len(queue)]]
  /\ queue' = SubSeq(queue, 1, Len(queue) - 1)
  /\ lock' = NULL
  /\ ipc' = [ipc EXCEPT ![i] = "popped"]
  /\ UNCHANGED <<PENDING_IRP, loss, evVars, pool, file, outlen, marked, ioVars,
                 fileVars, unloadVars>>

\* Fast path: pop the oldest event and release the lock ...
DcPop(i) ==
  /\ ipc[i] = "locked"
  /\ queue # << >>
  /\ slot' = [slot EXCEPT ![i] = Head(queue)]
  /\ queue' = Tail(queue)
  /\ lock' = NULL
  /\ ipc' = [ipc EXCEPT ![i] = "popped"]
  /\ UNCHANGED <<PENDING_IRP, loss, evVars, pool, file, outlen, marked, ioVars,
                 fileVars, unloadVars>>

\* ... copy it, free it, complete the request ...
FastComplete(i) ==
  /\ ipc[i] = "popped"
  /\ Fits(slot[i], i)
  /\ sysbuf' = [sysbuf EXCEPT ![i] = slot[i]]
  /\ pool' = Freed(pool, slot[i])
  /\ complete_irp(i, "SUCCESS", size[slot[i]])
  /\ ipc' = [ipc EXCEPT ![i] = "returned"]
  /\ UNCHANGED <<shared, loss, evVars, file, outlen, slot, marked, fileVars, unloadVars>>

\* ... or, if it does not fit, free it and count the loss ...
FastTooSmall(i) ==
  /\ ipc[i] = "popped"
  /\ ~Fits(slot[i], i)
  /\ pool' = Freed(pool, slot[i])
  /\ CountLoss(slot[i])
  /\ ipc' = [ipc EXCEPT ![i] = "failing"]
  /\ UNCHANGED <<shared, evVars, file, outlen, slot, marked, ioVars, fileVars, unloadVars>>

\* Mutant: the request is not completed.
FastTooSmallForgotten(i) ==
  /\ ipc[i] = "failing"
  /\ ipc' = [ipc EXCEPT ![i] = "returned"]
  /\ UNCHANGED <<shared, loss, evVars, pool, file, outlen, slot, marked, ioVars,
                 fileVars, unloadVars>>

\* ... and fail the request with the size it needs.
FastTooSmallComplete(i) ==
  /\ ipc[i] = "failing"
  /\ complete_irp(i, "BUFFER_TOO_SMALL", size[slot[i]])
  /\ ipc' = [ipc EXCEPT ![i] = "returned"]
  /\ UNCHANGED <<shared, loss, evVars, pool, file, outlen, slot, marked, sysbuf,
                 fileVars, unloadVars>>

\* Mutant: the lock is not released.
DcParkKeepsLock(i) ==
  /\ ipc[i] = "locked"
  /\ queue = << >>
  /\ PENDING_IRP = NULL
  /\ PENDING_IRP' = i
  /\ ipc' = [ipc EXCEPT ![i] = "parked"]
  /\ UNCHANGED <<lock, queue, loss, evVars, pool, file, outlen, slot, marked, ioVars,
                 fileVars, unloadVars>>

\* Slow path: compare_exchange publishes the request in PENDING_IRP, and the lock
\* is released ...
DcPark(i) ==
  /\ ipc[i] = "locked"
  /\ queue = << >>
  /\ PENDING_IRP = NULL
  /\ PENDING_IRP' = i
  /\ lock' = NULL
  /\ ipc' = [ipc EXCEPT ![i] = "parked"]
  /\ UNCHANGED <<queue, loss, evVars, pool, file, outlen, slot, marked, ioVars,
                 fileVars, unloadVars>>

\* ... and only then is it marked pending.
MarkPending(i) ==
  /\ ipc[i] = "parked"
  /\ marked' = [marked EXCEPT ![i] = IF io[i] = "owned" THEN "yes" ELSE "late"]
  /\ ipc' = [ipc EXCEPT ![i] = "returned"]
  /\ UNCHANGED <<shared, loss, evVars, pool, file, outlen, slot, ioVars, fileVars,
                 unloadVars>>

\* Another request is parked already: release the lock ...
DcRefuse(i) ==
  /\ ipc[i] = "locked"
  /\ queue = << >>
  /\ PENDING_IRP # NULL
  /\ lock' = NULL
  /\ ipc' = [ipc EXCEPT ![i] = "refused"]
  /\ UNCHANGED <<queue, PENDING_IRP, loss, evVars, pool, file, outlen, slot, marked,
                 ioVars, fileVars, unloadVars>>

\* ... and fail this one.
RefuseComplete(i) ==
  /\ ipc[i] = "refused"
  /\ complete_irp(i, "UNSUCCESSFUL", 0)
  /\ ipc' = [ipc EXCEPT ![i] = "returned"]
  /\ UNCHANGED <<shared, loss, evVars, pool, file, outlen, slot, marked, sysbuf,
                 fileVars, unloadVars>>

----------------------------------------------------------------------------
(* driver_unload. *)

\* The I/O manager calls it when no dispatch routine is running.
UnloadStart ==
  /\ upc = "running"
  /\ \A i \in Irps : ipc[i] \in {"idle", "returned"}
  /\ \A f \in Files : fpc[f] # "cleanup"
  /\ upc' = "deregister"
  /\ UNCHANGED <<shared, loss, evVars, pool, reqVars, ioVars, fileVars, utaken>>

\* Removing a callback waits for its running invocations.
UnloadDeregister ==
  /\ upc = "deregister"
  /\ \A e \in Events : Idle(e) \/ Returned(e)
  /\ upc' = "cancel"
  /\ UNCHANGED <<shared, loss, evVars, pool, reqVars, ioVars, fileVars, utaken>>

\* The parked request is swapped out ...
UnloadSwap ==
  /\ upc = "cancel"
  /\ utaken' = PENDING_IRP
  /\ PENDING_IRP' = NULL
  /\ upc' = "cancelling"
  /\ UNCHANGED <<lock, queue, loss, evVars, pool, reqVars, ioVars, fileVars>>

\* ... and cancelled.
UnloadCancel ==
  /\ upc = "cancelling"
  /\ \/ /\ utaken # NULL
        /\ complete_irp(utaken, "CANCELLED", 0)
     \/ /\ utaken = NULL
        /\ UNCHANGED <<io, status, info>>
  /\ upc' = "drain"
  /\ UNCHANGED <<shared, loss, evVars, pool, reqVars, sysbuf, fileVars, utaken>>

\* What is left in the queue is freed under the lock.
UnloadAcquire ==
  /\ upc = "drain"
  /\ lock = NULL
  /\ lock' = UNLOAD
  /\ upc' = "draining"
  /\ UNCHANGED <<queue, PENDING_IRP, loss, evVars, pool, reqVars, ioVars, fileVars,
                 utaken>>

\* Mutant: the event is freed but stays queued.
UnloadPopPeek ==
  /\ upc = "draining"
  /\ queue # << >>
  /\ pool' = Freed(pool, Head(queue))
  /\ UNCHANGED <<shared, loss, evVars, reqVars, ioVars, fileVars, unloadVars>>

UnloadPop ==
  /\ upc = "draining"
  /\ queue # << >>
  /\ pool' = Freed(pool, Head(queue))
  /\ queue' = Tail(queue)
  /\ UNCHANGED <<lock, PENDING_IRP, loss, evVars, reqVars, ioVars, fileVars, unloadVars>>

\* Mutant: the drain stops before the queue is empty.
UnloadReleaseEarly ==
  /\ upc = "draining"
  /\ lock' = NULL
  /\ upc' = "unloaded"
  /\ UNCHANGED <<queue, PENDING_IRP, loss, evVars, pool, reqVars, ioVars, fileVars,
                 utaken>>

UnloadRelease ==
  /\ upc = "draining"
  /\ queue = << >>
  /\ lock' = NULL
  /\ upc' = "unloaded"
  /\ UNCHANGED <<queue, PENDING_IRP, loss, evVars, pool, reqVars, ioVars, fileVars,
                 utaken>>

\* The driver is gone; nothing happens any more.
Gone ==
  /\ upc = "unloaded"
  /\ UNCHANGED vars

----------------------------------------------------------------------------
(* The specification. *)

\* The steps a callback takes once it has been called.
CallbackStep(e) ==
  \/ make_header(e)
  \/ SubmitAcquire(e)
  \/ SubmitSwap(e)
  \/ SubmitDeliver(e)
  \/ DeliverComplete(e)
  \/ SubmitTooSmall(e)
  \/ TooSmallCount(e)
  \/ TooSmallComplete(e)
  \/ SubmitEnqueue(e)

\* The steps dispatch_device_control takes once it has been called.
DispatchStep(i) ==
  \/ InvalidRequest(i)
  \/ DcAcquire(i)
  \/ DcPop(i)
  \/ FastComplete(i)
  \/ FastTooSmall(i)
  \/ FastTooSmallComplete(i)
  \/ DcPark(i)
  \/ MarkPending(i)
  \/ DcRefuse(i)
  \/ RefuseComplete(i)

\* The steps driver_unload takes once it has been called.
UnloadStep ==
  \/ UnloadDeregister
  \/ UnloadSwap
  \/ UnloadCancel
  \/ UnloadAcquire
  \/ UnloadPop
  \/ UnloadRelease

\* What the kernel and the agent may do at any time.
Environment ==
  \/ \E e \in Events : AllocFail(e) \/ \E n \in Sizes : AllocEvent(e, n)
  \/ \E f \in Files : Open(f) \/ CleanupSwap(f) \/ Close(f)
  \/ \E i \in Irps, f \in Files, n \in Sizes : DeviceControl(i, f, n)
  \/ UnloadStart

Next ==
  \/ Environment
  \/ \E e \in Events : CallbackStep(e)
  \/ \E i \in Irps : DispatchStep(i)
  \/ \E f \in Files : CleanupComplete(f)
  \/ UnloadStep
  \/ Gone

Spec == Init /\ [][Next]_vars

\* Code that runs keeps running: every thread inside the driver is scheduled
\* again.  Nothing makes the kernel call a callback or the agent send a request.
Fairness ==
  /\ \A e \in Events : WF_vars(CallbackStep(e))
  /\ \A i \in Irps : WF_vars(DispatchStep(i))
  /\ \A f \in Files : WF_vars(CleanupComplete(f))
  /\ WF_vars(UnloadStep)

FairSpec == Spec /\ Fairness

----------------------------------------------------------------------------
(* Properties. *)

Threads == Events \cup Irps \cup {UNLOAD}

\* The type invariant.  It leaves out "corrupt": no buffer is freed twice and no
\* request is completed twice.
TypeOK ==
  /\ lock \in Threads \cup {NULL}
  /\ queue \in Seq(Events)
  /\ PENDING_IRP \in Irps \cup {NULL}
  /\ DROP_COUNT \in Nat
  /\ epc \in [Events -> {"idle", "oom", "allocated", "stamped", "locked", "swapped",
                         "delivering", "dropping", "failing", "returned"}]
  /\ size \in [Events -> Sizes \cup {0}]
  /\ drop_count \in [Events -> Nat]
  /\ taken \in [Events -> Irps \cup {NULL}]
  /\ pool \in [Events -> {"none", "live", "freed"}]
  /\ ipc \in [Irps -> {"idle", "entered", "locked", "popped", "failing", "parked",
                       "refused", "returned"}]
  /\ file \in [Irps -> Files \cup {NULL}]
  /\ outlen \in [Irps -> Sizes \cup {0}]
  /\ slot \in [Irps -> Events \cup {NULL}]
  /\ sysbuf \in [Irps -> Events \cup {NULL}]
  /\ io \in [Irps -> {"agent", "owned", "done"}]
  /\ status \in [Irps -> {"none", "SUCCESS", "BUFFER_TOO_SMALL", "UNSUCCESSFUL",
                          "CANCELLED", "INVALID_DEVICE_REQUEST"}]
  /\ info \in [Irps -> Nat]
  /\ marked \in [Irps -> {"no", "yes", "late"}]
  /\ fpc \in [Files -> {"unopened", "open", "cleanup", "cleaned", "closed"}]
  /\ ftaken \in [Files -> Irps \cup {NULL}]
  /\ upc \in {"running", "deregister", "cancel", "cancelling", "drain", "draining",
              "unloaded"}
  /\ utaken \in Irps \cup {NULL}
  /\ gap \in SUBSET Events
  /\ covers \in [Events -> SUBSET Events]

\* No wake-up is lost: a request never sleeps in PENDING_IRP while an event it
\* could have had sits in the queue.  dispatch_device_control tests the queue and
\* publishes the request in two accesses, submit_event swaps the slot and queues
\* in two, and dispatch_cleanup swaps without the lock.
NoLostWakeup == PENDING_IRP # NULL => queue = << >>

\* Who has to complete request i: its dispatch routine ...
DispatchHas(i) == ipc[i] \in {"entered", "locked", "popped", "failing", "refused"}

\* ... whoever looks in PENDING_IRP next, or the thread that swapped it out of there.
CallbackHas(e, i) == taken[e] = i /\ epc[e] \in {"swapped", "delivering", "dropping", "failing"}
CleanupHas(f, i) == ftaken[f] = i /\ fpc[f] = "cleanup"
UnloadHas(i) == utaken = i /\ upc = "cancelling"

IrpHolders(i) ==
       {t \in {i} : DispatchHas(i)}
  \cup {t \in {NULL} : PENDING_IRP = i}
  \cup {e \in Events : CallbackHas(e, i)}
  \cup {f \in Files : CleanupHas(f, i)}
  \cup {t \in {UNLOAD} : UnloadHas(i)}

\* A request the driver still owes is the business of exactly one thread, and a
\* completed one of nobody: none is forgotten and none is completed twice, with
\* submit_event, dispatch_cleanup and driver_unload all racing for PENDING_IRP.
OneIrpHolder ==
  \A i \in Irps :
    IF io[i] = "owned" THEN \E h \in Threads \cup Files \cup {NULL} : IrpHolders(i) = {h}
                       ELSE IrpHolders(i) = {}

\* Who has to free the buffer of event e: its callback, the queue (at one
\* position), or the request that popped it.
CallbackOwns(e) == epc[e] \in {"allocated", "stamped", "locked", "swapped", "delivering"}
RequestOwns(i, e) == slot[i] = e /\ ipc[i] = "popped"

BufferHolders(e) ==
       {t \in {e} : CallbackOwns(e)}
  \cup {k \in DOMAIN queue : queue[k] = e}
  \cup {i \in Irps : RequestOwns(i, e)}

\* An event buffer that is allocated has exactly one owner, a freed one has none:
\* submit_event "takes ownership of data in every path", so nothing leaks, is
\* freed twice, or stays in the queue after it was freed.
OneBufferHolder ==
  \A e \in Events :
    IF pool[e] = "live" THEN \E h \in Threads \cup DOMAIN queue : BufferHolders(e) = {h}
                        ELSE BufferHolders(e) = {}

\* What the agent reads is right: a request that succeeded carries an event that
\* fits its buffer, with that event's size, and no other request carries it; a
\* request that failed for want of room is told a size that is larger than the
\* buffer it brought; no other status comes with an event.
AnswersCorrect ==
  /\ \A i \in Irps : io[i] = "done" =>
       /\ status[i] = "SUCCESS" =>
            /\ sysbuf[i] # NULL
            /\ info[i] = size[sysbuf[i]]
            /\ info[i] <= outlen[i]
       /\ status[i] = "BUFFER_TOO_SMALL" => info[i] > outlen[i]
       /\ status[i] # "SUCCESS" => sysbuf[i] = NULL
  /\ \A i, j \in Irps : sysbuf[i] # NULL /\ sysbuf[i] = sysbuf[j] => i = j

\* The events some drop count stands for: DROP_COUNT itself or a header.
Reported == gap \cup UNION {covers[e] : e \in Events}

\* Every loss is counted once.  DROP_COUNT and the headers count disjoint sets of
\* events, and only events that are neither queued nor given to a request, though
\* the swap in make_header races the increments of every other thread.
LossesCountedOnce ==
  /\ DROP_COUNT = Cardinality(gap)
  /\ \A e \in Events : drop_count[e] = Cardinality(covers[e])
  /\ \A e \in Events : gap \cap covers[e] = {}
  /\ \A d, e \in Events : d # e => covers[d] \cap covers[e] = {}
  /\ \A e \in Reported : /\ \A k \in DOMAIN queue : queue[k] # e
                         /\ \A i \in Irps : sysbuf[i] # e

\* No event vanishes: when its callback has returned, the event is queued, popped
\* by a request that is about to be answered, delivered, counted as lost, or was
\* drained by driver_unload.
NoSilentLoss ==
  \A e \in Events : Returned(e) =>
    \/ \E k \in DOMAIN queue : queue[k] = e
    \/ \E i \in Irps : slot[i] = e /\ ipc[i] = "popped"
    \/ \E i \in Irps : sysbuf[i] = e /\ io[i] = "done" /\ status[i] = "SUCCESS"
    \/ e \in Reported
    \/ upc \in {"draining", "unloaded"}

\* driver_unload leaves nothing behind: no request is owed, no event is queued, no
\* buffer is allocated, the lock is free.
NothingLeftBehind ==
  upc = "unloaded" =>
    /\ PENDING_IRP = NULL
    /\ queue = << >>
    /\ lock = NULL
    /\ \A i \in Irps : io[i] # "owned"
    /\ \A e \in Events : pool[e] # "live"

\* A request is never given back to the I/O manager while its dispatch routine has
\* yet to mark it: "Must be called whenever a dispatch routine returns
\* STATUS_PENDING, otherwise the I/O manager will not know to wait and may free the
\* IRP" (ipc/irp.rs).
MarkedBeforeCompleted == \A i \in Irps : ipc[i] = "parked" => io[i] = "owned"

\* No request stays parked on a handle that was cleaned up: "We must cancel any
\* IOCTL still parked in PENDING_IRP, because the associated user-mode buffer is
\* about to be torn down" (ipc/dispatch.rs).
NothingParkedAfterCleanup ==
  PENDING_IRP # NULL => fpc[file[PENDING_IRP]] \notin {"cleaned", "closed"}

\* The drop counts of the events the agent reads add up to all the losses: a header
\* that reports losses is never itself on an event that gets lost.  "each gap /
\* truncation count is reported exactly once" (callbacks/header.rs).
LossesReachAgent == \A d \in Reported : covers[d] = {}

----------------------------------------------------------------------------
(* The promise to the agent. *)

\* What event e comes to for request i.
Offer(e, i) == IF Fits(e, i) THEN e ELSE "short"

\* The answer request i will get or has got, fixed at the step that takes it out
\* of the queue's or of PENDING_IRP's hands, before it is completed.
Answer(i) ==
  CASE \E e \in Events : taken[e] = i -> Offer(CHOOSE e \in Events : taken[e] = i, i)
    [] slot[i] # NULL -> Offer(slot[i], i)
    [] utaken = i \/ \E f \in Files : ftaken[f] = i -> "cancelled"
    [] ipc[i] = "refused" \/ status[i] = "UNSUCCESSFUL" -> "refused"
    [] status[i] = "INVALID_DEVICE_REQUEST" -> "invalid"
    [] OTHER -> "none"

\* A callback has published its event once it has swapped out a request, or
\* queued the event.
Published(e) ==
  \/ epc[e] \in {"delivering", "dropping", "failing", "returned"}
  \/ epc[e] = "swapped" /\ taken[e] # NULL

Feed == INSTANCE EventFeed WITH
  Requests <- Irps, NoRequest <- NULL,
  published <- {e \in Events : Published(e)},
  feed <- queue, waiting <- PENDING_IRP, answer <- [i \in Irps |-> Answer(i)]

\* Threads, lock and buffers together behave as the bounded feed of module
\* EventFeed: order, one answer per request, one request per event, one waiter.
ImplementsFeed == Feed!Spec

\* A completed request carries the answer that was fixed when it was taken.
AnswerDelivered ==
  \A i \in Irps : io[i] = "done" =>
    CASE status[i] = "SUCCESS" -> Answer(i) = sysbuf[i]
      [] status[i] = "BUFFER_TOO_SMALL" -> Answer(i) = "short"
      [] status[i] = "CANCELLED" -> Answer(i) = "cancelled"
      [] status[i] = "UNSUCCESSFUL" -> Answer(i) = "refused"
      [] status[i] = "INVALID_DEVICE_REQUEST" -> Answer(i) = "invalid"

\* An answer is fixed once: submit_event, dispatch_cleanup, driver_unload and the
\* dispatch routine never overrule each other, whoever looks in PENDING_IRP next.
AnswerIsFinal == [][\A i \in Irps : Answer(i) # "none" => Answer(i)' = Answer(i)]_vars

\* The driver keeps its hands off a completed request: no thread writes the
\* SystemBuffer or the IoStatus of a request that is the I/O manager's again, though
\* submit_event copies and completes in separate steps and outside the lock.
CompletedIsUntouched ==
  [][\A i \in Irps : io[i] = "done" =>
       /\ io'[i] = "done"
       /\ sysbuf'[i] = sysbuf[i] /\ status'[i] = status[i] /\ info'[i] = info[i]]_vars

----------------------------------------------------------------------------
(* Liveness. *)

\* A request that reaches the driver is answered, or parked.
RequestHandled ==
  \A i \in Irps : ipc[i] = "entered" ~> io[i] = "done" \/ PENDING_IRP = i

\* A parked request is completed once a callback has an event for it: "A producer
\* (or dispatch_cleanup / driver_unload) will eventually complete it"
\* (ipc/dispatch.rs).
ParkedServed ==
  \A i \in Irps : (PENDING_IRP = i /\ \E e \in Events : epc[e] \in {"allocated", "stamped"})
                    ~> io[i] = "done"

\* An unload that has begun ends, whatever callbacks were running when it began.
UnloadEnds == upc = "deregister" ~> upc = "unloaded"
=============================================================================
