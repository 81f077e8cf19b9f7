---------------------------- MODULE DriverProofs ----------------------------
(***************************************************************************)
(* The whole driver implements both of its halves, for any callbacks in    *)
(* any order, any number of events, requests and handles, any event sizes  *)
(* and any queue capacity: so whatever is proved of InvertedCall and of    *)
(* Lifecycle holds of the driver.                                          *)
(*                                                                         *)
(* The two refinements rest on each other.  That a removal which ends is a *)
(* step of InvertedCall needs Lifecycle's invariant (no callback runs any  *)
(* more); that a request is a step of Lifecycle needs InvertedCall's (no   *)
(* dispatch routine runs once driver_unload does).  So one induction       *)
(* carries both invariants, and what ties them together.                   *)
(***************************************************************************)
EXTENDS Driver, TLAPS

\* What is proved of the threads and of the loading thread, as the driver has them.
ICP == INSTANCE FeedProofs WITH upc <- Stage
LCP == INSTANCE LifecycleProofs WITH
  Calls <- Events, queued <- Len(queue), parked <- (PENDING_IRP # NULL)

----------------------------------------------------------------------------
(* The inductive invariant. *)

\* Before the link exists, and when the load has failed.
Unlinked == {"entry", "device", "symlink", "failed"}

\* An invocation that is out has not begun its submission, or has ended it; one
\* whose event is neither queued nor given to a request has something to submit.
CallLink ==
  /\ \A e \in Events : cb[e] = "out" => epc[e] \in {"idle", "oom", "returned"}
  /\ \A e \in Events :
       epc[e] \in {"allocated", "stamped", "locked"} \/ (epc[e] = "swapped" /\ taken[e] = NULL)
         => LC!HasEvent(e)

\* Without a link there have been no handle, no request and no event.
AgentLink ==
  pc \in Unlinked => /\ \A f \in Files : fpc[f] = "unopened"
                     /\ \A i \in Irps : ipc[i] = "idle"
                     /\ \A e \in Events : epc[e] = "idle"

\* driver_unload is inside the cancellation and the drain when it is at them.
DrainLink ==
  /\ pc = "drain" => inside \in {"cancelling", "drain", "draining"}
  /\ pc # "drain" => inside = "none"

LinkInv == CallLink /\ AgentLink /\ DrainLink

DriverInv == ICP!IndInv /\ LCP!IndInv /\ LinkInv

----------------------------------------------------------------------------
(* The two halves. *)

\* The assumptions of both halves are met, so their results can be used.
LEMMA HalvesAssume ==
  /\ QUEUE_CAP \in Nat \ {0} /\ Sizes \subseteq Nat \ {0}
  /\ Events \cap Irps = {} /\ Events \cap Files = {} /\ Irps \cap Files = {}
  /\ UNLOAD \notin Events \cup Irps \cup Files
  /\ NULL \notin Events \cup Irps \cup Files \cup {UNLOAD}
  /\ ICP!IsFiniteSet(Events)
  /\ Registrations \in Seq(LCP!Callbacks)
  /\ Removals \in Seq(LCP!Callbacks)
  /\ \A i, j \in DOMAIN Registrations : Registrations[i] = Registrations[j] => i = j
  /\ \A i, j \in DOMAIN Removals : Removals[i] = Removals[j] => i = j
  /\ \A c \in LCP!Callbacks : \E j \in DOMAIN Removals : Removals[j] = c
  /\ REGISTRY \in LCP!Callbacks
  /\ NULL # COOKIE /\ NULL # "device"
BY CapAssumption, SizesAssumption, ThreadsAssumption, FiniteAssumption, OrderAssumption,
   NullAssumption DEF ICP!IsFiniteSet, IsFiniteSet, LCP!Callbacks, Callbacks

\* The steps that InvertedCall and its proofs speak of are the same.
LEMMA SameCalls == [IC!Next]_(IC!vars) => [ICP!Next]_(ICP!vars)
BY DEF
   IC!Next, ICP!Next, IC!Environment, ICP!Environment, IC!CallbackStep, ICP!CallbackStep,
   IC!DispatchStep, ICP!DispatchStep, IC!UnloadStep, ICP!UnloadStep, IC!Gone, ICP!Gone,
   IC!vars, ICP!vars, IC!shared, ICP!shared, IC!loss, ICP!loss, IC!evVars, ICP!evVars,
   IC!reqVars, ICP!reqVars, IC!ioVars, ICP!ioVars, IC!fileVars, ICP!fileVars,
   IC!unloadVars, ICP!unloadVars, IC!CallbacksRegistered, ICP!CallbacksRegistered,
   IC!Loaded, ICP!Loaded, IC!Freed, ICP!Freed, IC!complete_irp, ICP!complete_irp,
   IC!CountLoss, ICP!CountLoss, IC!Idle, ICP!Idle, IC!Returned, ICP!Returned, IC!Fits,
   ICP!Fits, IC!AllocEvent, ICP!AllocEvent, IC!AllocFail, ICP!AllocFail, IC!make_header,
   ICP!make_header, IC!SubmitAcquire, ICP!SubmitAcquire, IC!SubmitSwap, ICP!SubmitSwap,
   IC!SubmitDeliver, ICP!SubmitDeliver, IC!DeliverComplete, ICP!DeliverComplete,
   IC!SubmitTooSmall, ICP!SubmitTooSmall, IC!TooSmallCount, ICP!TooSmallCount,
   IC!TooSmallComplete, ICP!TooSmallComplete, IC!SubmitEnqueue, ICP!SubmitEnqueue, IC!Open,
   ICP!Open, IC!CleanupSwap, ICP!CleanupSwap, IC!CleanupComplete, ICP!CleanupComplete,
   IC!Close, ICP!Close, IC!DeviceControl, ICP!DeviceControl, IC!InvalidRequest,
   ICP!InvalidRequest, IC!DcAcquire, ICP!DcAcquire, IC!DcPop, ICP!DcPop, IC!FastComplete,
   ICP!FastComplete, IC!FastTooSmall, ICP!FastTooSmall, IC!FastTooSmallComplete,
   ICP!FastTooSmallComplete, IC!DcPark, ICP!DcPark, IC!MarkPending, ICP!MarkPending,
   IC!DcRefuse, ICP!DcRefuse, IC!RefuseComplete, ICP!RefuseComplete, IC!UnloadStart,
   ICP!UnloadStart, IC!UnloadDeregister, ICP!UnloadDeregister, IC!UnloadSwap,
   ICP!UnloadSwap, IC!UnloadCancel, ICP!UnloadCancel, IC!UnloadAcquire, ICP!UnloadAcquire,
   IC!UnloadPop, ICP!UnloadPop, IC!UnloadRelease, ICP!UnloadRelease

\* So are those of Lifecycle.
LEMMA SameLoading == [LC!Next]_(LC!vars) => [LCP!Next]_(LCP!vars)
BY DEF
   LC!Next, LCP!Next, LC!EntryStep, LCP!EntryStep, LC!UnloadStart, LCP!UnloadStart,
   LC!UnloadStep, LCP!UnloadStep, LC!CallbackStep, LCP!CallbackStep, LC!CallbackEnter,
   LCP!CallbackEnter, LC!Request, LCP!Request, LC!Cleanup, LCP!Cleanup, LC!Gone, LCP!Gone,
   LC!vars, LCP!vars, LC!setup, LCP!setup, LC!devVars, LCP!devVars, LC!regVars,
   LCP!regVars, LC!runVars, LCP!runVars, LC!Callbacks, LCP!Callbacks, LC!WireDispatch,
   LCP!WireDispatch, LC!CreateDevice, LCP!CreateDevice, LC!CreateDeviceFails,
   LCP!CreateDeviceFails, LC!CreateSymbolicLink, LCP!CreateSymbolicLink,
   LC!CreateSymbolicLinkFails, LCP!CreateSymbolicLinkFails, LC!AdvanceEntry,
   LCP!AdvanceEntry, LC!Register, LCP!Register, LC!RegisterFails, LCP!RegisterFails,
   LC!StoreCookie, LCP!StoreCookie, LC!StoreFlag, LCP!StoreFlag, LC!AdvanceUnload,
   LCP!AdvanceUnload, LC!SwapFlag, LCP!SwapFlag, LC!Remove, LCP!Remove, LC!WaitForCallback,
   LCP!WaitForCallback, LC!CancelPending, LCP!CancelPending, LC!DrainPop, LCP!DrainPop,
   LC!DrainEnd, LCP!DrainEnd, LC!DeleteSymbolicLink, LCP!DeleteSymbolicLink,
   LC!DeleteSymbolicLinkFails, LCP!DeleteSymbolicLinkFails,
   LC!DeleteDevice, LCP!DeleteDevice, LC!ReadCookie, LCP!ReadCookie, LC!HasEvent,
   LCP!HasEvent, LC!CallbackSubmit, LCP!CallbackSubmit, LC!CallbackReturn,
   LCP!CallbackReturn, LC!Reachable, LCP!Reachable

\* A step of InvertedCall keeps its invariant.
LEMMA CallsKept == ICP!IndInv /\ [IC!Next]_(IC!vars) => ICP!IndInv'
<1> SUFFICES ASSUME ICP!IndInv, [ICP!Next]_(ICP!vars) PROVE ICP!IndInv'
  BY SameCalls
<1>1. ICP!TypeOK'
  BY ICP!TypeStep, HalvesAssume DEF ICP!IndInv
<1>2. ICP!LockInv' /\ ICP!WakeupInv' /\ ICP!LocalInv'
  BY ICP!LockStep, ICP!WakeupStep, ICP!LocalStep, HalvesAssume DEF ICP!IndInv
<1>3. ICP!IrpInv' /\ ICP!BufferInv' /\ ICP!UnloadInv'
  BY ICP!IrpStep, ICP!BufferStep, ICP!UnloadInvStep, HalvesAssume DEF ICP!IndInv
<1> QED
  BY <1>1, <1>2, <1>3 DEF ICP!IndInv

\* A step of Lifecycle keeps its invariant.
LEMMA LoadingKept == LCP!IndInv /\ [LC!Next]_(LC!vars) => LCP!IndInv'
<1> SUFFICES ASSUME LCP!IndInv, [LCP!Next]_(LCP!vars) PROVE LCP!IndInv'
  BY SameLoading
<1>1. LCP!TypeOK' /\ LCP!BlockInv' /\ LCP!RecordInv' /\ LCP!CookieInv' /\ LCP!DeviceInv'
  BY LCP!TypeStep, LCP!BlockStep, LCP!RecordStep, LCP!CookieStep, LCP!DeviceStep, HalvesAssume
<1>2. LCP!RunInv' /\ LCP!TrafficInv' /\ LCP!NoDoubleRemove'
  BY LCP!RunStep, LCP!TrafficStep, LCP!RemoveStep, HalvesAssume
<1> QED
  BY <1>1, <1>2 DEF LCP!IndInv

\* The stages of driver_unload, one by one.
LEMMA Stages ==
  /\ pc \in {"swap", "remove", "wait"} => Stage = "deregister"
  /\ pc = "cancel" => Stage = "cancel"
  /\ pc = "drain" => Stage = inside
  /\ pc \in {"unlink", "delete", "unloaded"} => Stage = "unloaded"
  /\ pc \notin {"swap", "remove", "wait", "cancel", "drain", "unlink", "delete", "unloaded"} =>
       Stage = "running"
BY DEF Stage

\* An agent that has a handle can still reach the device, until driver_unload starts.
LEMMA HandleReaches ==
  ASSUME DriverInv, Stage = "running",
         (\E f \in Files : fpc[f] # "unopened") \/ (\E i \in Irps : ipc[i] # "idle")
  PROVE  LC!Reachable
<1>1. pc \notin Unlinked
  BY DEF DriverInv, LinkInv, AgentLink
<1>2. pc \in {"register", "cookie", "flag", "running"}
  <2>1. pc \notin {"swap", "remove", "wait", "cancel", "unlink", "delete", "unloaded"}
    BY Stages
  <2>2. pc # "drain"
    BY Stages DEF DriverInv, LinkInv, DrainLink
  <2> QED
    BY <1>1, <2>1, <2>2 DEF Unlinked, DriverInv, LCP!IndInv, LCP!TypeOK, LCP!EntryPcs,
       LCP!RemovalPcs, LCP!TeardownPcs
<1>3. device /\ symlink = "present"
  BY <1>2 DEF DriverInv, LCP!IndInv, LCP!DeviceInv, LCP!UnsetPcs
<1> QED
  BY <1>2, <1>3 DEF LC!Reachable

----------------------------------------------------------------------------
(* Every step of the driver is a step of Lifecycle, or none. *)

\* A step that leaves Lifecycle's view of the driver as it is.
LEMMA LoadingStutter ==
  ASSUME UNCHANGED <<pc, k, setup, calls>>, Len(queue') = Len(queue),
         PENDING_IRP' # NULL <=> PENDING_IRP # NULL
  PROVE  UNCHANGED LC!vars
<1>1. (PENDING_IRP' # NULL) = (PENDING_IRP # NULL)
  OBVIOUS
<1> QED
  BY <1>1 DEF setup, calls, LC!vars, LC!setup, LC!devVars, LC!regVars, LC!runVars

\* What a submission, a request and the drain come to.
LEMMA LoadingStep == DriverInv /\ [Next]_vars => [LC!Next]_(LC!vars)
<1> SUFFICES ASSUME DriverInv, [Next]_vars PROVE [LC!Next]_(LC!vars)
  OBVIOUS
<1>1. CASE EntryStep
  BY <1>1 DEF EntryStep, LC!Next
<1>2. CASE UnloadStart
  BY <1>2 DEF UnloadStart, LC!Next
<1>3. CASE UnloadStep
  <2>1. CASE RemovalStep
    BY <2>1 DEF RemovalStep, LC!Next, LC!UnloadStep
  <2>2. CASE UnloadSwap
    <3>1. LC!CancelPending
      BY <2>2 DEF UnloadSwap, IC!UnloadSwap, setup, calls, LC!CancelPending, LC!setup,
         LC!devVars, LC!regVars, LC!runVars
    <3> QED
      BY <3>1 DEF LC!Next, LC!UnloadStep
  <2>3. CASE UnloadCancel
    BY <2>3, LoadingStutter DEF UnloadCancel, IC!UnloadCancel, IC!shared
  <2>4. CASE UnloadAcquire
    BY <2>4, LoadingStutter DEF UnloadAcquire, IC!UnloadAcquire
  <2>5. CASE UnloadPop
    <3>1. Stage = "draining" /\ queue # << >> /\ queue' = Tail(queue) /\ PENDING_IRP' = PENDING_IRP
      BY <2>5 DEF UnloadPop, IC!UnloadPop
    <3>2. pc = "drain"
      BY <3>1, Stages
    <3>3. Len(queue) # 0 /\ Len(queue') = Len(queue) - 1
      BY <3>1 DEF DriverInv, ICP!IndInv, ICP!TypeOK
    <3>4. LC!DrainPop
      BY <2>5, <3>1, <3>2, <3>3 DEF UnloadPop, life, thread, setup, calls, LC!DrainPop,
         LC!setup, LC!devVars, LC!regVars
    <3> QED
      BY <3>4 DEF LC!Next, LC!UnloadStep
  <2>6. CASE UnloadRelease
    <3>1. /\ inside = "draining" /\ queue = << >>
          /\ UNCHANGED <<queue, PENDING_IRP>>
      BY <2>6 DEF UnloadRelease, IC!UnloadRelease
    <3>2. pc = "drain"
      BY <3>1 DEF DriverInv, LinkInv, DrainLink
    <3>3. LC!DrainEnd
      BY <2>6, <3>1, <3>2 DEF UnloadRelease, setup, calls, LC!DrainEnd, LC!setup, LC!devVars,
         LC!regVars, LC!runVars
    <3> QED
      BY <3>3 DEF LC!Next, LC!UnloadStep
  <2>7. CASE DeleteStep
    BY <2>7 DEF DeleteStep, LC!Next, LC!UnloadStep
  <2> QED
    BY <1>3, <2>1, <2>2, <2>3, <2>4, <2>5, <2>6, <2>7 DEF UnloadStep
<1>4. ASSUME NEW e \in Events, CallbackStep(e)
      PROVE  [LC!Next]_(LC!vars)
  <2>1. CASE ReadCookie(e)
    BY <2>1 DEF ReadCookie, LC!Next, LC!CallbackStep
  <2>2. CASE Allocate(e)
    BY <2>2, LoadingStutter DEF Allocate, life, thread, IC!AllocFail, IC!AllocEvent, IC!shared
  <2>3. CASE SubmitQuietly(e)
    <3>1. UNCHANGED <<pc, k, setup, calls>>
      BY <2>3 DEF SubmitQuietly, life, thread
    <3>2. UNCHANGED <<queue, PENDING_IRP>>
      <4>1. ASSUME PENDING_IRP = NULL, IC!SubmitSwap(e) PROVE UNCHANGED <<queue, PENDING_IRP>>
        BY <4>1 DEF IC!SubmitSwap
      <4> QED
        BY <2>3, <4>1 DEF SubmitQuietly, IC!make_header, IC!SubmitAcquire, IC!SubmitDeliver,
           IC!DeliverComplete, IC!SubmitTooSmall, IC!TooSmallCount, IC!TooSmallComplete,
           IC!shared
    <3> QED
      BY <3>1, <3>2, LoadingStutter
  <2>4. CASE Publish(e)
    <3>1. UNCHANGED <<pc, k, setup, of, seen>> /\ cb' = [cb EXCEPT ![e] = "submitted"]
      BY <2>4 DEF Publish, thread
    <3>2. CASE PENDING_IRP # NULL /\ IC!SubmitSwap(e)
      <4>1. epc[e] = "locked" /\ PENDING_IRP' = NULL /\ queue' = queue
        BY <3>2 DEF IC!SubmitSwap
      <4>2. LC!HasEvent(e)
        BY <4>1 DEF DriverInv, LinkInv, CallLink
      <4>3. LC!CallbackSubmit(e)
        BY <3>1, <3>2, <4>1, <4>2 DEF LC!CallbackSubmit, setup, LC!setup, LC!devVars, LC!regVars
      <4> QED
        BY <4>3 DEF LC!Next, LC!CallbackStep
    <3>3. CASE IC!SubmitEnqueue(e)
      <4>1. /\ epc[e] = "swapped" /\ taken[e] = NULL /\ PENDING_IRP' = PENDING_IRP
            /\ queue' = Append(IF Len(queue) = QUEUE_CAP THEN Tail(queue) ELSE queue, e)
        BY <3>3 DEF IC!SubmitEnqueue
      <4>2. LC!HasEvent(e) /\ PENDING_IRP = NULL
        BY <4>1 DEF DriverInv, LinkInv, CallLink, ICP!IndInv, ICP!WakeupInv
      <4>3. Len(queue') = IF Len(queue) = QUEUE_CAP THEN Len(queue) ELSE Len(queue) + 1
        <5>1. queue \in Seq(Events)
          BY DEF DriverInv, ICP!IndInv, ICP!TypeOK
        <5>2. CASE Len(queue) = QUEUE_CAP
          <6>1. Tail(queue) \in Seq(Events) /\ Len(Tail(queue)) = Len(queue) - 1
            BY <5>1, <5>2, CapAssumption
          <6> QED
            BY <4>1, <5>1, <5>2, <6>1
        <5>3. CASE Len(queue) # QUEUE_CAP
          BY <4>1, <5>1, <5>3
        <5> QED
          BY <5>2, <5>3
      <4>4. LC!CallbackSubmit(e)
        BY <3>1, <4>1, <4>2, <4>3 DEF LC!CallbackSubmit, setup, LC!setup, LC!devVars, LC!regVars
      <4> QED
        BY <4>4 DEF LC!Next, LC!CallbackStep
    <3> QED
      BY <2>4, <3>2, <3>3 DEF Publish
  <2>5. CASE Return(e)
    BY <2>5 DEF Return, LC!Next, LC!CallbackStep
  <2> QED
    BY <1>4, <2>1, <2>2, <2>3, <2>4, <2>5 DEF CallbackStep
<1>5. ASSUME NEW e \in Events, NEW c \in Callbacks, Enter(e, c)
      PROVE  LC!Next
  <2>1. c \in LC!Callbacks
    BY DEF Callbacks, LC!Callbacks
  <2> QED
    BY <1>5, <2>1 DEF Enter, LC!Next
<1>6. ASSUME NEW f \in Files, Open(f) \/ CleanupComplete(f)
      PROVE  UNCHANGED LC!vars
  BY <1>6, LoadingStutter DEF Open, CleanupComplete, life, thread, IC!Open, IC!CleanupComplete,
     IC!shared
<1>7. ASSUME NEW f \in Files, UseHandle(f)
      PROVE  [LC!Next]_(LC!vars)
  <2>1. UNCHANGED <<pc, k, setup, calls>>
    BY <1>7 DEF UseHandle, life, thread
  <2>2. CASE IC!CleanupSwap(f)
    <3>1. Stage = "running" /\ fpc[f] = "open" /\ PENDING_IRP' = NULL /\ queue' = queue
      BY <2>2 DEF IC!CleanupSwap, IC!Loaded
    <3>2. LC!Reachable
      BY <3>1, HandleReaches
    <3>3. CASE PENDING_IRP = NULL
      BY <2>1, <3>1, <3>3, LoadingStutter
    <3>4. CASE PENDING_IRP # NULL
      <4>1. LC!Cleanup
        BY <2>1, <3>1, <3>2, <3>4 DEF setup, calls, LC!Cleanup, LC!setup, LC!devVars,
           LC!regVars, LC!runVars
      <4> QED
        BY <4>1 DEF LC!Next
    <3> QED
      BY <3>3, <3>4
  <2>3. CASE IC!Close(f) \/ \E i \in Irps, n \in Sizes : IC!DeviceControl(i, f, n)
    BY <2>1, <2>3, LoadingStutter DEF IC!Close, IC!DeviceControl, IC!shared
  <2> QED
    BY <1>7, <2>2, <2>3 DEF UseHandle
<1>8. ASSUME NEW i \in Irps, DispatchStep(i)
      PROVE  [LC!Next]_(LC!vars)
  <2>1. UNCHANGED <<pc, k, setup, calls>>
    BY <1>8 DEF DispatchStep, life, thread
  <2>2. ASSUME ipc[i] = "locked" PROVE LC!Reachable
    <3>1. Stage = "running"
      BY <2>2 DEF DriverInv, ICP!IndInv, ICP!UnloadInv
    <3> QED
      BY <2>2, <3>1, HandleReaches
  <2>3. CASE IC!DcPop(i)
    <3>1. ipc[i] = "locked" /\ queue # << >> /\ queue' = Tail(queue) /\ PENDING_IRP' = PENDING_IRP
      BY <2>3 DEF IC!DcPop
    <3>2. Len(queue) # 0 /\ Len(queue') = Len(queue) - 1
      BY <3>1 DEF DriverInv, ICP!IndInv, ICP!TypeOK
    <3>3. LC!Request
      BY <2>1, <2>2, <3>1, <3>2 DEF setup, calls, LC!Request, LC!setup, LC!devVars, LC!regVars
    <3> QED
      BY <3>3 DEF LC!Next
  <2>4. CASE IC!DcPark(i)
    <3>1. /\ ipc[i] = "locked" /\ queue = << >> /\ queue' = queue
          /\ PENDING_IRP = NULL /\ PENDING_IRP' = i
      BY <2>4 DEF IC!DcPark
    <3>2. i # NULL /\ Len(queue) = 0
      BY <3>1, ThreadsAssumption
    <3>3. LC!Request
      BY <2>1, <2>2, <3>1, <3>2 DEF setup, calls, LC!Request, LC!setup, LC!devVars, LC!regVars
    <3> QED
      BY <3>3 DEF LC!Next
  <2>5. CASE \/ IC!InvalidRequest(i) \/ IC!DcAcquire(i) \/ IC!FastComplete(i)
             \/ IC!FastTooSmall(i) \/ IC!FastTooSmallComplete(i) \/ IC!MarkPending(i)
             \/ IC!DcRefuse(i) \/ IC!RefuseComplete(i)
    BY <2>1, <2>5, LoadingStutter DEF IC!InvalidRequest, IC!DcAcquire, IC!FastComplete,
       IC!FastTooSmall, IC!FastTooSmallComplete, IC!MarkPending, IC!DcRefuse,
       IC!RefuseComplete, IC!shared
  <2> QED
    BY <1>8, <2>3, <2>4, <2>5 DEF DispatchStep, IC!DispatchStep
<1>9. CASE UNCHANGED vars
  BY <1>9, LoadingStutter DEF vars, traffic, life, thread
<1> QED
  BY <1>1, <1>2, <1>3, <1>4, <1>5, <1>6, <1>7, <1>8, <1>9 DEF Next, Gone

----------------------------------------------------------------------------
(* Every step of the driver is a step of InvertedCall, or none. *)

\* A step that leaves InvertedCall's view of the driver as it is.
LEMMA CallsStutter ==
  ASSUME UNCHANGED traffic, Stage' = Stage
  PROVE  UNCHANGED IC!vars
BY DEF traffic, IC!vars, IC!shared, IC!loss, IC!evVars, IC!reqVars, IC!ioVars, IC!fileVars,
       IC!unloadVars

\* The stage changes with the loading and unloading thread only.
LEMMA StageKept ==
  ASSUME UNCHANGED <<pc, inside>>
  PROVE  Stage' = Stage
BY DEF Stage

\* Once the callbacks are removed, and before they are registered, none runs.
LEMMA NoCallbackRuns ==
  LCP!IndInv => (pc \in {"entry", "device", "symlink", "failed", "cancel", "unloaded"} =>
                   registered = {} /\ \A e \in Events : cb[e] = "out")
BY LCP!NoneRuns, HalvesAssume DEF LCP!UnsetPcs, LCP!TeardownPcs

\* The last removal is the step at which InvertedCall removes them all.
LEMMA RemovalIsDeregister ==
  ASSUME DriverInv, LCP!IndInv', RemovalStep
  PROVE  [IC!Next]_(IC!vars)
<1>1. /\ UNCHANGED <<traffic, inside>> /\ pc \in {"swap", "remove", "wait"}
      /\ pc' \in {"swap", "remove", "wait", "cancel"}
  BY DEF RemovalStep, LC!SwapFlag, LC!Remove, LC!WaitForCallback, LC!AdvanceUnload
<1>2. CASE pc' # "cancel"
  <2>1. Stage' = Stage
    BY <1>1, <1>2 DEF Stage
  <2> QED
    BY <1>1, <2>1, CallsStutter
<1>3. CASE pc' = "cancel"
  <2>1. Stage = "deregister" /\ Stage' = "cancel"
    BY <1>1, <1>3 DEF Stage
  <2>2. UNCHANGED cb
    BY DEF RemovalStep, LC!SwapFlag, LC!Remove, LC!WaitForCallback, LC!runVars
  <2>3. LCP!IndInv' => (pc \in {"entry", "device", "symlink", "failed", "cancel", "unloaded"} =>
                          registered = {} /\ \A e \in Events : cb[e] = "out")'
    BY NoCallbackRuns, PTL
  <2>4. \A e \in Events : cb[e] = "out"
    BY <1>3, <2>2, <2>3
  <2>5. \A e \in Events : IC!Idle(e) \/ IC!Returned(e)
    BY <2>4 DEF DriverInv, LinkInv, CallLink, IC!Idle, IC!Returned
  <2>6. IC!UnloadDeregister
    BY <1>1, <2>1, <2>5 DEF IC!UnloadDeregister, traffic, IC!shared, IC!loss, IC!evVars,
       IC!reqVars, IC!ioVars, IC!fileVars
  <2> QED
    BY <2>6 DEF IC!Next, IC!UnloadStep
<1> QED
  BY <1>2, <1>3

\* The other steps.
LEMMA CallsStep == DriverInv /\ LCP!IndInv' /\ [Next]_vars => [IC!Next]_(IC!vars)
<1> SUFFICES ASSUME DriverInv, LCP!IndInv', [Next]_vars PROVE [IC!Next]_(IC!vars)
  OBVIOUS
<1>1. CASE EntryStep
  <2>1. UNCHANGED traffic
    BY <1>1 DEF EntryStep
  <2>2. Stage' = Stage
    BY <1>1 DEF EntryStep, Stage, LC!EntryStep, LC!WireDispatch, LC!CreateDevice,
       LC!CreateDeviceFails, LC!CreateSymbolicLink, LC!CreateSymbolicLinkFails, LC!Register,
       LC!RegisterFails, LC!StoreCookie, LC!StoreFlag, LC!AdvanceEntry
  <2> QED
    BY <2>1, <2>2, CallsStutter
<1>2. CASE UnloadStart
  <2>1. Stage = "running" /\ Stage' = "deregister"
    BY <1>2 DEF UnloadStart, LC!UnloadStart, Stage
  <2>2. IC!UnloadStart
    BY <1>2, <2>1 DEF UnloadStart, IC!UnloadStart, traffic, IC!shared, IC!loss, IC!evVars,
       IC!reqVars, IC!ioVars, IC!fileVars
  <2> QED
    BY <2>2 DEF IC!Next, IC!Environment
<1>3. CASE UnloadStep
  <2>1. CASE RemovalStep
    BY <2>1, RemovalIsDeregister
  <2>2. CASE UnloadSwap \/ UnloadCancel \/ UnloadAcquire \/ UnloadPop \/ UnloadRelease
    BY <2>2 DEF UnloadSwap, UnloadCancel, UnloadAcquire, UnloadPop, UnloadRelease, IC!Next,
       IC!UnloadStep
  <2>3. CASE DeleteStep
    <3>1. UNCHANGED traffic
      BY <2>3 DEF DeleteStep
    <3>2. Stage' = Stage
      BY <2>3 DEF DeleteStep, Stage, LC!DeleteSymbolicLink,
       LC!DeleteSymbolicLinkFails, LC!DeleteDevice
    <3> QED
      BY <3>1, <3>2, CallsStutter
  <2> QED
    BY <1>3, <2>1, <2>2, <2>3 DEF UnloadStep
<1>4. ASSUME NEW e \in Events, CallbackStep(e)
      PROVE  [IC!Next]_(IC!vars)
  <2>1. CASE ReadCookie(e) \/ Return(e)
    <3>1. UNCHANGED traffic /\ UNCHANGED <<pc, inside>>
      BY <2>1 DEF ReadCookie, Return, LC!ReadCookie, LC!CallbackReturn
    <3> QED
      BY <3>1, StageKept, CallsStutter
  <2>2. CASE Allocate(e)
    <3>1. cb[e] # "out"
      BY <2>2 DEF Allocate, LC!HasEvent
    <3>2. of[e] \in Callbacks
      BY <3>1 DEF DriverInv, LCP!IndInv, LCP!RunInv, LCP!Callbacks, Callbacks
    <3>3. SizeOf[of[e]] \in Sizes
      BY <3>2, SizeAssumption
    <3> QED
      BY <2>2, <3>3 DEF Allocate, IC!Next, IC!Environment
  <2>3. CASE SubmitQuietly(e)
    BY <2>3 DEF SubmitQuietly, IC!Next, IC!CallbackStep
  <2>4. CASE Publish(e)
    BY <2>4 DEF Publish, IC!Next, IC!CallbackStep
  <2> QED
    BY <1>4, <2>1, <2>2, <2>3, <2>4 DEF CallbackStep
<1>5. ASSUME NEW e \in Events, NEW c \in Callbacks, Enter(e, c)
      PROVE  UNCHANGED IC!vars
  <2>1. UNCHANGED traffic /\ UNCHANGED <<pc, inside>>
    BY <1>5 DEF Enter, LC!CallbackEnter
  <2> QED
    BY <2>1, StageKept, CallsStutter
<1>6. ASSUME NEW f \in Files, Open(f) \/ UseHandle(f) \/ CleanupComplete(f)
      PROVE  IC!Next
  BY <1>6 DEF Open, UseHandle, CleanupComplete, IC!Next, IC!Environment
<1>7. ASSUME NEW i \in Irps, DispatchStep(i)
      PROVE  IC!Next
  BY <1>7 DEF DispatchStep, IC!Next
<1>8. CASE UNCHANGED vars
  BY <1>8, StageKept, CallsStutter DEF vars, life, thread
<1> QED
  BY <1>1, <1>2, <1>3, <1>4, <1>5, <1>6, <1>7, <1>8 DEF Next, Gone

----------------------------------------------------------------------------
(* What ties the halves together. *)

\* No step of the driver brings an event, a request or a handle before the link.
LEMMA AgentLinkStep == DriverInv /\ [Next]_vars => AgentLink'
<1> SUFFICES ASSUME DriverInv, [Next]_vars, pc' \in Unlinked
             PROVE  /\ \A f \in Files : fpc'[f] = "unopened"
                    /\ \A i \in Irps : ipc'[i] = "idle"
                    /\ \A e \in Events : epc'[e] = "idle"
  BY DEF AgentLink
<1>1. pc \in Unlinked
  <2>1. CASE EntryStep
    BY <2>1 DEF EntryStep, LC!EntryStep, LC!WireDispatch, LC!CreateDevice,
       LC!CreateDeviceFails, LC!CreateSymbolicLink, LC!CreateSymbolicLinkFails, LC!Register,
       LC!RegisterFails, LC!StoreCookie, LC!StoreFlag, LC!AdvanceEntry, Unlinked
  <2>2. CASE UnloadStart \/ UnloadStep
    BY <2>2 DEF UnloadStart, LC!UnloadStart, UnloadStep, RemovalStep, LC!SwapFlag, LC!Remove,
       LC!WaitForCallback, LC!AdvanceUnload, UnloadSwap, UnloadCancel, UnloadAcquire, UnloadPop,
       UnloadRelease, DeleteStep, LC!DeleteSymbolicLink,
       LC!DeleteSymbolicLinkFails, LC!DeleteDevice, life, thread, Unlinked
  <2>3. CASE pc' = pc
    BY <2>3
  <2>4. ASSUME NEW e \in Events, CallbackStep(e) \/ \E c \in Callbacks : Enter(e, c)
        PROVE  pc' = pc
    BY <2>4 DEF CallbackStep, ReadCookie, Allocate, SubmitQuietly, Publish, Return, Enter,
       LC!ReadCookie, LC!CallbackReturn, LC!CallbackEnter, life, thread
  <2>5. ASSUME NEW f \in Files, Open(f) \/ UseHandle(f) \/ CleanupComplete(f)
        PROVE  pc' = pc
    BY <2>5 DEF Open, UseHandle, CleanupComplete, life, thread
  <2> QED
    BY <2>1, <2>2, <2>3, <2>4, <2>5 DEF Next, DispatchStep, Gone, vars, life, thread
<1>2. /\ \A f \in Files : fpc[f] = "unopened"
      /\ \A i \in Irps : ipc[i] = "idle"
      /\ \A e \in Events : epc[e] = "idle"
  BY <1>1 DEF DriverInv, LinkInv, AgentLink
<1>3. \A e \in Events : cb[e] = "out"
  BY <1>1, NoCallbackRuns DEF DriverInv, Unlinked
<1>4. UNCHANGED <<fpc, ipc, epc>>
  <2>1. CASE EntryStep \/ UnloadStart \/ UnloadStep
    BY <2>1 DEF EntryStep, UnloadStart, UnloadStep, RemovalStep, UnloadSwap, UnloadCancel,
       UnloadAcquire, UnloadPop, UnloadRelease, DeleteStep, IC!UnloadSwap, IC!UnloadCancel,
       IC!UnloadAcquire, IC!UnloadPop, IC!UnloadRelease, traffic, IC!evVars, IC!reqVars,
       IC!fileVars
  <2>2. ASSUME NEW e \in Events, CallbackStep(e) \/ \E c \in Callbacks : Enter(e, c)
        PROVE  UNCHANGED <<fpc, ipc, epc>>
    <3>1. ~Allocate(e)
      BY <1>3 DEF Allocate, LC!HasEvent
    <3>2. ~SubmitQuietly(e) /\ ~Publish(e)
      BY <1>2 DEF SubmitQuietly, Publish, IC!make_header, IC!SubmitAcquire, IC!SubmitSwap,
         IC!SubmitDeliver, IC!DeliverComplete, IC!SubmitTooSmall, IC!TooSmallCount,
         IC!TooSmallComplete, IC!SubmitEnqueue
    <3> QED
      BY <2>2, <3>1, <3>2 DEF CallbackStep, ReadCookie, Return, Enter, traffic
  <2>3. ASSUME NEW f \in Files, Open(f) \/ UseHandle(f) \/ CleanupComplete(f)
        PROVE  UNCHANGED <<fpc, ipc, epc>>
    <3>1. ~Open(f)
      BY <1>1 DEF Open, LC!Reachable, Unlinked
    <3>2. ~UseHandle(f) /\ ~CleanupComplete(f)
      BY <1>2 DEF UseHandle, CleanupComplete, IC!CleanupSwap, IC!Close, IC!DeviceControl,
         IC!CleanupComplete
    <3> QED
      BY <2>3, <3>1, <3>2
  <2>4. ASSUME NEW i \in Irps, DispatchStep(i)
        PROVE  UNCHANGED <<fpc, ipc, epc>>
    BY <1>2, <2>4 DEF DispatchStep, IC!DispatchStep, IC!InvalidRequest, IC!DcAcquire, IC!DcPop,
       IC!FastComplete, IC!FastTooSmall, IC!FastTooSmallComplete, IC!DcPark, IC!MarkPending,
       IC!DcRefuse, IC!RefuseComplete
  <2> QED
    BY <2>1, <2>2, <2>3, <2>4 DEF Next, Gone, vars, traffic
<1> QED
  BY <1>2, <1>4

\* driver_unload goes through the cancellation and the drain in order.
LEMMA DrainLinkStep == DriverInv /\ [Next]_vars => DrainLink'
<1> SUFFICES ASSUME DriverInv, [Next]_vars PROVE DrainLink'
  OBVIOUS
<1> USE DEF DriverInv, LinkInv, DrainLink
<1>1. CASE EntryStep
  BY <1>1 DEF EntryStep, LC!EntryStep, LC!WireDispatch, LC!CreateDevice,
     LC!CreateDeviceFails, LC!CreateSymbolicLink, LC!CreateSymbolicLinkFails, LC!Register,
     LC!RegisterFails, LC!StoreCookie, LC!StoreFlag, LC!AdvanceEntry
<1>2. CASE UnloadStart \/ UnloadStep
  BY <1>2 DEF UnloadStart, LC!UnloadStart, UnloadStep, RemovalStep, LC!SwapFlag, LC!Remove,
     LC!WaitForCallback, LC!AdvanceUnload, UnloadSwap, UnloadCancel, UnloadAcquire, UnloadPop,
     UnloadRelease, DeleteStep, LC!DeleteSymbolicLink,
       LC!DeleteSymbolicLinkFails, LC!DeleteDevice, life, thread
<1>3. CASE UNCHANGED <<pc, inside>>
  BY <1>3
<1>4. ASSUME NEW e \in Events, CallbackStep(e) \/ \E c \in Callbacks : Enter(e, c)
      PROVE  UNCHANGED <<pc, inside>>
  BY <1>4 DEF CallbackStep, ReadCookie, Allocate, SubmitQuietly, Publish, Return, Enter,
     LC!ReadCookie, LC!CallbackReturn, LC!CallbackEnter, life, thread
<1>5. ASSUME NEW f \in Files, Open(f) \/ UseHandle(f) \/ CleanupComplete(f)
      PROVE  UNCHANGED <<pc, inside>>
  BY <1>5 DEF Open, UseHandle, CleanupComplete, life, thread
<1> QED
  BY <1>1, <1>2, <1>3, <1>4, <1>5 DEF Next, DispatchStep, Gone, vars, life, thread

\* A step that changes neither the invocations nor their events.
LEMMA CallLinkKept ==
  ASSUME CallLink, UNCHANGED <<cb, seen, epc, taken>>
  PROVE  CallLink'
BY DEF CallLink, LC!HasEvent

\* A step of the invocation of e: it is enough to look at e.
LEMMA CallLinkOne ==
  ASSUME CallLink, NEW e \in Events,
         \A d \in Events \ {e} : /\ cb'[d] = cb[d] /\ seen'[d] = seen[d]
                                 /\ epc'[d] = epc[d] /\ taken'[d] = taken[d],
         cb'[e] = "out" => epc'[e] \in {"idle", "oom", "returned"},
         epc'[e] \in {"allocated", "stamped", "locked"} \/ (epc'[e] = "swapped" /\ taken'[e] = NULL)
           => LC!HasEvent(e)'
  PROVE  CallLink'
<1>1. \A d \in Events : cb'[d] = "out" => epc'[d] \in {"idle", "oom", "returned"}
  BY DEF CallLink
<1>2. \A d \in Events \ {e} : LC!HasEvent(d) => LC!HasEvent(d)'
  BY DEF LC!HasEvent
<1>3. ASSUME NEW d \in Events,
             epc'[d] \in {"allocated", "stamped", "locked"} \/ (epc'[d] = "swapped" /\ taken'[d] = NULL)
      PROVE  LC!HasEvent(d)'
  BY <1>2, <1>3 DEF CallLink
<1> QED
  BY <1>1, <1>3 DEF CallLink

\* A callback submits while it is in, and returns when it is done.
LEMMA CallLinkStep == DriverInv /\ [Next]_vars => CallLink'
<1> SUFFICES ASSUME DriverInv, [Next]_vars PROVE CallLink'
  OBVIOUS
<1> USE DEF DriverInv, LinkInv
<1>1. CASE EntryStep
  BY <1>1, CallLinkKept DEF EntryStep, LC!EntryStep, LC!WireDispatch, LC!CreateDevice,
     LC!CreateDeviceFails, LC!CreateSymbolicLink, LC!CreateSymbolicLinkFails, LC!Register,
     LC!RegisterFails, LC!StoreCookie, LC!StoreFlag, LC!runVars, traffic
<1>2. CASE UnloadStart \/ UnloadStep
  <2>1. CASE UnloadStart \/ RemovalStep \/ DeleteStep
    BY <2>1, CallLinkKept DEF UnloadStart, LC!UnloadStart, RemovalStep, LC!SwapFlag, LC!Remove,
       LC!WaitForCallback, DeleteStep, LC!DeleteSymbolicLink,
       LC!DeleteSymbolicLinkFails, LC!DeleteDevice, LC!runVars,
       traffic
  <2>2. CASE UnloadSwap \/ UnloadCancel \/ UnloadAcquire \/ UnloadPop \/ UnloadRelease
    BY <2>2, CallLinkKept DEF UnloadSwap, UnloadCancel, UnloadAcquire, UnloadPop,
       UnloadRelease, IC!UnloadSwap, IC!UnloadCancel, IC!UnloadAcquire, IC!UnloadPop,
       IC!UnloadRelease, IC!evVars, calls, life
  <2> QED
    BY <1>2, <2>1, <2>2 DEF UnloadStep
<1>3. ASSUME NEW e \in Events, CallbackStep(e) \/ \E c \in Callbacks : Enter(e, c)
      PROVE  CallLink'
  <2>1. /\ cb \in [Events -> {"out", "in", "resolved", "submitted"}]
        /\ DOMAIN of = Events /\ DOMAIN seen = Events
        /\ DOMAIN epc = Events /\ DOMAIN taken = Events
    BY DEF LCP!IndInv, LCP!TypeOK, ICP!IndInv, ICP!TypeOK
  <2>2. CASE ReadCookie(e) \/ \E c \in Callbacks : Enter(e, c)
    BY <2>1, <2>2, CallLinkOne DEF ReadCookie, Enter, LC!ReadCookie, LC!CallbackEnter, IC!Idle,
       traffic
  <2>3. CASE Return(e)
    BY <2>1, <2>3, CallLinkOne DEF Return, LC!CallbackReturn, IC!Idle, IC!Returned, traffic
  <2>4. CASE Allocate(e)
    <3>1. LC!HasEvent(e) /\ UNCHANGED <<cb, seen>>
      BY <2>4 DEF Allocate, life, calls
    <3>2. LC!HasEvent(e)' /\ cb'[e] # "out"
      BY <3>1 DEF LC!HasEvent
    <3> QED
      BY <2>1, <2>4, <3>1, <3>2, CallLinkOne DEF Allocate, IC!AllocFail, IC!AllocEvent
  <2>5. CASE SubmitQuietly(e)
    <3>1. UNCHANGED <<cb, seen>>
      BY <2>5 DEF SubmitQuietly, life, calls
    <3>2. LC!HasEvent(e) => LC!HasEvent(e)'
      BY <3>1 DEF LC!HasEvent
    <3>3. epc[e] \in {"allocated", "stamped", "locked"} => LC!HasEvent(e)
      BY DEF CallLink
    <3>4. \A d \in Events \ {e} : epc'[d] = epc[d] /\ taken'[d] = taken[d]
      BY <2>1, <2>5 DEF SubmitQuietly, IC!make_header, IC!SubmitAcquire, IC!SubmitSwap,
         IC!SubmitDeliver, IC!DeliverComplete, IC!SubmitTooSmall, IC!TooSmallCount,
         IC!TooSmallComplete
    <3>5. /\ epc'[e] \in {"stamped", "locked", "swapped"} =>
               epc[e] \in {"allocated", "stamped", "locked"}
          /\ epc'[e] \in {"stamped", "locked", "swapped", "delivering", "dropping", "failing",
                          "returned"}
          /\ epc[e] \in {"allocated", "stamped", "locked", "swapped", "delivering", "dropping",
                         "failing"}
      BY <2>1, <2>5 DEF SubmitQuietly, IC!make_header, IC!SubmitAcquire, IC!SubmitSwap,
         IC!SubmitDeliver, IC!DeliverComplete, IC!SubmitTooSmall, IC!TooSmallCount,
         IC!TooSmallComplete
    <3>6. cb'[e] # "out"
      BY <3>1, <3>5 DEF CallLink
    <3> QED
      BY <3>1, <3>2, <3>3, <3>4, <3>5, <3>6, CallLinkOne
  <2>6. CASE Publish(e)
    <3>1. cb' = [cb EXCEPT ![e] = "submitted"] /\ UNCHANGED seen
      BY <2>6 DEF Publish
    <3>2. /\ \A d \in Events \ {e} : epc'[d] = epc[d] /\ taken'[d] = taken[d]
          /\ epc'[e] = "returned" \/ (epc'[e] = "swapped" /\ taken'[e] # NULL)
      BY <2>1, <2>6 DEF Publish, IC!SubmitSwap, IC!SubmitEnqueue
    <3> QED
      BY <2>1, <3>1, <3>2, CallLinkOne
  <2> QED
    BY <1>3, <2>2, <2>3, <2>4, <2>5, <2>6 DEF CallbackStep
<1>4. ASSUME NEW f \in Files, Open(f) \/ UseHandle(f) \/ CleanupComplete(f)
      PROVE  CallLink'
  BY <1>4, CallLinkKept DEF Open, UseHandle, CleanupComplete, IC!Open, IC!CleanupSwap,
     IC!Close, IC!DeviceControl, IC!CleanupComplete, IC!evVars, life, calls
<1>5. ASSUME NEW i \in Irps, DispatchStep(i)
      PROVE  CallLink'
  BY <1>5, CallLinkKept DEF DispatchStep, IC!DispatchStep, IC!InvalidRequest, IC!DcAcquire,
     IC!DcPop, IC!FastComplete, IC!FastTooSmall, IC!FastTooSmallComplete, IC!DcPark,
     IC!MarkPending, IC!DcRefuse, IC!RefuseComplete, IC!evVars, life, calls
<1>6. CASE UNCHANGED vars
  BY <1>6, CallLinkKept DEF vars, traffic, life, calls
<1> QED
  BY <1>1, <1>2, <1>3, <1>4, <1>5, <1>6 DEF Next, Gone

----------------------------------------------------------------------------
(* The theorems. *)

\* The initial states are those of both halves.
LEMMA DriverInit == Init => IC!Init /\ LC!Init /\ DriverInv
<1> SUFFICES ASSUME Init PROVE DriverInv
  BY DEF Init
<1>1. ICP!IndInv
  <2>1. ICP!Init
    BY DEF Init, IC!Init, ICP!Init
  <2> QED
    BY <2>1, ICP!InitInv, HalvesAssume
<1>2. LCP!IndInv
  <2>1. LCP!Init
    BY DEF Init, LC!Init, LCP!Init, LC!Callbacks, LCP!Callbacks
  <2> QED
    BY <2>1, LCP!InitInv, HalvesAssume
<1>3. LinkInv
  BY DEF Init, IC!Init, LC!Init, LinkInv, CallLink, AgentLink, DrainLink
<1> QED
  BY <1>1, <1>2, <1>3 DEF DriverInv

\* Every step is a step of Lifecycle, hence keeps its invariant, hence is a step of
\* InvertedCall too.
LEMMA DriverStep ==
  DriverInv /\ [Next]_vars =>
    [IC!Next]_(IC!vars) /\ [LC!Next]_(LC!vars) /\ DriverInv'
<1> SUFFICES ASSUME DriverInv, [Next]_vars
             PROVE  [IC!Next]_(IC!vars) /\ [LC!Next]_(LC!vars) /\ DriverInv'
  OBVIOUS
<1>1. [LC!Next]_(LC!vars)
  BY LoadingStep
<1>2. LCP!IndInv'
  BY <1>1, LoadingKept DEF DriverInv
<1>3. [IC!Next]_(IC!vars)
  BY <1>2, CallsStep
<1>4. ICP!IndInv'
  BY <1>3, CallsKept DEF DriverInv
<1>5. LinkInv'
  BY CallLinkStep, AgentLinkStep, DrainLinkStep DEF LinkInv
<1> QED
  BY <1>1, <1>2, <1>3, <1>4, <1>5 DEF DriverInv

\* The invariant holds throughout.
LEMMA DriverInvariant == Spec => []DriverInv
BY DriverInit, DriverStep, PTL DEF Spec

\* Loading and unloading step by step come to what InvertedCall assumes of
\* driver_entry and driver_unload.
THEOREM CallsRefined == Spec => ImplementsInvertedCall
BY DriverInit, DriverStep, DriverInvariant, PTL DEF Spec, ImplementsInvertedCall, IC!Spec

\* The threads, step by step, come to what Lifecycle assumes of callbacks and
\* requests.
THEOREM LoadingRefined == Spec => ImplementsLifecycle
BY DriverInit, DriverStep, DriverInvariant, PTL DEF Spec, ImplementsLifecycle, LC!Spec

\* The driver keeps to its types while it is loaded, used and unloaded: no buffer is
\* freed twice and no request completed twice.
THEOREM DriverTypeCorrect == Spec => []TypeOK
<1>1. DriverInv => TypeOK
  <2> SUFFICES ASSUME DriverInv PROVE TypeOK
    OBVIOUS
  <2>1. IC!TypeOK
    BY DEF DriverInv, ICP!IndInv, ICP!TypeOK, ICP!Threads, IC!TypeOK, IC!Threads
  <2>2. LC!TypeOK
    BY DEF DriverInv, LCP!IndInv, LCP!TypeOK, LCP!EntryPcs, LCP!RemovalPcs, LCP!TeardownPcs,
       LCP!Callbacks, LC!TypeOK, LC!EntryPcs, LC!RemovalPcs, LC!TeardownPcs, LC!Callbacks
  <2>3. inside \in {"none", "cancelling", "drain", "draining"}
    BY DEF DriverInv, LinkInv, DrainLink
  <2> QED
    BY <2>1, <2>2, <2>3 DEF TypeOK
<1> QED
  BY <1>1, DriverInvariant, PTL

\* Without a link, no thread holds the lock.
LEMMA UnlinkedIsFree ==
  ASSUME DriverInv, pc \in Unlinked
  PROVE  lock = NULL
<1>1. (\A i \in Irps : ipc[i] = "idle") /\ (\A e \in Events : epc[e] = "idle")
  BY DEF DriverInv, LinkInv, AgentLink
<1>2. Stage = "running"
  BY Stages DEF Unlinked
<1> QED
  BY <1>1, <1>2 DEF DriverInv, ICP!IndInv, ICP!TypeOK, ICP!Threads, ICP!LockInv

\* QUEUE_LOCK is never taken before driver_entry has initialised it.
THEOREM LockIsInitialised == Spec => []LockInitialised
<1>1. DriverInv => LockInitialised
  <2> SUFFICES ASSUME DriverInv, lock # NULL PROVE QUEUE_LOCK
    BY DEF LockInitialised
  <2>1. pc # "entry"
    BY UnlinkedIsFree DEF Unlinked
  <2> QED
    BY <2>1 DEF DriverInv, LCP!IndInv, LCP!DeviceInv
<1> QED
  BY <1>1, DriverInvariant, PTL

\* When the image goes, no thread is in it, nothing points into it, and nothing it
\* owed is left, whether the load failed or the unload ended.
THEOREM NothingIsLeft == Spec => []NothingOutlivesImage
<1>1. DriverInv => NothingOutlivesImage
  <2> SUFFICES ASSUME DriverInv, pc \in {"failed", "unloaded"}
               PROVE  /\ registered = {} /\ ~device /\ symlink # "present"
                      /\ lock = NULL
                      /\ \A e \in Events : cb[e] = "out" /\ pool[e] # "live"
                      /\ \A i \in Irps : io[i] # "owned" /\ ipc[i] \in {"idle", "returned"}
                      /\ \A f \in Files : fpc[f] # "cleanup"
    BY DEF NothingOutlivesImage
  <2>1. registered = {} /\ \A e \in Events : cb[e] = "out"
    BY NoCallbackRuns DEF DriverInv
  <2>2. ~device /\ symlink # "present"
    BY DEF DriverInv, LCP!IndInv, LCP!DeviceInv, LCP!UnsetPcs
  <2>3. CASE pc = "failed"
    <3>1. /\ \A f \in Files : fpc[f] = "unopened"
          /\ \A i \in Irps : ipc[i] = "idle"
          /\ \A e \in Events : epc[e] = "idle"
      BY <2>3 DEF DriverInv, LinkInv, AgentLink, Unlinked
    <3>2. lock = NULL
      BY <2>3, UnlinkedIsFree DEF Unlinked
    <3>3. \A e \in Events : pool[e] = "none"
      BY <3>1 DEF DriverInv, ICP!IndInv, ICP!BufferInv
    <3>4. \A i \in Irps : io[i] = "agent"
      BY <3>1 DEF DriverInv, ICP!IndInv, ICP!IrpInv
    <3> QED
      BY <2>1, <2>2, <3>1, <3>2, <3>3, <3>4
  <2>4. CASE pc = "unloaded"
    <3>1. Stage = "unloaded"
      BY <2>4, Stages
    <3>2. /\ \A i \in Irps : ipc[i] \in {"idle", "returned"}
          /\ \A f \in Files : fpc[f] # "cleanup"
          /\ \A e \in Events : epc[e] \in {"idle", "oom", "returned"}
          /\ PENDING_IRP = NULL /\ queue = << >>
      BY <3>1 DEF DriverInv, ICP!IndInv, ICP!UnloadInv, ICP!Idle, ICP!Returned
    <3>3. lock = NULL
      BY <3>1, <3>2 DEF DriverInv, ICP!IndInv, ICP!TypeOK, ICP!Threads, ICP!LockInv
    <3>4. ASSUME NEW i \in Irps PROVE io[i] # "owned"
      <4>1. i # NULL
        BY ThreadsAssumption
      <4>2. \A h \in ICP!Holders : ~ICP!Held(h, i)
        BY <3>1, <3>2, <4>1 DEF ICP!Held, ICP!DispatchHas, ICP!CallbackHas, ICP!CleanupHas,
           ICP!UnloadHas
      <4> QED
        BY <4>2 DEF DriverInv, ICP!IndInv, ICP!IrpInv
    <3>5. ASSUME NEW e \in Events PROVE pool[e] # "live"
      <4>1. \A h \in ICP!Owners : ~ICP!Owned(h, e)
        BY <3>2 DEF ICP!Owned, ICP!CallbackOwns, ICP!RequestOwns, ICP!Elements
      <4> QED
        BY <4>1 DEF DriverInv, ICP!IndInv, ICP!BufferInv
    <3> QED
      BY <2>1, <2>2, <3>2, <3>3, <3>4, <3>5
  <2> QED
    BY <2>3, <2>4
<1> QED
  BY <1>1, DriverInvariant, PTL

\* So what is proved of InvertedCall holds of the whole driver, also while it is
\* being loaded and unloaded: no wake-up is lost, requests and buffers have one
\* owner, losses are counted once, no event vanishes, and the answers are right.
THEOREM DriverServes ==
  Spec => []/\ IC!NoLostWakeup /\ IC!OneIrpHolder /\ IC!OneBufferHolder
            /\ IC!LossesCountedOnce /\ IC!NoSilentLoss
            /\ IC!AnswersCorrect /\ IC!AnswerDelivered
<1>1. Spec => ICP!Spec
  <2>1. IC!Init => ICP!Init
    BY DEF IC!Init, ICP!Init
  <2> QED
    BY <2>1, CallsRefined, SameCalls, PTL DEF ImplementsInvertedCall, IC!Spec, ICP!Spec
<1>2. ICP!Spec => []ICP!NoLostWakeup /\ []ICP!OneIrpHolder /\ []ICP!OneBufferHolder
  BY ICP!NoWakeupIsLost, ICP!RequestsHaveOneHolder, ICP!BuffersHaveOneHolder, HalvesAssume
<1>3. ICP!Spec => []ICP!LossesCountedOnce /\ []ICP!NoSilentLoss
  BY ICP!LossesAreCountedOnce, ICP!NoEventVanishes, HalvesAssume
<1>4. ICP!Spec => []ICP!AnswersCorrect /\ []ICP!AnswerDelivered
  BY ICP!AnswersAreCorrect, ICP!AnswersAreDelivered, HalvesAssume
<1>5. ICP!NoLostWakeup => IC!NoLostWakeup
  BY DEF ICP!NoLostWakeup, IC!NoLostWakeup
<1>6. ICP!OneIrpHolder => IC!OneIrpHolder
  BY DEF ICP!OneIrpHolder, ICP!IrpHolders, ICP!Threads, ICP!DispatchHas, ICP!CallbackHas,
     ICP!CleanupHas, ICP!UnloadHas, IC!OneIrpHolder, IC!IrpHolders, IC!Threads,
     IC!DispatchHas, IC!CallbackHas, IC!CleanupHas, IC!UnloadHas
<1>7. ICP!OneBufferHolder => IC!OneBufferHolder
  BY DEF ICP!OneBufferHolder, ICP!BufferHolders, ICP!Threads, ICP!CallbackOwns,
     ICP!RequestOwns, IC!OneBufferHolder, IC!BufferHolders, IC!Threads, IC!CallbackOwns,
     IC!RequestOwns
<1>8. ICP!LossesCountedOnce => IC!LossesCountedOnce
  BY DEF ICP!LossesCountedOnce, ICP!Reported, IC!LossesCountedOnce, IC!Reported,
     ICP!Cardinality, IC!Cardinality, ICP!IsFiniteSet, IC!IsFiniteSet
<1>9. ICP!NoSilentLoss => IC!NoSilentLoss
  BY DEF ICP!NoSilentLoss, ICP!Reported, ICP!Returned, IC!NoSilentLoss, IC!Reported,
     IC!Returned
<1>10. ICP!AnswersCorrect => IC!AnswersCorrect
  BY DEF ICP!AnswersCorrect, IC!AnswersCorrect
<1>11. ICP!AnswerDelivered => IC!AnswerDelivered
  BY DEF ICP!AnswerDelivered, ICP!Answer, ICP!Offer, ICP!Fits, IC!AnswerDelivered, IC!Answer,
     IC!Offer, IC!Fits
<1> QED
  BY <1>1, <1>2, <1>3, <1>4, <1>5, <1>6, <1>7, <1>8, <1>9, <1>10, <1>11, PTL

\* And what is proved of Lifecycle: no callback is removed that the kernel does not
\* have, none runs once the parked request is cancelled and the queue drained, and
\* no registry callback that outlives its own removal's start finds the cookie gone.
THEOREM DriverUnloads ==
  Spec => /\ []/\ LC!NoDoubleRemove /\ LC!QuietTeardown
               /\ LC!FailureLeavesNothing /\ LC!UnloadLeavesNothing
          /\ LC!CookieWindow
<1>1. Spec => LCP!Spec
  <2>1. LC!Init => LCP!Init
    BY DEF LC!Init, LCP!Init, LC!Callbacks, LCP!Callbacks
  <2> QED
    BY <2>1, LoadingRefined, SameLoading, PTL DEF ImplementsLifecycle, LC!Spec, LCP!Spec
<1>2. LCP!Spec => []LCP!NoDoubleRemove /\ []LCP!QuietTeardown /\ LCP!CookieWindow
  BY LCP!RemovalIsSafe, LCP!TeardownIsQuiet, LCP!OnlyEarlyReadsMiss, HalvesAssume
<1>3. LCP!Spec => []LCP!FailureLeavesNothing /\ []LCP!UnloadLeavesNothing
  BY LCP!FailedLoadLeavesNothing, LCP!UnloadIsComplete, HalvesAssume
<1>4. /\ LCP!NoDoubleRemove => LC!NoDoubleRemove
      /\ LCP!QuietTeardown => LC!QuietTeardown
  BY DEF LCP!NoDoubleRemove, LC!NoDoubleRemove, LCP!QuietTeardown, LC!QuietTeardown,
     LCP!TeardownPcs, LC!TeardownPcs
<1>5. /\ LCP!FailureLeavesNothing => LC!FailureLeavesNothing
      /\ LCP!UnloadLeavesNothing => LC!UnloadLeavesNothing
  BY DEF LCP!FailureLeavesNothing, LC!FailureLeavesNothing, LCP!UnloadLeavesNothing,
     LC!UnloadLeavesNothing
<1>6. [LCP!MissOnlyBeforeStore]_(LCP!vars) => [LC!MissOnlyBeforeStore]_(LC!vars)
  BY DEF LCP!MissOnlyBeforeStore, LC!MissOnlyBeforeStore, LCP!vars, LC!vars, LCP!setup, LC!setup, LCP!devVars, LC!devVars, LCP!regVars,
     LC!regVars, LCP!runVars, LC!runVars
<1>7. LCP!CookieWindow => LC!CookieWindow
  BY <1>6, PTL DEF LCP!CookieWindow, LC!CookieWindow
<1> QED
  BY <1>1, <1>2, <1>3, <1>4, <1>5, <1>7, PTL

\* The whole driver is the bounded feed its agent relies on, from the load to the
\* unload.
THEOREM DriverFeeds == Spec => IC!ImplementsFeed
<1>1. Spec => ICP!Spec
  <2>1. IC!Init => ICP!Init
    BY DEF IC!Init, ICP!Init
  <2> QED
    BY <2>1, CallsRefined, SameCalls, PTL DEF ImplementsInvertedCall, IC!Spec, ICP!Spec
<1>2. ICP!Spec => ICP!Feed!Spec
  BY ICP!FeedRefines, HalvesAssume DEF ICP!ImplementsFeed
<1>3. /\ \A i : ICP!Answer(i) = IC!Answer(i)
      /\ \A e : ICP!Published(e) <=> IC!Published(e)
  BY DEF ICP!Answer, ICP!Offer, ICP!Fits, IC!Answer, IC!Offer, IC!Fits, ICP!Published,
     IC!Published
<1>4. ICP!Feed!Init => IC!Feed!Init
  BY <1>3 DEF ICP!Feed!Init, IC!Feed!Init
<1>5. [ICP!Feed!Next]_(ICP!Feed!vars) => [IC!Feed!Next]_(IC!Feed!vars)
  <2> SUFFICES ASSUME [ICP!Feed!Next]_(ICP!Feed!vars) PROVE [IC!Feed!Next]_(IC!Feed!vars)
    OBVIOUS
  <2> QED
    BY DEF ICP!Answer, ICP!Offer, ICP!Fits, IC!Answer, IC!Offer, IC!Fits, ICP!Published,
       IC!Published,
       ICP!Feed!Next, IC!Feed!Next, ICP!Feed!Publish, IC!Feed!Publish, ICP!Feed!Serve,
       IC!Feed!Serve, ICP!Feed!Give, IC!Feed!Give, ICP!Feed!Take, IC!Feed!Take,
       ICP!Feed!Wait, IC!Feed!Wait, ICP!Feed!Refuse, IC!Feed!Refuse, ICP!Feed!Reject,
       IC!Feed!Reject, ICP!Feed!Cancel, IC!Feed!Cancel, ICP!Feed!Discard, IC!Feed!Discard,
       ICP!Feed!Fresh, IC!Feed!Fresh, ICP!Feed!vars, IC!Feed!vars
<1> QED
  BY <1>1, <1>2, <1>4, <1>5, PTL DEF IC!ImplementsFeed, ICP!Feed!Spec, IC!Feed!Spec
=============================================================================
