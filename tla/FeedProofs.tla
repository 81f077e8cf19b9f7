----------------------------- MODULE FeedProofs -----------------------------
(***************************************************************************)
(* The inverted call implements the bounded feed of module EventFeed: the  *)
(* answer a request gets is fixed by one step of one thread, and is the    *)
(* one the request is completed with.                                      *)
(***************************************************************************)
EXTENDS LossProofs

----------------------------------------------------------------------------
(* The inductive invariant. *)

\* h has fixed the answer of request i: the callback, cleanup or unload that took
\* it out of PENDING_IRP, or its own dispatch routine, which popped an event.
Claimants == Events \cup Irps \cup Files \cup {UNLOAD}
Claimed(h, i) ==
  \/ h \in Events /\ taken[h] = i
  \/ h = i /\ slot[i] # NULL
  \/ h \in Files /\ ftaken[h] = i
  \/ h = UNLOAD /\ utaken = i
Unclaimed(i) == \A h \in Claimants : ~Claimed(h, i)

\* A request is claimed once, after it was parked or by its own dispatch routine.
ClaimInv ==
  /\ \A i \in Irps, g, h \in Claimants : Claimed(g, i) /\ Claimed(h, i) => g = h
  /\ \A i \in Irps, h \in Claimants : Claimed(h, i) =>
       /\ PENDING_IRP # i
       /\ h = i => ipc[i] \in {"popped", "failing", "returned"}
       /\ h # i => ipc[i] \in {"parked", "returned"}
  /\ PENDING_IRP # NULL => ipc[PENDING_IRP] \in {"parked", "returned"}

\* A thread that has not come to it yet has claimed nothing; a popped event is one
\* whose callback has returned.
FreshInv ==
  /\ \A e \in Events :
       epc[e] \in {"idle", "oom", "allocated", "stamped", "locked"} => taken[e] = NULL
  /\ \A i \in Irps : slot[i] # NULL => epc[slot[i]] = "returned"
  /\ \A f \in Files : fpc[f] \in {"unopened", "open"} => ftaken[f] = NULL
  /\ upc \in {"running", "deregister", "cancel"} => utaken = NULL

\* The status request i has been completed with, if any, is that of its claim.
Told(i) ==
  /\ status[i] = "SUCCESS" =>
       /\ sysbuf[i] \in Events /\ Fits(sysbuf[i], i)
       /\ taken[sysbuf[i]] = i \/ slot[i] = sysbuf[i]
  /\ status[i] = "BUFFER_TOO_SMALL" =>
       \E e \in Events : (taken[e] = i \/ slot[i] = e) /\ ~Fits(e, i)
  /\ status[i] = "CANCELLED" => utaken = i \/ \E f \in Files : ftaken[f] = i
  /\ status[i] \in {"UNSUCCESSFUL", "INVALID_DEVICE_REQUEST"} => Unclaimed(i)

ToldInv ==
  \A i \in Irps :
    /\ io[i] # "done" => status[i] = "none"
    /\ io[i] = "done" => status[i] # "none" /\ PENDING_IRP # i /\ Told(i)

FeedInv == LossInv /\ ClaimInv /\ FreshInv /\ ToldInv

----------------------------------------------------------------------------
(* Who has claimed a request. *)

\* A step that claims nothing.
LEMMA ClaimKept ==
  ASSUME ClaimInv, UNCHANGED <<taken, slot, ftaken, utaken>>,
         PENDING_IRP' = PENDING_IRP,
         \A i \in Irps :
           /\ ipc[i] \in {"popped", "failing", "returned"} =>
                ipc'[i] \in {"popped", "failing", "returned"}
           /\ ipc[i] \in {"parked", "returned"} => ipc'[i] \in {"parked", "returned"},
         TypeOK
  PROVE  ClaimInv'
<1>1. \A i \in Irps, h \in Claimants : Claimed(h, i)' <=> Claimed(h, i)
  BY DEF Claimed
<1>2. PENDING_IRP # NULL => PENDING_IRP \in Irps
  BY DEF TypeOK
<1> QED
  BY <1>1, <1>2 DEF ClaimInv, Claimants

\* A step that swaps the parked request r out of PENDING_IRP: now g has claimed it.
LEMMA ClaimParked ==
  ASSUME ClaimInv, NEW r \in Irps, PENDING_IRP = r, PENDING_IRP' = NULL, UNCHANGED ipc,
         NEW g \in Claimants, g # r,
         \A i \in Irps, h \in Claimants : Claimed(h, i)' <=> Claimed(h, i) \/ (h = g /\ i = r)
  PROVE  ClaimInv'
<1>1. \A h \in Claimants : ~Claimed(h, r)
  BY DEF ClaimInv
<1>2. ipc[r] \in {"parked", "returned"} /\ r # NULL
  BY ThreadsAssumption DEF ClaimInv
<1>3. \A i \in Irps : NULL # i
  BY ThreadsAssumption
<1>4. \A i \in Irps, f, h \in Claimants : Claimed(f, i)' /\ Claimed(h, i)' => f = h
  BY <1>1 DEF ClaimInv
<1>5. \A i \in Irps, h \in Claimants : Claimed(h, i)' =>
        /\ PENDING_IRP' # i
        /\ h = i => ipc'[i] \in {"popped", "failing", "returned"}
        /\ h # i => ipc'[i] \in {"parked", "returned"}
  BY <1>2, <1>3 DEF ClaimInv
<1> QED
  BY <1>4, <1>5 DEF ClaimInv, Claimants

\* The claimants, told apart.
LEMMA ClaimantKinds ==
  /\ \A e \in Events : e \in Claimants /\ e \notin Irps /\ e \notin Files /\ e # UNLOAD
  /\ \A i \in Irps : i \in Claimants /\ i \notin Events /\ i \notin Files /\ i # UNLOAD
  /\ \A f \in Files : f \in Claimants /\ f \notin Events /\ f \notin Irps /\ f # UNLOAD
  /\ UNLOAD \in Claimants /\ UNLOAD \notin Events /\ UNLOAD \notin Irps /\ UNLOAD \notin Files
  /\ \A x \in Claimants : x # NULL
BY ThreadsAssumption DEF Claimants

\* Every step claims a request that nobody had claimed.
LEMMA ClaimStep ==
  ASSUME FeedInv, [Next]_vars
  PROVE  ClaimInv'
<1> USE DEF FeedInv, LossInv, IndInv, shared, loss, evVars, reqVars, ioVars, fileVars,
           unloadVars
<1>1. ASSUME NEW e \in Events, NEW n \in Sizes, AllocEvent(e, n)
      PROVE  ClaimInv'
  BY <1>1, ClaimKept DEF AllocEvent, Idle, TypeOK
<1>2. ASSUME NEW e \in Events, AllocFail(e)
      PROVE  ClaimInv'
  BY <1>2, ClaimKept DEF AllocFail, Idle, TypeOK
<1>3. ASSUME NEW f \in Files, Open(f)
      PROVE  ClaimInv'
  BY <1>3, ClaimKept DEF Open, TypeOK
<1>4. ASSUME NEW f \in Files, CleanupSwap(f)
      PROVE  ClaimInv'
  <2>1. /\ UNCHANGED <<taken, slot, utaken, ipc>> /\ PENDING_IRP' = NULL
        /\ ftaken' = [ftaken EXCEPT ![f] = PENDING_IRP]
    BY <1>4 DEF CleanupSwap
  <2>2. ftaken[f] = NULL
    BY <1>4 DEF CleanupSwap, FreshInv
  <2>3. CASE PENDING_IRP = NULL
    <3>1. ftaken' = ftaken
      BY <2>1, <2>2, <2>3 DEF TypeOK
    <3> QED
      BY <2>1, <2>3, <3>1, ClaimKept
  <2>4. ASSUME NEW r \in Irps, PENDING_IRP = r PROVE ClaimInv'
    <3>1. \A i \in Irps, h \in Claimants : Claimed(h, i)' <=> Claimed(h, i) \/ (h = f /\ i = r)
      BY <2>1, <2>2, <2>4, ClaimantKinds DEF Claimed, TypeOK
    <3> QED
      BY <2>1, <2>4, <3>1, ClaimantKinds, ClaimParked
  <2> QED
    BY <2>3, <2>4 DEF TypeOK
<1>5. ASSUME NEW f \in Files, Close(f)
      PROVE  ClaimInv'
  BY <1>5, ClaimKept DEF Close, TypeOK
<1>6. ASSUME NEW i \in Irps, NEW f \in Files, NEW n \in Sizes, DeviceControl(i, f, n)
      PROVE  ClaimInv'
  BY <1>6, ClaimKept DEF DeviceControl, TypeOK
<1>7. CASE UnloadStart
  BY <1>7, ClaimKept DEF UnloadStart, TypeOK
<1>8. ASSUME NEW f \in Files, CleanupComplete(f)
      PROVE  ClaimInv'
  BY <1>8, ClaimKept DEF CleanupComplete, TypeOK
<1>9. ASSUME NEW e \in Events, CallbackStep(e)
      PROVE  ClaimInv'
  <2>1. CASE make_header(e)
    BY <2>1, ClaimKept DEF make_header, TypeOK
  <2>2. CASE SubmitAcquire(e)
    BY <2>2, ClaimKept DEF SubmitAcquire, TypeOK
  <2>3. CASE SubmitSwap(e)
    <3>1. /\ UNCHANGED <<ftaken, slot, utaken, ipc>> /\ PENDING_IRP' = NULL
          /\ taken' = [taken EXCEPT ![e] = PENDING_IRP]
      BY <2>3 DEF SubmitSwap
    <3>2. taken[e] = NULL
      BY <2>3 DEF SubmitSwap, FreshInv
    <3>3. CASE PENDING_IRP = NULL
      <4>1. taken' = taken
        BY <3>1, <3>2, <3>3 DEF TypeOK
      <4> QED
        BY <3>1, <3>3, <4>1, ClaimKept
    <3>4. ASSUME NEW r \in Irps, PENDING_IRP = r PROVE ClaimInv'
      <4>1. \A i \in Irps, h \in Claimants : Claimed(h, i)' <=> Claimed(h, i) \/ (h = e /\ i
         = r)
        BY <3>1, <3>2, <3>4, ClaimantKinds DEF Claimed, TypeOK
      <4> QED
        BY <3>1, <3>4, <4>1, ClaimantKinds, ClaimParked
    <3> QED
      BY <3>3, <3>4 DEF TypeOK
  <2>4. CASE SubmitDeliver(e)
    BY <2>4, ClaimKept DEF SubmitDeliver, TypeOK
  <2>5. CASE DeliverComplete(e)
    BY <2>5, ClaimKept DEF DeliverComplete, TypeOK
  <2>6. CASE SubmitTooSmall(e)
    BY <2>6, ClaimKept DEF SubmitTooSmall, TypeOK
  <2>7. CASE TooSmallCount(e)
    BY <2>7, ClaimKept DEF TooSmallCount, TypeOK
  <2>8. CASE TooSmallComplete(e)
    BY <2>8, ClaimKept DEF TooSmallComplete, TypeOK
  <2>9. CASE SubmitEnqueue(e)
    BY <2>9, ClaimKept DEF SubmitEnqueue, TypeOK
  <2> QED
    BY <1>9, <2>1, <2>2, <2>3, <2>4, <2>5, <2>6, <2>7, <2>8, <2>9 DEF CallbackStep
<1>10. ASSUME NEW i \in Irps, DispatchStep(i)
      PROVE  ClaimInv'
  <2>1. CASE InvalidRequest(i)
    BY <2>1, ClaimKept DEF InvalidRequest, TypeOK
  <2>2. CASE DcAcquire(i)
    BY <2>2, ClaimKept DEF DcAcquire, TypeOK
  <2>3. CASE DcPop(i)
    <3>1. /\ UNCHANGED <<taken, ftaken, utaken, PENDING_IRP>> /\ ipc[i] = "locked"
          /\ slot' = [slot EXCEPT ![i] = Head(queue)] /\ ipc' = [ipc EXCEPT ![i] = "popped"]
      BY <2>3 DEF DcPop
    <3>2. \A h \in Claimants : ~Claimed(h, i)
      BY <3>1 DEF ClaimInv
    <3>3. PENDING_IRP # i
      BY <3>1, ClaimantKinds DEF ClaimInv
    <3>4. Head(queue) \in Events
      BY <2>3, QueuedEvent DEF DcPop
    <3>5. \A j \in Irps, h \in Claimants : Claimed(h, j)' <=> Claimed(h, j) \/ (h = i /\ j = i)
      BY <3>1, <3>2, <3>4, ClaimantKinds DEF Claimed, TypeOK
    <3>6. \A j \in Irps : ipc'[j] = IF j = i THEN "popped" ELSE ipc[j]
      BY <3>1 DEF TypeOK
    <3>7. PENDING_IRP # NULL => PENDING_IRP \in Irps
      BY DEF TypeOK
    <3>8. \A j \in Irps, g, h \in Claimants : Claimed(g, j)' /\ Claimed(h, j)' => g = h
      BY <3>2, <3>5 DEF ClaimInv
    <3>9. \A j \in Irps, h \in Claimants : Claimed(h, j)' =>
            /\ PENDING_IRP' # j
            /\ h = j => ipc'[j] \in {"popped", "failing", "returned"}
            /\ h # j => ipc'[j] \in {"parked", "returned"}
      BY <3>1, <3>2, <3>3, <3>5, <3>6 DEF ClaimInv
    <3> QED
      BY <3>1, <3>3, <3>6, <3>7, <3>8, <3>9 DEF ClaimInv, Claimants
  <2>4. CASE FastComplete(i)
    BY <2>4, ClaimKept DEF FastComplete, TypeOK
  <2>5. CASE FastTooSmall(i)
    BY <2>5, ClaimKept DEF FastTooSmall, TypeOK
  <2>6. CASE FastTooSmallComplete(i)
    BY <2>6, ClaimKept DEF FastTooSmallComplete, TypeOK
  <2>7. CASE DcPark(i)
    <3>1. /\ UNCHANGED <<taken, ftaken, utaken, slot>> /\ ipc[i] = "locked"
          /\ PENDING_IRP' = i /\ PENDING_IRP = NULL /\ ipc' = [ipc EXCEPT ![i] = "parked"]
      BY <2>7 DEF DcPark
    <3>2. \A j \in Irps, h \in Claimants : Claimed(h, j)' <=> Claimed(h, j)
      BY <3>1 DEF Claimed
    <3>3. \A h \in Claimants : ~Claimed(h, i)
      BY <3>1 DEF ClaimInv
    <3>4. \A j \in Irps : ipc'[j] = IF j = i THEN "parked" ELSE ipc[j]
      BY <3>1 DEF TypeOK
    <3> QED
      BY <3>1, <3>2, <3>3, <3>4 DEF ClaimInv, Claimants
  <2>8. CASE MarkPending(i)
    BY <2>8, ClaimKept DEF MarkPending, TypeOK
  <2>9. CASE DcRefuse(i)
    BY <2>9, ClaimKept DEF DcRefuse, TypeOK
  <2>10. CASE RefuseComplete(i)
    BY <2>10, ClaimKept DEF RefuseComplete, TypeOK
  <2> QED
    BY <1>10, <2>1, <2>2, <2>3, <2>4, <2>5, <2>6, <2>7, <2>8, <2>9, <2>10 DEF DispatchStep
<1>11. CASE UnloadStep
  <2>1. CASE UnloadDeregister
    BY <2>1, ClaimKept DEF UnloadDeregister, TypeOK
  <2>2. CASE UnloadSwap
    <3>1. /\ UNCHANGED <<taken, ftaken, slot, ipc>> /\ PENDING_IRP' = NULL
          /\ utaken' = PENDING_IRP
      BY <2>2 DEF UnloadSwap
    <3>2. utaken = NULL
      BY <2>2 DEF UnloadSwap, FreshInv
    <3>3. CASE PENDING_IRP = NULL
      BY <3>1, <3>2, <3>3, ClaimKept
    <3>4. ASSUME NEW r \in Irps, PENDING_IRP = r PROVE ClaimInv'
      <4>1. \A i \in Irps, h \in Claimants : Claimed(h, i)' <=> Claimed(h, i) \/ (h = UNLOAD
         /\ i = r)
        BY <3>1, <3>2, <3>4, ClaimantKinds DEF Claimed
      <4> QED
        BY <3>1, <3>4, <4>1, ClaimantKinds, ClaimParked
    <3> QED
      BY <3>3, <3>4 DEF TypeOK
  <2>3. CASE UnloadCancel
    BY <2>3, ClaimKept DEF UnloadCancel, TypeOK
  <2>4. CASE UnloadAcquire
    BY <2>4, ClaimKept DEF UnloadAcquire, TypeOK
  <2>5. CASE UnloadPop
    BY <2>5, ClaimKept DEF UnloadPop, TypeOK
  <2>6. CASE UnloadRelease
    BY <2>6, ClaimKept DEF UnloadRelease, TypeOK
  <2> QED
    BY <1>11, <2>1, <2>2, <2>3, <2>4, <2>5, <2>6 DEF UnloadStep
<1>12. CASE UNCHANGED vars
  BY <1>12, ClaimKept DEF vars, TypeOK
<1> QED
  BY <1>1, <1>2, <1>3, <1>4, <1>5, <1>6, <1>7, <1>8, <1>9, <1>10, <1>11, <1>12
  DEF Next, Environment, Gone

\* No thread claims anything ahead of its swap or pop.
LEMMA FreshStep ==
  ASSUME FeedInv, [Next]_vars
  PROVE  FreshInv'
<1> USE DEF FeedInv, LossInv, IndInv, shared, loss, evVars, reqVars, ioVars, fileVars,
           unloadVars
<1>1. ASSUME NEW e \in Events, NEW n \in Sizes, AllocEvent(e, n)
      PROVE  FreshInv'
  BY <1>1 DEF FreshInv, AllocEvent, Idle, TypeOK
<1>2. ASSUME NEW e \in Events, AllocFail(e)
      PROVE  FreshInv'
  BY <1>2 DEF FreshInv, AllocFail, Idle, TypeOK
<1>3. ASSUME NEW f \in Files, Open(f)
      PROVE  FreshInv'
  BY <1>3 DEF FreshInv, Open, TypeOK
<1>4. ASSUME NEW f \in Files, CleanupSwap(f)
      PROVE  FreshInv'
  BY <1>4 DEF FreshInv, CleanupSwap, TypeOK
<1>5. ASSUME NEW f \in Files, Close(f)
      PROVE  FreshInv'
  BY <1>5 DEF FreshInv, Close, TypeOK
<1>6. ASSUME NEW i \in Irps, NEW f \in Files, NEW n \in Sizes, DeviceControl(i, f, n)
      PROVE  FreshInv'
  BY <1>6 DEF FreshInv, DeviceControl, TypeOK
<1>7. CASE UnloadStart
  BY <1>7 DEF FreshInv, UnloadStart, TypeOK
<1>8. ASSUME NEW f \in Files, CleanupComplete(f)
      PROVE  FreshInv'
  BY <1>8 DEF FreshInv, CleanupComplete, TypeOK
<1>9. ASSUME NEW e \in Events, CallbackStep(e)
      PROVE  FreshInv'
  <2>1. CASE make_header(e)
    BY <2>1 DEF FreshInv, make_header, TypeOK
  <2>2. CASE SubmitAcquire(e)
    BY <2>2 DEF FreshInv, SubmitAcquire, TypeOK
  <2>3. CASE SubmitSwap(e)
    BY <2>3 DEF FreshInv, SubmitSwap, TypeOK
  <2>4. CASE SubmitDeliver(e)
    BY <2>4 DEF FreshInv, SubmitDeliver, TypeOK
  <2>5. CASE DeliverComplete(e)
    BY <2>5 DEF FreshInv, DeliverComplete, TypeOK
  <2>6. CASE SubmitTooSmall(e)
    BY <2>6 DEF FreshInv, SubmitTooSmall, TypeOK
  <2>7. CASE TooSmallCount(e)
    BY <2>7 DEF FreshInv, TooSmallCount, TypeOK
  <2>8. CASE TooSmallComplete(e)
    BY <2>8 DEF FreshInv, TooSmallComplete, TypeOK
  <2>9. CASE SubmitEnqueue(e)
    BY <2>9 DEF FreshInv, SubmitEnqueue, TypeOK
  <2> QED
    BY <1>9, <2>1, <2>2, <2>3, <2>4, <2>5, <2>6, <2>7, <2>8, <2>9 DEF CallbackStep
<1>10. ASSUME NEW i \in Irps, DispatchStep(i)
      PROVE  FreshInv'
  <2>1. CASE InvalidRequest(i)
    BY <2>1 DEF FreshInv, InvalidRequest, TypeOK
  <2>2. CASE DcAcquire(i)
    BY <2>2 DEF FreshInv, DcAcquire, TypeOK
  <2>3. CASE DcPop(i)
    <3>1. Head(queue) \in Events /\ epc[Head(queue)] = "returned"
      BY <2>3, QueuedEvent DEF DcPop
    <3> QED
      BY <2>3, <3>1 DEF FreshInv, DcPop, TypeOK, evVars
  <2>4. CASE FastComplete(i)
    BY <2>4 DEF FreshInv, FastComplete, TypeOK
  <2>5. CASE FastTooSmall(i)
    BY <2>5 DEF FreshInv, FastTooSmall, TypeOK
  <2>6. CASE FastTooSmallComplete(i)
    BY <2>6 DEF FreshInv, FastTooSmallComplete, TypeOK
  <2>7. CASE DcPark(i)
    BY <2>7 DEF FreshInv, DcPark, TypeOK
  <2>8. CASE MarkPending(i)
    BY <2>8 DEF FreshInv, MarkPending, TypeOK
  <2>9. CASE DcRefuse(i)
    BY <2>9 DEF FreshInv, DcRefuse, TypeOK
  <2>10. CASE RefuseComplete(i)
    BY <2>10 DEF FreshInv, RefuseComplete, TypeOK
  <2> QED
    BY <1>10, <2>1, <2>2, <2>3, <2>4, <2>5, <2>6, <2>7, <2>8, <2>9, <2>10 DEF DispatchStep
<1>11. CASE UnloadStep
  <2>1. CASE UnloadDeregister
    BY <2>1 DEF FreshInv, UnloadDeregister, TypeOK
  <2>2. CASE UnloadSwap
    BY <2>2 DEF FreshInv, UnloadSwap, TypeOK
  <2>3. CASE UnloadCancel
    BY <2>3 DEF FreshInv, UnloadCancel, TypeOK
  <2>4. CASE UnloadAcquire
    BY <2>4 DEF FreshInv, UnloadAcquire, TypeOK
  <2>5. CASE UnloadPop
    BY <2>5 DEF FreshInv, UnloadPop, TypeOK
  <2>6. CASE UnloadRelease
    BY <2>6 DEF FreshInv, UnloadRelease, TypeOK
  <2> QED
    BY <1>11, <2>1, <2>2, <2>3, <2>4, <2>5, <2>6 DEF UnloadStep
<1>12. CASE UNCHANGED vars
  BY <1>12 DEF FreshInv, vars, TypeOK
<1> QED
  BY <1>1, <1>2, <1>3, <1>4, <1>5, <1>6, <1>7, <1>8, <1>9, <1>10, <1>11, <1>12
  DEF Next, Environment, Gone

----------------------------------------------------------------------------
(* What a completed request was told. *)

\* A step keeps what completed request i was told.
ToldKept(i) ==
  /\ RequestKept(i) /\ sysbuf'[i] = sysbuf[i] /\ slot'[i] = slot[i] /\ PENDING_IRP' # i
  /\ \A h \in Claimants : Claimed(h, i)' <=> Claimed(h, i)
  /\ \A e \in Events : taken[e] = i \/ slot[i] = e => size'[e] = size[e]

\* Then it still is what its claim says.
LEMMA ToldSame ==
  ASSUME TypeOK, NEW i \in Irps, Told(i), ToldKept(i)
  PROVE  Told(i)'
<1>1. \A e \in Events : taken'[e] = i <=> taken[e] = i
  <2> TAKE e \in Events
  <2>1. /\ e \in Claimants /\ e # i /\ e \notin Files /\ e # UNLOAD
    BY ClaimantKinds
  <2> QED
    BY <2>1 DEF ToldKept, Claimed
<1>2. \A f \in Files : ftaken'[f] = i <=> ftaken[f] = i
  <2> TAKE f \in Files
  <2>1. /\ f \in Claimants /\ f # i /\ f \notin Events /\ f # UNLOAD
    BY ClaimantKinds
  <2> QED
    BY <2>1 DEF ToldKept, Claimed
<1>3. utaken' = i <=> utaken = i
  <2>1. UNLOAD \in Claimants /\ UNLOAD # i /\ UNLOAD \notin Events /\ UNLOAD \notin Files
    BY ClaimantKinds
  <2> QED
    BY <2>1 DEF ToldKept, Claimed
<1>4. Unclaimed(i) => Unclaimed(i)'
  BY DEF Unclaimed, ToldKept, Claimants
<1>5. \A e \in Events : taken[e] = i \/ slot[i] = e => (Fits(e, i)' <=> Fits(e, i))
  BY DEF Fits, ToldKept, RequestKept
<1>6. /\ status'[i] = status[i] /\ sysbuf'[i] = sysbuf[i] /\ slot'[i] = slot[i]
  BY DEF ToldKept, RequestKept
<1>7. (status[i] = "SUCCESS" =>
         /\ sysbuf[i] \in Events /\ Fits(sysbuf[i], i)
         /\ taken[sysbuf[i]] = i \/ slot[i] = sysbuf[i])'
  <2> SUFFICES ASSUME status[i] = "SUCCESS"
               PROVE  (/\ sysbuf[i] \in Events /\ Fits(sysbuf[i], i)
                       /\ taken[sysbuf[i]] = i \/ slot[i] = sysbuf[i])'
    BY <1>6
  <2>1. PICK e \in Events : e = sysbuf[i] /\ Fits(e, i) /\ (taken[e] = i \/ slot[i] = e)
    BY DEF Told
  <2>2. Fits(e, i)' /\ (taken'[e] = i \/ slot'[i] = e) /\ sysbuf'[i] = e
    BY <1>1, <1>5, <1>6, <2>1
  <2> QED
    BY <2>2 DEF Fits
<1>8. (status[i] = "BUFFER_TOO_SMALL" =>
         \E e \in Events : (taken[e] = i \/ slot[i] = e) /\ ~Fits(e, i))'
  BY <1>1, <1>5, <1>6 DEF Told
<1> QED
  BY <1>2, <1>3, <1>4, <1>6, <1>7, <1>8 DEF Told

\* A step in which every request that is completed is told what its claim says.
LEMMA ToldAll ==
  ASSUME TypeOK, ToldInv,
         \A i \in Irps : io[i] = "done" => ToldKept(i),
         \A i \in Irps : io[i] # "done" /\ io'[i] # "done" => status'[i] = status[i],
         \A i \in Irps : io[i] # "done" /\ io'[i] = "done" =>
           status'[i] # "none" /\ PENDING_IRP' # i /\ Told(i)'
  PROVE  ToldInv'
<1> SUFFICES ASSUME NEW i \in Irps
             PROVE  /\ io'[i] # "done" => status'[i] = "none"
                    /\ io'[i] = "done" => status'[i] # "none" /\ PENDING_IRP' # i /\ Told(i)'
  BY DEF ToldInv
<1>1. CASE io[i] = "done"
  BY <1>1, ToldSame DEF ToldInv, ToldKept, RequestKept
<1>2. CASE io[i] # "done"
  BY <1>2 DEF ToldInv
<1> QED
  BY <1>1, <1>2

\* A step that changes nothing of all that.
LEMMA ToldUnchanged ==
  ASSUME TypeOK, ToldInv, UNCHANGED <<taken, slot, ftaken, utaken, PENDING_IRP>>,
         UNCHANGED <<size, sysbuf, io, status, info, outlen>>
  PROVE  ToldInv'
<1>1. \A i \in Irps : io[i] = "done" => ToldKept(i)
  BY DEF ToldInv, ToldKept, RequestKept, Claimed
<1> QED
  BY <1>1, ToldAll

\* A step that completes request r.
LEMMA ToldCompleted ==
  ASSUME TypeOK, ToldInv, UNCHANGED <<taken, slot, ftaken, utaken, PENDING_IRP>>,
         UNCHANGED <<size, outlen>>, NEW r \in Irps, io[r] = "owned",
         NEW st, NEW n, complete_irp(r, st, n), st # "none",
         \A i \in Irps : i # r => sysbuf'[i] = sysbuf[i],
         PENDING_IRP # r, Told(r)'
  PROVE  ToldInv'
<1>1. /\ io'[r] = "done" /\ status'[r] = st
      /\ \A i \in Irps : i # r => RequestKept(i)
  BY DEF TypeOK, complete_irp, RequestKept
<1>2. \A i \in Irps : i # r /\ io[i] = "done" => ToldKept(i)
  BY <1>1 DEF ToldInv, ToldKept, Claimed
<1> QED
  BY <1>1, <1>2, ToldAll DEF RequestKept

\* A step that swaps PENDING_IRP with null.
LEMMA ToldSwapped ==
  ASSUME TypeOK, ToldInv, PENDING_IRP' = NULL,
         UNCHANGED <<slot, size, sysbuf, io, status, info, outlen>>,
         \A i \in Irps, h \in Claimants : PENDING_IRP # i => (Claimed(h, i)' <=> Claimed(h, i))
  PROVE  ToldInv'
<1>1. \A i \in Irps : io[i] = "done" => ToldKept(i)
  <2>1. \A i \in Irps : i # NULL
    BY ThreadsAssumption
  <2> QED
    BY <2>1 DEF ToldInv, ToldKept, RequestKept
<1> QED
  BY <1>1, ToldAll

\* Every step completes a request as its claim says.
LEMMA ToldStep ==
  ASSUME FeedInv, [Next]_vars
  PROVE  ToldInv'
<1> USE DEF FeedInv, LossInv, IndInv, shared, loss, evVars, reqVars, ioVars, fileVars,
           unloadVars
<1>1. ASSUME NEW e \in Events, NEW n \in Sizes, AllocEvent(e, n)
      PROVE  ToldInv'
  <2>1. \A i \in Irps : taken[e] # i /\ slot[i] # e
    BY <1>1, ThreadsAssumption DEF AllocEvent, Idle, FreshInv
  <2>2. /\ UNCHANGED <<taken, slot, ftaken, utaken, PENDING_IRP, sysbuf, io, status, info,
             outlen>>
        /\ \A d \in Events : d # e => size'[d] = size[d]
    BY <1>1 DEF AllocEvent, TypeOK
  <2>3. \A i \in Irps : io[i] = "done" => ToldKept(i)
    BY <2>1, <2>2 DEF ToldInv, ToldKept, RequestKept, Claimed
  <2> QED
    BY <2>2, <2>3, ToldAll
<1>2. ASSUME NEW e \in Events, AllocFail(e)
      PROVE  ToldInv'
  BY <1>2, ToldUnchanged DEF AllocFail
<1>3. ASSUME NEW f \in Files, Open(f)
      PROVE  ToldInv'
  BY <1>3, ToldUnchanged DEF Open
<1>4. ASSUME NEW f \in Files, CleanupSwap(f)
      PROVE  ToldInv'
  <2>1. \A i \in Irps, h \in Claimants : PENDING_IRP # i => (Claimed(h, i)' <=> Claimed(h, i))
    <3>1. ftaken[f] = NULL /\ \A i \in Irps : i # NULL
      BY <1>4, ThreadsAssumption DEF CleanupSwap, FreshInv
    <3> QED
      BY <1>4, <3>1 DEF CleanupSwap, Claimed, TypeOK
  <2> QED
    BY <1>4, <2>1, ToldSwapped DEF CleanupSwap
<1>5. ASSUME NEW f \in Files, Close(f)
      PROVE  ToldInv'
  BY <1>5, ToldUnchanged DEF Close
<1>6. ASSUME NEW i \in Irps, NEW f \in Files, NEW n \in Sizes, DeviceControl(i, f, n)
      PROVE  ToldInv'
  <2>1. io[i] = "agent"
    BY <1>6 DEF DeviceControl, IrpInv
  <2>2. /\ UNCHANGED <<taken, slot, ftaken, utaken, PENDING_IRP, size, sysbuf, status, info>>
        /\ \A j \in Irps : j # i => io'[j] = io[j] /\ outlen'[j] = outlen[j]
        /\ io'[i] = "owned"
    BY <1>6 DEF DeviceControl, TypeOK
  <2>3. \A j \in Irps : io[j] = "done" => ToldKept(j)
    BY <2>1, <2>2 DEF ToldInv, ToldKept, RequestKept, Claimed
  <2> QED
    BY <2>1, <2>2, <2>3, ToldAll
<1>7. CASE UnloadStart
  BY <1>7, ToldUnchanged DEF UnloadStart
<1>8. ASSUME NEW f \in Files, CleanupComplete(f)
      PROVE  ToldInv'
  <2>1. CASE ftaken[f] = NULL
    BY <1>8, <2>1, ToldUnchanged DEF CleanupComplete
  <2>2. CASE ftaken[f] # NULL
    <3>1. PICK r \in Irps : r = ftaken[f] /\ io[r] = "owned"
      BY <1>8, <2>2, InHand DEF CleanupComplete
    <3>2. complete_irp(r, "CANCELLED", 0) /\ UNCHANGED <<ftaken, sysbuf>>
      BY <1>8, <2>2, <3>1 DEF CleanupComplete
    <3>3. PENDING_IRP # r
      BY <3>1, ClaimantKinds DEF ClaimInv, Claimed
    <3>4. Told(r)'
      BY <3>1, <3>2 DEF Told, complete_irp, TypeOK
    <3> QED
      BY <1>8, <3>1, <3>2, <3>3, <3>4, ToldCompleted DEF CleanupComplete
  <2> QED
    BY <2>1, <2>2
<1>9. ASSUME NEW e \in Events, CallbackStep(e)
      PROVE  ToldInv'
  <2>1. CASE make_header(e)
    BY <2>1, ToldUnchanged DEF make_header
  <2>2. CASE SubmitAcquire(e)
    BY <2>2, ToldUnchanged DEF SubmitAcquire
  <2>3. CASE SubmitSwap(e)
    <3>1. \A i \in Irps, h \in Claimants : PENDING_IRP # i => (Claimed(h, i)' <=> Claimed(h, i))
      <4>1. taken[e] = NULL /\ \A i \in Irps : i # NULL
        BY <2>3, ThreadsAssumption DEF SubmitSwap, FreshInv
      <4> QED
        BY <2>3, <4>1 DEF SubmitSwap, Claimed, TypeOK
    <3> QED
      BY <2>3, <3>1, ToldSwapped DEF SubmitSwap
  <2>4. CASE SubmitDeliver(e)
    <3>1. taken[e] \in Irps /\ io[taken[e]] = "owned"
      BY <2>4, InHand DEF SubmitDeliver
    <3>2. /\ UNCHANGED <<taken, slot, ftaken, utaken, PENDING_IRP, size, io, status, info,
               outlen>>
          /\ \A i \in Irps : i # taken[e] => sysbuf'[i] = sysbuf[i]
      BY <2>4 DEF SubmitDeliver, TypeOK
    <3>3. \A i \in Irps : io[i] = "done" => ToldKept(i)
      BY <3>1, <3>2 DEF ToldInv, ToldKept, RequestKept, Claimed
    <3> QED
      BY <3>2, <3>3, ToldAll
  <2>5. CASE DeliverComplete(e)
    <3>1. PICK r \in Irps : r = taken[e] /\ io[r] = "owned" /\ sysbuf[r] = e
      BY <2>5, CallbackIrp DEF DeliverComplete, CopyInv
    <3>2. complete_irp(r, "SUCCESS", size[e]) /\ UNCHANGED <<taken, sysbuf, size, outlen>>
      BY <2>5, <3>1 DEF DeliverComplete
    <3>3. PENDING_IRP # r
      BY <3>1, ClaimantKinds DEF ClaimInv, Claimed
    <3>4. Fits(e, r)
      BY <3>1, ClaimantKinds DEF CopyInv, Copied
    <3>5. Told(r)'
      BY <3>1, <3>2, <3>4 DEF Told, Fits, complete_irp, TypeOK
    <3> QED
      BY <2>5, <3>1, <3>2, <3>3, <3>5, ToldCompleted DEF DeliverComplete
  <2>6. CASE SubmitTooSmall(e)
    BY <2>6, ToldUnchanged DEF SubmitTooSmall
  <2>7. CASE TooSmallCount(e)
    BY <2>7, ToldUnchanged DEF TooSmallCount
  <2>8. CASE TooSmallComplete(e)
    <3>1. PICK r \in Irps : r = taken[e] /\ io[r] = "owned" /\ ~Fits(e, r)
      BY <2>8, InHand DEF TooSmallComplete, StatusInv
    <3>2. complete_irp(r, "BUFFER_TOO_SMALL", size[e]) /\ UNCHANGED <<taken, sysbuf, size,
       outlen>>
      BY <2>8, <3>1 DEF TooSmallComplete
    <3>3. PENDING_IRP # r
      BY <3>1, ClaimantKinds DEF ClaimInv, Claimed
    <3>4. Told(r)'
      BY <3>1, <3>2 DEF Told, Fits, complete_irp, TypeOK
    <3> QED
      BY <2>8, <3>1, <3>2, <3>3, <3>4, ToldCompleted DEF TooSmallComplete
  <2>9. CASE SubmitEnqueue(e)
    BY <2>9, ToldUnchanged DEF SubmitEnqueue
  <2> QED
    BY <1>9, <2>1, <2>2, <2>3, <2>4, <2>5, <2>6, <2>7, <2>8, <2>9 DEF CallbackStep
<1>10. ASSUME NEW i \in Irps, DispatchStep(i)
      PROVE  ToldInv'
  <2>1. CASE InvalidRequest(i)
    <3>1. ipc[i] = "entered" /\ complete_irp(i, "INVALID_DEVICE_REQUEST", 0)
      BY <2>1 DEF InvalidRequest
    <3>2. PENDING_IRP # i /\ io[i] = "owned" /\ Unclaimed(i)
      BY <3>1, ClaimantKinds, InHand DEF ClaimInv, DispatchHas, Unclaimed
    <3>3. UNCHANGED <<taken, slot, ftaken, utaken, PENDING_IRP, size, outlen, sysbuf>>
      BY <2>1 DEF InvalidRequest
    <3>4. Told(i)'
      <4>1. Unclaimed(i)'
        BY <3>2, <3>3 DEF Unclaimed, Claimed, Claimants
      <4> QED
        BY <3>1, <4>1 DEF Told, complete_irp, TypeOK
    <3> QED
      BY <3>1, <3>2, <3>3, <3>4, ToldCompleted
  <2>2. CASE DcAcquire(i)
    BY <2>2, ToldUnchanged DEF DcAcquire
  <2>3. CASE DcPop(i)
    <3>1. io[i] = "owned"
      BY <2>3, InHand DEF DcPop, DispatchHas
    <3>2. /\ UNCHANGED <<taken, ftaken, utaken, PENDING_IRP, size, sysbuf, io, status, info,
               outlen>>
          /\ \A j \in Irps : j # i => slot'[j] = slot[j]
      BY <2>3 DEF DcPop, TypeOK
    <3>3. \A j \in Irps : io[j] = "done" => ToldKept(j)
      BY <3>1, <3>2 DEF ToldInv, ToldKept, RequestKept, Claimed
    <3> QED
      BY <3>2, <3>3, ToldAll
  <2>4. CASE FastComplete(i)
    <3>1. PICK e \in Events : e = slot[i]
      BY <2>4, PoppedEvent DEF FastComplete
    <3>2. /\ complete_irp(i, "SUCCESS", size[e]) /\ UNCHANGED <<taken, slot, size, outlen>>
          /\ Fits(e, i) /\ sysbuf' = [sysbuf EXCEPT ![i] = e]
      BY <2>4, <3>1 DEF FastComplete
    <3>3. PENDING_IRP # i /\ io[i] = "owned"
      BY <2>4, ClaimantKinds, InHand DEF FastComplete, ClaimInv, DispatchHas
    <3>4. Told(i)'
      BY <3>1, <3>2 DEF Told, Fits, complete_irp, TypeOK
    <3>5. \A j \in Irps : j # i => sysbuf'[j] = sysbuf[j]
      BY <3>2 DEF TypeOK
    <3> QED
      BY <2>4, <3>2, <3>3, <3>4, <3>5, ToldCompleted DEF FastComplete
  <2>5. CASE FastTooSmall(i)
    BY <2>5, ToldUnchanged DEF FastTooSmall
  <2>6. CASE FastTooSmallComplete(i)
    <3>1. PICK e \in Events : e = slot[i] /\ ~Fits(e, i)
      BY <2>6 DEF FastTooSmallComplete, StatusInv
    <3>2. /\ complete_irp(i, "BUFFER_TOO_SMALL", size[e])
          /\ UNCHANGED <<taken, slot, size, outlen, sysbuf>>
      BY <2>6, <3>1 DEF FastTooSmallComplete
    <3>3. PENDING_IRP # i /\ io[i] = "owned"
      BY <2>6, ClaimantKinds, InHand DEF FastTooSmallComplete, ClaimInv, DispatchHas
    <3>4. Told(i)'
      BY <3>1, <3>2 DEF Told, Fits, complete_irp, TypeOK
    <3> QED
      BY <2>6, <3>2, <3>3, <3>4, ToldCompleted DEF FastTooSmallComplete
  <2>7. CASE DcPark(i)
    <3>1. io[i] = "owned"
      BY <2>7, InHand DEF DcPark, DispatchHas
    <3>2. /\ UNCHANGED <<taken, slot, ftaken, utaken, size, sysbuf, io, status, info, outlen>>
          /\ PENDING_IRP' = i
      BY <2>7 DEF DcPark
    <3>3. \A j \in Irps : io[j] = "done" => ToldKept(j)
      BY <3>1, <3>2 DEF ToldInv, ToldKept, RequestKept, Claimed
    <3> QED
      BY <3>2, <3>3, ToldAll
  <2>8. CASE MarkPending(i)
    BY <2>8, ToldUnchanged DEF MarkPending
  <2>9. CASE DcRefuse(i)
    BY <2>9, ToldUnchanged DEF DcRefuse
  <2>10. CASE RefuseComplete(i)
    <3>1. ipc[i] = "refused" /\ complete_irp(i, "UNSUCCESSFUL", 0)
      BY <2>10 DEF RefuseComplete
    <3>2. PENDING_IRP # i /\ io[i] = "owned" /\ Unclaimed(i)
      BY <3>1, ClaimantKinds, InHand DEF ClaimInv, DispatchHas, Unclaimed
    <3>3. UNCHANGED <<taken, slot, ftaken, utaken, PENDING_IRP, size, outlen, sysbuf>>
      BY <2>10 DEF RefuseComplete
    <3>4. Told(i)'
      <4>1. Unclaimed(i)'
        BY <3>2, <3>3 DEF Unclaimed, Claimed, Claimants
      <4> QED
        BY <3>1, <4>1 DEF Told, complete_irp, TypeOK
    <3> QED
      BY <3>1, <3>2, <3>3, <3>4, ToldCompleted
  <2> QED
    BY <1>10, <2>1, <2>2, <2>3, <2>4, <2>5, <2>6, <2>7, <2>8, <2>9, <2>10 DEF DispatchStep
<1>11. CASE UnloadStep
  <2>1. CASE UnloadDeregister
    BY <2>1, ToldUnchanged DEF UnloadDeregister
  <2>2. CASE UnloadSwap
    <3>1. \A i \in Irps, h \in Claimants : PENDING_IRP # i => (Claimed(h, i)' <=> Claimed(h, i))
      <4>1. utaken = NULL /\ \A i \in Irps : i # NULL
        BY <2>2, ThreadsAssumption DEF UnloadSwap, FreshInv
      <4> QED
        BY <2>2, <4>1 DEF UnloadSwap, Claimed
    <3> QED
      BY <2>2, <3>1, ToldSwapped DEF UnloadSwap
  <2>3. CASE UnloadCancel
    <3>1. CASE utaken = NULL
      BY <2>3, <3>1, ToldUnchanged DEF UnloadCancel
    <3>2. CASE utaken # NULL
      <4>1. PICK r \in Irps : r = utaken /\ io[r] = "owned"
        BY <2>3, <3>2, InHand DEF UnloadCancel
      <4>2. complete_irp(r, "CANCELLED", 0) /\ UNCHANGED <<utaken, sysbuf>>
        BY <2>3, <3>2, <4>1 DEF UnloadCancel
      <4>3. PENDING_IRP # r
        BY <4>1, ClaimantKinds DEF ClaimInv, Claimed
      <4>4. Told(r)'
        BY <4>1, <4>2 DEF Told, complete_irp, TypeOK
      <4> QED
        BY <2>3, <4>1, <4>2, <4>3, <4>4, ToldCompleted DEF UnloadCancel
    <3> QED
      BY <3>1, <3>2
  <2>4. CASE UnloadAcquire
    BY <2>4, ToldUnchanged DEF UnloadAcquire
  <2>5. CASE UnloadPop
    BY <2>5, ToldUnchanged DEF UnloadPop
  <2>6. CASE UnloadRelease
    BY <2>6, ToldUnchanged DEF UnloadRelease
  <2> QED
    BY <1>11, <2>1, <2>2, <2>3, <2>4, <2>5, <2>6 DEF UnloadStep
<1>12. CASE UNCHANGED vars
  BY <1>12, ToldUnchanged DEF vars
<1> QED
  BY <1>1, <1>2, <1>3, <1>4, <1>5, <1>6, <1>7, <1>8, <1>9, <1>10, <1>11, <1>12
  DEF Next, Environment, Gone

----------------------------------------------------------------------------
(* The invariant, and the answer each request is given. *)

\* The invariant holds initially ...
LEMMA FeedInit == Init => FeedInv
<1> SUFFICES ASSUME Init PROVE FeedInv
  OBVIOUS
<1>1. LossInv
  BY LossInit
<1>2. \A i \in Irps, h \in Claimants : ~Claimed(h, i)
  BY ThreadsAssumption DEF Init, Claimed
<1>3. ClaimInv
  BY <1>2 DEF Init, ClaimInv
<1>4. FreshInv /\ ToldInv
  BY DEF Init, FreshInv, ToldInv
<1> QED
  BY <1>1, <1>3, <1>4 DEF FeedInv

\* ... and every step keeps it.
LEMMA FeedInductive == FeedInv /\ [Next]_vars => FeedInv'
<1> SUFFICES ASSUME FeedInv, [Next]_vars PROVE FeedInv'
  OBVIOUS
<1>1. LossInv'
  BY LossInductive DEF FeedInv
<1>2. ClaimInv' /\ FreshInv' /\ ToldInv'
  BY ClaimStep, FreshStep, ToldStep
<1> QED
  BY <1>1, <1>2 DEF FeedInv

\* It is an invariant.
LEMMA FeedInvariant == Spec => []FeedInv
BY FeedInit, FeedInductive, PTL DEF Spec

\* The answer of a request nobody has claimed: what dispatch_device_control decided
\* by itself.
Refusal(i) ==
  IF ipc[i] = "refused" \/ status[i] = "UNSUCCESSFUL" THEN "refused"
  ELSE IF status[i] = "INVALID_DEVICE_REQUEST" THEN "invalid" ELSE "none"

\* The claim of a request fixes its answer.
AnswerInv ==
  \A i \in Irps :
    /\ \A e \in Events : taken[e] = i \/ slot[i] = e => Answer(i) = Offer(e, i)
    /\ utaken = i \/ (\E f \in Files : ftaken[f] = i) => Answer(i) = "cancelled"
    /\ Unclaimed(i) => Answer(i) = Refusal(i)

\* An answer is defined by cases; on the states of the system only one of them
\* applies.
LEMMA AnswersSettled == FeedInv => AnswerInv
<1> SUFFICES ASSUME FeedInv, NEW i \in Irps
             PROVE  /\ \A e \in Events : taken[e] = i \/ slot[i] = e => Answer(i) = Offer(e, i)
                    /\ utaken = i \/ (\E f \in Files : ftaken[f] = i) => Answer(i) = "cancelled"
                    /\ Unclaimed(i) => Answer(i) = Refusal(i)
  BY DEF AnswerInv
<1>1. /\ TypeOK /\ i \in Claimants
      /\ \A g, h \in Claimants : Claimed(g, i) /\ Claimed(h, i) => g = h
  BY ClaimantKinds DEF FeedInv, LossInv, IndInv, ClaimInv
<1>2. ASSUME NEW h \in Claimants, Claimed(h, i)
      PROVE  ipc[i] # "refused" /\ status[i] \notin {"UNSUCCESSFUL", "INVALID_DEVICE_REQUEST"}
  BY <1>2 DEF FeedInv, ClaimInv, ToldInv, Told, Unclaimed
<1>3. ASSUME NEW e \in Events, taken[e] = i
      PROVE  Answer(i) = Offer(e, i)
  <2>1. e \in Claimants /\ Claimed(e, i)
    BY <1>3, ClaimantKinds DEF Claimed
  <2>2. \A d \in Events : taken[d] = i => d = e
    BY <1>1, <2>1, ClaimantKinds DEF Claimed
  <2>3. e = CHOOSE d \in Events : taken[d] = i
    BY <1>3, <2>2
  <2>4. slot[i] = NULL
    BY <1>1, <2>1, ClaimantKinds DEF Claimed
  <2>5. utaken # i /\ \A f \in Files : ftaken[f] # i
    BY <1>1, <2>1, ClaimantKinds DEF Claimed
  <2> QED
    BY <1>2, <1>3, <2>1, <2>3, <2>4, <2>5 DEF Answer
<1>4. ASSUME NEW e \in Events, slot[i] = e
      PROVE  Answer(i) = Offer(e, i)
  <2>1. Claimed(i, i)
    BY <1>4, ClaimantKinds DEF Claimed
  <2>2. \A d \in Events : taken[d] # i
    BY <1>1, <2>1, ClaimantKinds DEF Claimed
  <2>3. utaken # i /\ \A f \in Files : ftaken[f] # i
    BY <1>1, <2>1, ClaimantKinds DEF Claimed
  <2>4. slot[i] # NULL
    BY <1>4, ClaimantKinds
  <2> QED
    BY <1>1, <1>2, <1>4, <2>1, <2>2, <2>3, <2>4 DEF Answer
<1>5. ASSUME utaken = i \/ \E f \in Files : ftaken[f] = i
      PROVE  Answer(i) = "cancelled"
  <2>1. PICK h \in Claimants : Claimed(h, i) /\ (h = UNLOAD \/ h \in Files)
    BY <1>5, ClaimantKinds DEF Claimed
  <2>2. (\A d \in Events : taken[d] # i) /\ slot[i] = NULL
    BY <1>1, <2>1, ClaimantKinds DEF Claimed
  <2> QED
    BY <1>2, <1>5, <2>1, <2>2 DEF Answer
<1>6. ASSUME Unclaimed(i)
      PROVE  Answer(i) = Refusal(i)
  <2>1. /\ \A d \in Events : taken[d] # i
        /\ slot[i] = NULL
        /\ utaken # i /\ \A f \in Files : ftaken[f] # i
    BY <1>1, <1>6, ClaimantKinds DEF Unclaimed, Claimed
  <2>2. ~(ipc[i] = "refused" /\ status[i] = "INVALID_DEVICE_REQUEST")
    BY InHand DEF DispatchHas, FeedInv, LossInv, IndInv, ToldInv
  <2> QED
    BY <2>1, <2>2 DEF Answer, Refusal
<1> QED
  BY <1>3, <1>4, <1>5, <1>6

\* A request is completed with the answer that was fixed when it was claimed.
THEOREM AnswersAreDelivered == Spec => []AnswerDelivered
<1>1. FeedInv => AnswerDelivered
  <2> SUFFICES ASSUME FeedInv, NEW i \in Irps, io[i] = "done"
               PROVE  CASE status[i] = "SUCCESS" -> Answer(i) = sysbuf[i]
                        [] status[i] = "BUFFER_TOO_SMALL" -> Answer(i) = "short"
                        [] status[i] = "CANCELLED" -> Answer(i) = "cancelled"
                        [] status[i] = "UNSUCCESSFUL" -> Answer(i) = "refused"
                        [] status[i] = "INVALID_DEVICE_REQUEST" -> Answer(i) = "invalid"
    BY DEF AnswerDelivered
  <2>1. AnswerInv
    BY AnswersSettled
  <2>2. Told(i)
    BY DEF FeedInv, ToldInv
  <2>3. CASE status[i] = "SUCCESS"
    BY <2>1, <2>2, <2>3 DEF Told, AnswerInv, Offer
  <2>4. CASE status[i] = "BUFFER_TOO_SMALL"
    BY <2>1, <2>2, <2>4 DEF Told, AnswerInv, Offer
  <2>5. CASE status[i] = "CANCELLED"
    BY <2>1, <2>2, <2>5 DEF Told, AnswerInv
  <2>6. CASE status[i] = "UNSUCCESSFUL"
    BY <2>1, <2>2, <2>6 DEF Told, AnswerInv, Refusal
  <2>7. CASE status[i] = "INVALID_DEVICE_REQUEST"
    <3>1. ipc[i] # "refused"
      BY InHand DEF DispatchHas, FeedInv, LossInv, IndInv
    <3> QED
      BY <2>1, <2>2, <2>7, <3>1 DEF Told, AnswerInv, Refusal
  <2>8. status[i] \in {"SUCCESS", "BUFFER_TOO_SMALL", "CANCELLED", "UNSUCCESSFUL",
                       "INVALID_DEVICE_REQUEST"}
    BY DEF FeedInv, LossInv, IndInv, TypeOK, ToldInv
  <2> QED
    BY <2>3, <2>4, <2>5, <2>6, <2>7, <2>8
<1> QED
  BY <1>1, FeedInvariant, PTL

----------------------------------------------------------------------------
(* The steps of the feed. *)

\* A step that leaves the claim of request j alone.
ClaimSame(j) ==
  /\ \A h \in Claimants : Claimed(h, j)' <=> Claimed(h, j)
  /\ slot'[j] = slot[j]
  /\ \A e \in Events : taken[e] = j \/ slot[j] = e => (Fits(e, j)' <=> Fits(e, j))
  /\ Unclaimed(j) => Refusal(j)' = Refusal(j)

\* Then its answer stays what it is.
LEMMA AnswerSame ==
  ASSUME TypeOK, AnswerInv, AnswerInv', NEW j \in Irps, ClaimSame(j)
  PROVE  Answer(j)' = Answer(j)
<1>1. CASE Unclaimed(j)
  <2>1. Unclaimed(j)'
    BY <1>1 DEF Unclaimed, ClaimSame, Claimants
  <2> QED
    BY <1>1, <2>1 DEF AnswerInv, ClaimSame
<1>2. ASSUME NEW e \in Events, taken[e] = j \/ slot[j] = e
      PROVE  Answer(j)' = Answer(j)
  <2>1. e \in Claimants /\ e # j /\ e \notin Files /\ e # UNLOAD
    BY ClaimantKinds
  <2>2. taken'[e] = j \/ slot'[j] = e
    BY <1>2, <2>1 DEF ClaimSame, Claimed
  <2>3. Offer(e, j)' = Offer(e, j)
    BY <1>2 DEF Offer, ClaimSame
  <2> QED
    BY <1>2, <2>2, <2>3 DEF AnswerInv
<1>3. ASSUME utaken = j \/ \E f \in Files : ftaken[f] = j
      PROVE  Answer(j)' = Answer(j)
  <2>1. PICK h \in Claimants : Claimed(h, j) /\ (h = UNLOAD \/ h \in Files)
    BY <1>3, ClaimantKinds DEF Claimed
  <2>2. Claimed(h, j)' /\ h \notin Events /\ h # j
    BY <2>1, ClaimantKinds DEF ClaimSame
  <2>3. utaken' = j \/ \E f \in Files : ftaken'[f] = j
    BY <2>2 DEF Claimed
  <2> QED
    BY <1>3, <2>3 DEF AnswerInv
<1>4. ASSUME NEW h \in Claimants, Claimed(h, j)
      PROVE  \/ \E e \in Events : taken[e] = j \/ slot[j] = e
             \/ utaken = j \/ \E f \in Files : ftaken[f] = j
  BY <1>4 DEF Claimed, TypeOK
<1> QED
  BY <1>1, <1>2, <1>3, <1>4 DEF Unclaimed

\* A step after which the claim of every request is as before, as are the queue, the
\* parked request and the published events, is no step of the feed.
LEMMA FeedStutter ==
  ASSUME TypeOK, AnswerInv, AnswerInv', UNCHANGED <<queue, PENDING_IRP>>,
         \A e \in Events : Published(e)' <=> Published(e),
         \A j \in Irps : ClaimSame(j)
  PROVE  UNCHANGED Feed!vars
<1>1. \A j \in Irps : Answer(j)' = Answer(j)
  BY AnswerSame
<1>2. [j \in Irps |-> Answer(j)]' = [j \in Irps |-> Answer(j)]
  BY <1>1
<1>3. {e \in Events : Published(e)}' = {e \in Events : Published(e)}
  OBVIOUS
<1> QED
  BY <1>2, <1>3 DEF Feed!vars

\* The same for a step that claims nothing and changes no size.
LEMMA FeedIdle ==
  ASSUME TypeOK, AnswerInv, AnswerInv', UNCHANGED <<queue, PENDING_IRP>>,
         UNCHANGED <<taken, slot, ftaken, utaken, size, outlen>>,
         \A e \in Events : Published(e)' <=> Published(e),
         \A j \in Irps : Unclaimed(j) => Refusal(j)' = Refusal(j)
  PROVE  UNCHANGED Feed!vars
<1>1. \A j \in Irps : ClaimSame(j)
  BY DEF ClaimSame, Claimed, Fits
<1> QED
  BY <1>1, FeedStutter

\* A step that claims request r and no other.
LEMMA FeedAnswer ==
  ASSUME TypeOK, AnswerInv, AnswerInv', NEW r \in Irps,
         \A j \in Irps \ {r} : ClaimSame(j)
  PROVE  [j \in Irps |-> Answer(j)]' = [[j \in Irps |-> Answer(j)] EXCEPT ![r] = Answer(r)']
<1>1. \A j \in Irps \ {r} : Answer(j)' = Answer(j)
  BY AnswerSame
<1> QED
  BY <1>1

\* A request whose dispatch routine has not decided has no answer yet.
LEMMA NotAnswered ==
  ASSUME FeedInv, AnswerInv, NEW i \in Irps, ipc[i] \in {"entered", "locked"}
  PROVE  Answer(i) = "none" /\ PENDING_IRP # i /\ Unclaimed(i)
<1>1. Unclaimed(i) /\ PENDING_IRP # i
  BY ClaimantKinds DEF FeedInv, ClaimInv, Unclaimed
<1>2. status[i] = "none"
  BY InHand DEF DispatchHas, FeedInv, LossInv, IndInv, ToldInv
<1> QED
  BY <1>1, <1>2 DEF AnswerInv, Refusal

\* Every step of the system is a step of the feed, or changes nothing of it.
LEMMA FeedStep ==
  ASSUME FeedInv, AnswerInv, AnswerInv', [Next]_vars
  PROVE  [Feed!Next]_(Feed!vars)
<1> USE DEF FeedInv, LossInv, IndInv, shared, loss, evVars, reqVars, ioVars, fileVars,
           unloadVars
<1>1. ASSUME NEW e \in Events, NEW n \in Sizes, AllocEvent(e, n)
      PROVE  [Feed!Next]_(Feed!vars)
  <2>1. /\ UNCHANGED <<queue, PENDING_IRP, taken, slot, ftaken, utaken, outlen, ipc, status>>
        /\ \A d \in Events : d # e => size'[d] = size[d]
        /\ epc' = [epc EXCEPT ![e] = "allocated"] /\ epc[e] = "idle"
    BY <1>1 DEF AllocEvent, Idle, TypeOK
  <2>2. \A i \in Irps : taken[e] # i /\ slot[i] # e
    BY <2>1, ThreadsAssumption DEF FreshInv
  <2>3. \A j \in Irps : ClaimSame(j)
    BY <2>1, <2>2 DEF ClaimSame, Claimed, Fits, Refusal
  <2>4. \A d \in Events : Published(d)' <=> Published(d)
    BY <2>1 DEF Published, TypeOK
  <2> QED
    BY <2>1, <2>3, <2>4, FeedStutter
<1>2. ASSUME NEW e \in Events, AllocFail(e)
      PROVE  [Feed!Next]_(Feed!vars)
  BY <1>2, FeedIdle DEF AllocFail, Idle, Published, Refusal, TypeOK
<1>3. ASSUME NEW f \in Files, Open(f)
      PROVE  [Feed!Next]_(Feed!vars)
  BY <1>3, FeedIdle DEF Open, Published, Refusal, TypeOK
<1>4. ASSUME NEW f \in Files, CleanupSwap(f)
      PROVE  [Feed!Next]_(Feed!vars)
  <2>1. /\ UNCHANGED <<queue, taken, slot, utaken, size, outlen, epc, ipc, status>>
        /\ PENDING_IRP' = NULL /\ ftaken' = [ftaken EXCEPT ![f] = PENDING_IRP] /\ ftaken[f] =
             NULL
    BY <1>4 DEF CleanupSwap, FreshInv
  <2>2. /\ \A d \in Events : Published(d)' <=> Published(d)
        /\ {d \in Events : Published(d)}' = {d \in Events : Published(d)}
    BY <2>1 DEF Published
  <2>3. CASE PENDING_IRP = NULL
    <3>1. ftaken' = ftaken
      BY <2>1, <2>3 DEF TypeOK
    <3> QED
      BY <2>1, <2>2, <2>3, <3>1, FeedIdle DEF Refusal
  <2>4. ASSUME NEW r \in Irps, PENDING_IRP = r PROVE Feed!Cancel
    <3>1. r # NULL /\ ftaken'[f] = r
      BY <2>1, <2>4, ThreadsAssumption DEF TypeOK
    <3>2. \A j \in Irps \ {r} : ClaimSame(j)
      BY <2>1, <2>4, ThreadsAssumption DEF ClaimSame, Claimed, Fits, Refusal, TypeOK
    <3>3. [j \in Irps |-> Answer(j)]' = [[j \in Irps |-> Answer(j)] EXCEPT ![r] = Answer(r)']
      BY <3>2, FeedAnswer
    <3>4. Answer(r)' = "cancelled"
      BY <3>1 DEF AnswerInv
    <3> QED
      BY <2>1, <2>2, <2>4, <3>1, <3>3, <3>4 DEF Feed!Cancel
  <2> QED
    BY <2>3, <2>4 DEF TypeOK, Feed!Next
<1>5. ASSUME NEW f \in Files, Close(f)
      PROVE  [Feed!Next]_(Feed!vars)
  BY <1>5, FeedIdle DEF Close, Published, Refusal, TypeOK
<1>6. ASSUME NEW i \in Irps, NEW f \in Files, NEW n \in Sizes, DeviceControl(i, f, n)
      PROVE  [Feed!Next]_(Feed!vars)
  <2>1. /\ UNCHANGED <<queue, PENDING_IRP, taken, slot, ftaken, utaken, size, epc, status>>
        /\ \A j \in Irps : j # i => outlen'[j] = outlen[j] /\ ipc'[j] = ipc[j]
        /\ ipc[i] = "idle" /\ ipc'[i] = "entered"
    BY <1>6 DEF DeviceControl, TypeOK
  <2>2. \A e \in Events : taken[e] # i /\ slot[i] # e
    BY <2>1, ClaimantKinds DEF ClaimInv, Claimed
  <2>3. \A j \in Irps : ClaimSame(j)
    BY <2>1, <2>2 DEF ClaimSame, Claimed, Fits, Refusal
  <2>4. \A d \in Events : Published(d)' <=> Published(d)
    BY <2>1 DEF Published
  <2> QED
    BY <2>1, <2>3, <2>4, FeedStutter
<1>7. CASE UnloadStart
  BY <1>7, FeedIdle DEF UnloadStart, Published, Refusal, TypeOK
<1>8. ASSUME NEW f \in Files, CleanupComplete(f)
      PROVE  [Feed!Next]_(Feed!vars)
  <2>1. CASE ftaken[f] = NULL
    BY <1>8, <2>1, FeedIdle DEF CleanupComplete, Published, Refusal
  <2>2. CASE ftaken[f] # NULL
    <3>1. PICK r \in Irps : r = ftaken[f]
      BY <2>2 DEF TypeOK
    <3>2. ~Unclaimed(r)
      BY <3>1, ClaimantKinds DEF Unclaimed, Claimed
    <3> QED
      BY <1>8, <2>2, <3>1, <3>2, FeedIdle DEF CleanupComplete, complete_irp, Published,
         Refusal, TypeOK
  <2> QED
    BY <2>1, <2>2
<1>9. ASSUME NEW e \in Events, CallbackStep(e)
      PROVE  [Feed!Next]_(Feed!vars)
  <2>1. CASE make_header(e)
    BY <2>1, FeedIdle DEF make_header, Published, Refusal, TypeOK
  <2>2. CASE SubmitAcquire(e)
    BY <2>2, FeedIdle DEF SubmitAcquire, Published, Refusal, TypeOK
  <2>3. CASE SubmitSwap(e)
    <3>1. /\ UNCHANGED <<queue, slot, ftaken, utaken, size, outlen, ipc, status>>
          /\ PENDING_IRP' = NULL /\ taken' = [taken EXCEPT ![e] = PENDING_IRP]
          /\ epc[e] = "locked" /\ epc' = [epc EXCEPT ![e] = "swapped"] /\ taken[e] = NULL
      BY <2>3 DEF SubmitSwap, FreshInv
    <3>2. \A d \in Events : d # e => (Published(d)' <=> Published(d))
      BY <3>1 DEF Published, TypeOK
    <3>3. ~Published(e)
      BY <3>1 DEF Published
    <3>4. CASE PENDING_IRP = NULL
      <4>1. taken' = taken
        BY <3>1, <3>4 DEF TypeOK
      <4>2. ~Published(e)'
        BY <3>1, <3>4, <4>1 DEF Published, TypeOK
      <4> QED
        BY <3>1, <3>2, <3>3, <3>4, <4>1, <4>2, FeedIdle DEF Refusal
    <3>5. ASSUME NEW r \in Irps, PENDING_IRP = r PROVE Feed!Serve(e)
      <4>1. r # NULL /\ taken'[e] = r /\ Published(e)'
        BY <3>1, <3>5, ThreadsAssumption DEF Published, TypeOK
      <4>2. \A j \in Irps \ {r} : ClaimSame(j)
        BY <3>1, <3>5, ThreadsAssumption DEF ClaimSame, Claimed, Fits, Refusal, TypeOK
      <4>3. [j \in Irps |-> Answer(j)]' = [[j \in Irps |-> Answer(j)] EXCEPT ![r] = Answer(r)']
        BY <4>2, FeedAnswer
      <4>4. Answer(r)' = e \/ Answer(r)' = "short"
        BY <4>1 DEF AnswerInv, Offer
      <4>5. /\ {d \in Events : Published(d)}' = {d \in Events : Published(d)} \cup {e}
            /\ e \notin {d \in Events : Published(d)}
        BY <3>2, <3>3, <4>1
      <4> QED
        BY <3>1, <3>5, <4>1, <4>3, <4>4, <4>5 DEF Feed!Serve, Feed!Give
    <3> QED
      BY <3>4, <3>5 DEF TypeOK, Feed!Next
  <2>4. CASE SubmitDeliver(e)
    BY <2>4, FeedIdle DEF SubmitDeliver, Published, Refusal, TypeOK
  <2>5. CASE DeliverComplete(e)
    <3>1. PICK r \in Irps : r = taken[e]
      BY <2>5, CallbackIrp DEF DeliverComplete, CopyInv, StatusInv
    <3>2. ~Unclaimed(r)
      BY <3>1, ClaimantKinds DEF Unclaimed, Claimed
    <3> QED
      BY <2>5, <3>1, <3>2, FeedIdle DEF DeliverComplete, complete_irp, Published, Refusal,
         TypeOK
  <2>6. CASE SubmitTooSmall(e)
    BY <2>6, FeedIdle DEF SubmitTooSmall, Published, Refusal, TypeOK
  <2>7. CASE TooSmallCount(e)
    BY <2>7, FeedIdle DEF TooSmallCount, Published, Refusal, TypeOK
  <2>8. CASE TooSmallComplete(e)
    <3>1. PICK r \in Irps : r = taken[e]
      BY <2>8, InHand DEF TooSmallComplete, CopyInv, StatusInv
    <3>2. ~Unclaimed(r)
      BY <3>1, ClaimantKinds DEF Unclaimed, Claimed
    <3> QED
      BY <2>8, <3>1, <3>2, FeedIdle DEF TooSmallComplete, complete_irp, Published, Refusal,
         TypeOK
  <2>9. CASE SubmitEnqueue(e)
    <3>1. /\ UNCHANGED <<PENDING_IRP, taken, slot, ftaken, utaken, size, outlen, ipc, status>>
          /\ epc[e] = "swapped" /\ taken[e] = NULL /\ epc' = [epc EXCEPT ![e] = "returned"]
          /\ queue' = Append(IF Len(queue) = QUEUE_CAP THEN Tail(queue) ELSE queue, e)
      BY <2>9 DEF SubmitEnqueue
    <3>2. PENDING_IRP = NULL
      BY <3>1 DEF WakeupInv
    <3>3. /\ {d \in Events : Published(d)}' = {d \in Events : Published(d)} \cup {e}
          /\ e \notin {d \in Events : Published(d)}
      <4>1. \A d \in Events : d # e => (Published(d)' <=> Published(d))
        BY <3>1 DEF Published, TypeOK
      <4>2. Published(e)' /\ ~Published(e)
        BY <3>1 DEF Published, TypeOK
      <4> QED
        BY <4>1, <4>2
    <3>4. [j \in Irps |-> Answer(j)]' = [j \in Irps |-> Answer(j)]
      <4>1. \A j \in Irps : ClaimSame(j)
        BY <3>1 DEF ClaimSame, Claimed, Fits, Refusal
      <4>2. \A j \in Irps : Answer(j)' = Answer(j)
        BY <4>1, AnswerSame
      <4> QED
        BY <4>2
    <3>5. Feed!Publish(e)
      BY <3>1, <3>2, <3>3, <3>4 DEF Feed!Publish
    <3> QED
      BY <3>5 DEF Feed!Next
  <2> QED
    BY <1>9, <2>1, <2>2, <2>3, <2>4, <2>5, <2>6, <2>7, <2>8, <2>9 DEF CallbackStep
<1>10. ASSUME NEW i \in Irps, DispatchStep(i)
      PROVE  [Feed!Next]_(Feed!vars)
  <2>1. CASE InvalidRequest(i)
    <3>1. /\ UNCHANGED <<queue, PENDING_IRP, taken, slot, ftaken, utaken, size, outlen, epc>>
          /\ ipc[i] = "entered" /\ ipc' = [ipc EXCEPT ![i] = "returned"]
          /\ status' = [status EXCEPT ![i] = "INVALID_DEVICE_REQUEST"]
      BY <2>1 DEF InvalidRequest, complete_irp
    <3>2. \A j \in Irps \ {i} : ClaimSame(j)
      BY <3>1 DEF ClaimSame, Claimed, Fits, Refusal, TypeOK
    <3>3. [j \in Irps |-> Answer(j)]' = [[j \in Irps |-> Answer(j)] EXCEPT ![i] = Answer(i)']
      BY <3>2, FeedAnswer
    <3>4. Answer(i)' = "invalid"
      <4>1. Unclaimed(i)'
        BY <3>1, NotAnswered DEF Unclaimed, Claimed, Claimants
      <4>2. ipc'[i] = "returned" /\ status'[i] = "INVALID_DEVICE_REQUEST"
        BY <3>1 DEF TypeOK
      <4> QED
        BY <4>1, <4>2 DEF AnswerInv, Refusal
    <3>5. {d \in Events : Published(d)}' = {d \in Events : Published(d)}
      BY <3>1 DEF Published
    <3>6. Feed!Fresh(i)
      BY <3>1, NotAnswered DEF Feed!Fresh
    <3>7. Feed!Reject(i)
      BY <3>1, <3>3, <3>4, <3>5, <3>6 DEF Feed!Reject
    <3> QED
      BY <3>7 DEF Feed!Next
  <2>2. CASE DcAcquire(i)
    BY <2>2, FeedIdle DEF DcAcquire, Published, Refusal, TypeOK
  <2>3. CASE DcPop(i)
    <3>1. /\ UNCHANGED <<PENDING_IRP, taken, ftaken, utaken, size, outlen, epc, status>>
          /\ ipc[i] = "locked" /\ ipc' = [ipc EXCEPT ![i] = "popped"]
          /\ queue # << >> /\ queue' = Tail(queue) /\ slot' = [slot EXCEPT ![i] = Head(queue)]
      BY <2>3 DEF DcPop
    <3>2. Head(queue) \in Events
      BY <3>1, QueuedEvent
    <3>3. \A j \in Irps \ {i} : ClaimSame(j)
      BY <3>1 DEF ClaimSame, Claimed, Fits, Refusal, TypeOK
    <3>4. [j \in Irps |-> Answer(j)]' = [[j \in Irps |-> Answer(j)] EXCEPT ![i] = Answer(i)']
      BY <3>3, FeedAnswer
    <3>5. PICK e \in Events : e = Head(queue) /\ slot'[i] = e
      BY <3>1, <3>2 DEF TypeOK
    <3>6. Answer(i)' = e \/ Answer(i)' = "short"
      BY <3>5 DEF AnswerInv, Offer
    <3>7. {d \in Events : Published(d)}' = {d \in Events : Published(d)}
      BY <3>1 DEF Published
    <3>8. Feed!Fresh(i)
      BY <3>1, NotAnswered DEF Feed!Fresh
    <3>9. Feed!Take(i)
      BY <3>1, <3>4, <3>5, <3>6, <3>7, <3>8 DEF Feed!Take, Feed!Give
    <3> QED
      BY <3>9 DEF Feed!Next
  <2>4. CASE FastComplete(i)
    <3>1. ~Unclaimed(i)
      BY <2>4, ClaimantKinds DEF FastComplete, LocalInv, Unclaimed, Claimed
    <3> QED
      BY <2>4, <3>1, FeedIdle DEF FastComplete, complete_irp, Published, Refusal, TypeOK
  <2>5. CASE FastTooSmall(i)
    BY <2>5, FeedIdle DEF FastTooSmall, Published, Refusal, TypeOK
  <2>6. CASE FastTooSmallComplete(i)
    <3>1. ~Unclaimed(i)
      BY <2>6, ClaimantKinds DEF FastTooSmallComplete, LocalInv, Unclaimed, Claimed
    <3> QED
      BY <2>6, <3>1, FeedIdle DEF FastTooSmallComplete, complete_irp, Published, Refusal, TypeOK
  <2>7. CASE DcPark(i)
    <3>1. /\ UNCHANGED <<queue, taken, slot, ftaken, utaken, size, outlen, epc, status>>
          /\ ipc[i] = "locked" /\ ipc' = [ipc EXCEPT ![i] = "parked"]
          /\ queue = << >> /\ PENDING_IRP = NULL /\ PENDING_IRP' = i
      BY <2>7 DEF DcPark
    <3>2. \A j \in Irps : ClaimSame(j)
      BY <3>1 DEF ClaimSame, Claimed, Fits, Refusal, TypeOK
    <3>3. \A j \in Irps : Answer(j)' = Answer(j)
      BY <3>2, AnswerSame
    <3>4. [j \in Irps |-> Answer(j)]' = [j \in Irps |-> Answer(j)]
      BY <3>3
    <3>5. {d \in Events : Published(d)}' = {d \in Events : Published(d)}
      BY <3>1 DEF Published
    <3>6. Feed!Fresh(i)
      BY <3>1, NotAnswered DEF Feed!Fresh
    <3>7. Feed!Wait(i)
      BY <3>1, <3>4, <3>5, <3>6 DEF Feed!Wait
    <3> QED
      BY <3>7 DEF Feed!Next
  <2>8. CASE MarkPending(i)
    BY <2>8, FeedIdle DEF MarkPending, Published, Refusal, TypeOK
  <2>9. CASE DcRefuse(i)
    <3>1. /\ UNCHANGED <<queue, PENDING_IRP, taken, slot, ftaken, utaken, size, outlen, epc,
               status>>
          /\ ipc[i] = "locked" /\ ipc' = [ipc EXCEPT ![i] = "refused"]
          /\ queue = << >> /\ PENDING_IRP # NULL
      BY <2>9 DEF DcRefuse
    <3>2. \A j \in Irps \ {i} : ClaimSame(j)
      BY <3>1 DEF ClaimSame, Claimed, Fits, Refusal, TypeOK
    <3>3. [j \in Irps |-> Answer(j)]' = [[j \in Irps |-> Answer(j)] EXCEPT ![i] = Answer(i)']
      BY <3>2, FeedAnswer
    <3>4. Answer(i)' = "refused"
      <4>1. Unclaimed(i)'
        BY <3>1, NotAnswered DEF Unclaimed, Claimed, Claimants
      <4>2. ipc'[i] = "refused"
        BY <3>1 DEF TypeOK
      <4> QED
        BY <4>1, <4>2 DEF AnswerInv, Refusal
    <3>5. {d \in Events : Published(d)}' = {d \in Events : Published(d)}
      BY <3>1 DEF Published
    <3>6. Feed!Fresh(i)
      BY <3>1, NotAnswered DEF Feed!Fresh
    <3>7. Feed!Refuse(i)
      BY <3>1, <3>3, <3>4, <3>5, <3>6 DEF Feed!Refuse
    <3> QED
      BY <3>7 DEF Feed!Next
  <2>10. CASE RefuseComplete(i)
    <3>1. status[i] = "none"
      BY <2>10, InHand DEF RefuseComplete, DispatchHas, ToldInv
    <3> QED
      BY <2>10, <3>1, FeedIdle DEF RefuseComplete, complete_irp, Published, Refusal, TypeOK
  <2> QED
    BY <1>10, <2>1, <2>2, <2>3, <2>4, <2>5, <2>6, <2>7, <2>8, <2>9, <2>10 DEF DispatchStep
<1>11. CASE UnloadStep
  <2>1. CASE UnloadDeregister
    BY <2>1, FeedIdle DEF UnloadDeregister, Published, Refusal, TypeOK
  <2>2. CASE UnloadSwap
    <3>1. /\ UNCHANGED <<queue, taken, slot, ftaken, size, outlen, epc, ipc, status>>
          /\ PENDING_IRP' = NULL /\ utaken' = PENDING_IRP /\ utaken = NULL
      BY <2>2 DEF UnloadSwap, FreshInv
    <3>2. /\ \A d \in Events : Published(d)' <=> Published(d)
          /\ {d \in Events : Published(d)}' = {d \in Events : Published(d)}
      BY <3>1 DEF Published
    <3>3. CASE PENDING_IRP = NULL
      <4>1. utaken' = utaken
        BY <3>1, <3>3 DEF TypeOK
      <4> QED
        BY <3>1, <3>2, <3>3, <4>1, FeedIdle DEF Refusal
    <3>4. ASSUME NEW r \in Irps, PENDING_IRP = r PROVE Feed!Cancel
      <4>1. r # NULL /\ utaken' = r
        BY <3>1, <3>4, ThreadsAssumption DEF TypeOK
      <4>2. \A j \in Irps \ {r} : ClaimSame(j)
        BY <3>1, <3>4, ThreadsAssumption DEF ClaimSame, Claimed, Fits, Refusal, TypeOK
      <4>3. [j \in Irps |-> Answer(j)]' = [[j \in Irps |-> Answer(j)] EXCEPT ![r] = Answer(r)']
        BY <4>2, FeedAnswer
      <4>4. Answer(r)' = "cancelled"
        BY <4>1 DEF AnswerInv
      <4> QED
        BY <3>1, <3>2, <3>4, <4>1, <4>3, <4>4 DEF Feed!Cancel
    <3> QED
      BY <3>3, <3>4 DEF TypeOK, Feed!Next
  <2>3. CASE UnloadCancel
    <3>1. CASE utaken = NULL
      BY <2>3, <3>1, FeedIdle DEF UnloadCancel, Published, Refusal
    <3>2. CASE utaken # NULL
      <4>1. PICK r \in Irps : r = utaken
        BY <3>2 DEF TypeOK
      <4>2. ~Unclaimed(r)
        BY <4>1, ClaimantKinds DEF Unclaimed, Claimed
      <4> QED
        BY <2>3, <3>2, <4>1, <4>2, FeedIdle DEF UnloadCancel, complete_irp, Published,
           Refusal, TypeOK
    <3> QED
      BY <3>1, <3>2
  <2>4. CASE UnloadAcquire
    BY <2>4, FeedIdle DEF UnloadAcquire, Published, Refusal, TypeOK
  <2>5. CASE UnloadPop
    <3>1. /\ UNCHANGED <<PENDING_IRP, taken, slot, ftaken, utaken, size, outlen, epc, ipc,
               status>>
          /\ upc = "draining" /\ queue # << >> /\ queue' = Tail(queue)
      BY <2>5 DEF UnloadPop
    <3>2. PENDING_IRP = NULL
      BY <3>1 DEF UnloadInv
    <3>3. \A j \in Irps : ClaimSame(j)
      BY <3>1 DEF ClaimSame, Claimed, Fits, Refusal
    <3>4. \A j \in Irps : Answer(j)' = Answer(j)
      BY <3>3, AnswerSame
    <3>5. [j \in Irps |-> Answer(j)]' = [j \in Irps |-> Answer(j)]
      BY <3>4
    <3>6. {d \in Events : Published(d)}' = {d \in Events : Published(d)}
      BY <3>1 DEF Published
    <3>7. Feed!Discard
      BY <3>1, <3>2, <3>5, <3>6 DEF Feed!Discard
    <3> QED
      BY <3>7 DEF Feed!Next
  <2>6. CASE UnloadRelease
    BY <2>6, FeedIdle DEF UnloadRelease, Published, Refusal, TypeOK
  <2> QED
    BY <1>11, <2>1, <2>2, <2>3, <2>4, <2>5, <2>6 DEF UnloadStep
<1>12. CASE UNCHANGED vars
  BY <1>12, FeedIdle DEF vars, Published, Refusal, TypeOK
<1> QED
  BY <1>1, <1>2, <1>3, <1>4, <1>5, <1>6, <1>7, <1>8, <1>9, <1>10, <1>11, <1>12
  DEF Next, Environment, Gone


\* Lock, threads, buffers and the PENDING_IRP word implement the bounded feed of
\* module EventFeed: events in order, the oldest lost first, one answer per
\* request, one request per event, one waiter.
THEOREM FeedRefines == Spec => ImplementsFeed
<1>1. Init => Feed!Init
  <2> SUFFICES ASSUME Init PROVE Feed!Init
    OBVIOUS
  <2>1. \A i \in Irps : Answer(i) = "none"
    <3>1. AnswerInv
      BY FeedInit, AnswersSettled
    <3>2. \A i \in Irps : Unclaimed(i) /\ Refusal(i) = "none"
      BY ThreadsAssumption DEF Init, Unclaimed, Claimed, Refusal
    <3> QED
      BY <3>1, <3>2 DEF AnswerInv
  <2>2. {e \in Events : Published(e)} = {}
    BY DEF Init, Published
  <2> QED
    BY <2>1, <2>2 DEF Init, Feed!Init
<1>2. FeedInv /\ FeedInv' /\ [Next]_vars => [Feed!Next]_(Feed!vars)
  <2>1. FeedInv' => AnswerInv'
    BY AnswersSettled, PTL
  <2> QED
    BY <2>1, AnswersSettled, FeedStep
<1> QED
  BY <1>1, <1>2, FeedInvariant, PTL DEF Spec, ImplementsFeed, Feed!Spec


----------------------------------------------------------------------------
(* What no step may do. *)

\* A request that is completed stays as it is.
Untouched ==
  \A i \in Irps : io[i] = "done" =>
    /\ io'[i] = "done"
    /\ sysbuf'[i] = sysbuf[i] /\ status'[i] = status[i] /\ info'[i] = info[i]

\* A step that completes request r, which the driver owes, and copies to no other.
LEMMA OthersUntouched ==
  ASSUME TypeOK, NEW r \in Irps, io[r] = "owned", NEW st, NEW n, complete_irp(r, st, n),
         \A i \in Irps : i # r => sysbuf'[i] = sysbuf[i]
  PROVE  Untouched
BY DEF TypeOK, complete_irp, Untouched

\* Every step writes only requests the driver owes.
LEMMA UntouchedStep ==
  ASSUME FeedInv, [Next]_vars
  PROVE  Untouched
<1> USE DEF FeedInv, LossInv, IndInv, shared, loss, evVars, reqVars, ioVars, fileVars,
           unloadVars
<1>1. ASSUME NEW e \in Events, NEW n \in Sizes, AllocEvent(e, n)
      PROVE  Untouched
  BY <1>1 DEF AllocEvent, Idle, Untouched
<1>2. ASSUME NEW e \in Events, AllocFail(e)
      PROVE  Untouched
  BY <1>2 DEF AllocFail, Idle, Untouched
<1>3. ASSUME NEW f \in Files, Open(f)
      PROVE  Untouched
  BY <1>3 DEF Open, Untouched
<1>4. ASSUME NEW f \in Files, CleanupSwap(f)
      PROVE  Untouched
  BY <1>4 DEF CleanupSwap, Untouched
<1>5. ASSUME NEW f \in Files, Close(f)
      PROVE  Untouched
  BY <1>5 DEF Close, Untouched
<1>6. ASSUME NEW i \in Irps, NEW f \in Files, NEW n \in Sizes, DeviceControl(i, f, n)
      PROVE  Untouched
  <2>1. io[i] = "agent"
    BY <1>6 DEF DeviceControl, IrpInv
  <2> QED
    BY <1>6, <2>1 DEF DeviceControl, Untouched, TypeOK
<1>7. CASE UnloadStart
  BY <1>7 DEF UnloadStart, Untouched
<1>8. ASSUME NEW f \in Files, CleanupComplete(f)
      PROVE  Untouched
  <2>1. CASE ftaken[f] = NULL
    BY <1>8, <2>1 DEF CleanupComplete, Untouched
  <2>2. CASE ftaken[f] # NULL
    <3>1. PICK r \in Irps : r = ftaken[f] /\ io[r] = "owned"
      BY <1>8, <2>2, InHand DEF CleanupComplete
    <3> QED
      BY <1>8, <2>2, <3>1, OthersUntouched DEF CleanupComplete
  <2> QED
    BY <2>1, <2>2
<1>9. ASSUME NEW e \in Events, CallbackStep(e)
      PROVE  Untouched
  <2>1. CASE make_header(e)
    BY <2>1 DEF make_header, Untouched
  <2>2. CASE SubmitAcquire(e)
    BY <2>2 DEF SubmitAcquire, Untouched
  <2>3. CASE SubmitSwap(e)
    BY <2>3 DEF SubmitSwap, Untouched
  <2>4. CASE SubmitDeliver(e)
    <3>1. taken[e] \in Irps /\ io[taken[e]] = "owned"
      BY <2>4, InHand DEF SubmitDeliver
    <3> QED
      BY <2>4, <3>1 DEF SubmitDeliver, Untouched, TypeOK
  <2>5. CASE DeliverComplete(e)
    <3>1. PICK r \in Irps : r = taken[e] /\ io[r] = "owned"
      BY <2>5, CallbackIrp DEF DeliverComplete
    <3> QED
      BY <2>5, <3>1, OthersUntouched DEF DeliverComplete
  <2>6. CASE SubmitTooSmall(e)
    BY <2>6 DEF SubmitTooSmall, Untouched
  <2>7. CASE TooSmallCount(e)
    BY <2>7 DEF TooSmallCount, Untouched
  <2>8. CASE TooSmallComplete(e)
    <3>1. PICK r \in Irps : r = taken[e] /\ io[r] = "owned"
      BY <2>8, InHand DEF TooSmallComplete
    <3> QED
      BY <2>8, <3>1, OthersUntouched DEF TooSmallComplete
  <2>9. CASE SubmitEnqueue(e)
    BY <2>9 DEF SubmitEnqueue, Untouched
  <2> QED
    BY <1>9, <2>1, <2>2, <2>3, <2>4, <2>5, <2>6, <2>7, <2>8, <2>9 DEF CallbackStep
<1>10. ASSUME NEW i \in Irps, DispatchStep(i)
      PROVE  Untouched
  <2>1. CASE InvalidRequest(i)
    <3>1. io[i] = "owned"
      BY <2>1, InHand DEF InvalidRequest, DispatchHas
    <3> QED
      BY <2>1, <3>1, OthersUntouched DEF InvalidRequest
  <2>2. CASE DcAcquire(i)
    BY <2>2 DEF DcAcquire, Untouched
  <2>3. CASE DcPop(i)
    BY <2>3 DEF DcPop, Untouched
  <2>4. CASE FastComplete(i)
    <3>1. io[i] = "owned" /\ \A j \in Irps : j # i => sysbuf'[j] = sysbuf[j]
      BY <2>4, InHand DEF FastComplete, DispatchHas, TypeOK
    <3> QED
      BY <2>4, <3>1, OthersUntouched DEF FastComplete
  <2>5. CASE FastTooSmall(i)
    BY <2>5 DEF FastTooSmall, Untouched
  <2>6. CASE FastTooSmallComplete(i)
    <3>1. io[i] = "owned"
      BY <2>6, InHand DEF FastTooSmallComplete, DispatchHas
    <3> QED
      BY <2>6, <3>1, OthersUntouched DEF FastTooSmallComplete
  <2>7. CASE DcPark(i)
    BY <2>7 DEF DcPark, Untouched
  <2>8. CASE MarkPending(i)
    BY <2>8 DEF MarkPending, Untouched
  <2>9. CASE DcRefuse(i)
    BY <2>9 DEF DcRefuse, Untouched
  <2>10. CASE RefuseComplete(i)
    <3>1. io[i] = "owned"
      BY <2>10, InHand DEF RefuseComplete, DispatchHas
    <3> QED
      BY <2>10, <3>1, OthersUntouched DEF RefuseComplete
  <2> QED
    BY <1>10, <2>1, <2>2, <2>3, <2>4, <2>5, <2>6, <2>7, <2>8, <2>9, <2>10 DEF DispatchStep
<1>11. CASE UnloadStep
  <2>1. CASE UnloadDeregister
    BY <2>1 DEF UnloadDeregister, Untouched
  <2>2. CASE UnloadSwap
    BY <2>2 DEF UnloadSwap, Untouched
  <2>3. CASE UnloadCancel
    <3>1. CASE utaken = NULL
      BY <2>3, <3>1 DEF UnloadCancel, Untouched
    <3>2. CASE utaken # NULL
      <4>1. PICK r \in Irps : r = utaken /\ io[r] = "owned"
        BY <2>3, <3>2, InHand DEF UnloadCancel
      <4> QED
        BY <2>3, <3>2, <4>1, OthersUntouched DEF UnloadCancel
    <3> QED
      BY <3>1, <3>2
  <2>4. CASE UnloadAcquire
    BY <2>4 DEF UnloadAcquire, Untouched
  <2>5. CASE UnloadPop
    BY <2>5 DEF UnloadPop, Untouched
  <2>6. CASE UnloadRelease
    BY <2>6 DEF UnloadRelease, Untouched
  <2> QED
    BY <1>11, <2>1, <2>2, <2>3, <2>4, <2>5, <2>6 DEF UnloadStep
<1>12. CASE UNCHANGED vars
  BY <1>12 DEF vars, Untouched
<1> QED
  BY <1>1, <1>2, <1>3, <1>4, <1>5, <1>6, <1>7, <1>8, <1>9, <1>10, <1>11, <1>12
  DEF Next, Environment, Gone

\* Once a request is completed, no thread writes its buffer or its status again.
THEOREM CompletedStaysPut == Spec => CompletedIsUntouched
<1>1. FeedInv /\ [Next]_vars => Untouched
  BY UntouchedStep
<1>2. Untouched =>
        [\A i \in Irps : io[i] = "done" =>
           /\ io'[i] = "done"
           /\ sysbuf'[i] = sysbuf[i] /\ status'[i] = status[i] /\ info'[i] = info[i]]_vars
  BY DEF Untouched
<1> QED
  BY <1>1, <1>2, FeedInvariant, PTL DEF Spec, CompletedIsUntouched

\* A parked request has no answer yet.
LEMMA ParkedUnanswered ==
  ASSUME FeedInv, AnswerInv, NEW i \in Irps, PENDING_IRP = i
  PROVE  Answer(i) = "none"
<1>1. Unclaimed(i) /\ ipc[i] \in {"parked", "returned"}
  BY ThreadsAssumption DEF FeedInv, ClaimInv, Unclaimed
<1>2. status[i] = "none"
  BY DEF FeedInv, ToldInv
<1> QED
  BY <1>1, <1>2 DEF AnswerInv, Refusal

\* An answer that is fixed is never changed: the feed only answers requests that are
\* fresh or waiting, and those have none.
THEOREM AnswersAreFinal == Spec => AnswerIsFinal
<1>1. FeedInv /\ FeedInv' /\ [Next]_vars =>
        [\A i \in Irps : Answer(i) # "none" => Answer(i)' = Answer(i)]_vars
  <2> SUFFICES ASSUME FeedInv, FeedInv', [Next]_vars, NEW i \in Irps, Answer(i) # "none"
               PROVE  Answer(i)' = Answer(i)
    OBVIOUS
  <2> DEFINE given == [j \in Irps |-> Answer(j)]
  <2>1. AnswerInv
    BY AnswersSettled
  <2>2. FeedInv' => AnswerInv'
    BY AnswersSettled, PTL
  <2>3. [Feed!Next]_(Feed!vars)
    BY <2>1, <2>2, FeedStep
  <2>4. PENDING_IRP # i
    BY <2>1, ParkedUnanswered
  <2>5. given[i] = Answer(i) /\ given'[i] = Answer(i)'
    OBVIOUS
  <2>6. given'[i] = given[i]
    <3> HIDE DEF given
    <3>1. ASSUME NEW e \in Events, Feed!Publish(e) \/ Feed!Serve(e)
          PROVE  given'[i] = given[i]
      BY <2>4, <3>1 DEF given, Feed!Publish, Feed!Serve, Feed!Give
    <3>2. ASSUME NEW r \in Irps, Feed!Take(r) \/ Feed!Wait(r) \/ Feed!Refuse(r) \/ Feed!Reject(r)
          PROVE  given'[i] = given[i]
      BY <3>2 DEF given, Feed!Take, Feed!Wait, Feed!Refuse, Feed!Reject, Feed!Give, Feed!Fresh
    <3>3. ASSUME Feed!Cancel \/ Feed!Discard \/ UNCHANGED Feed!vars
          PROVE  given'[i] = given[i]
      BY <2>4, <3>3 DEF given, Feed!Cancel, Feed!Discard, Feed!vars
    <3> QED
      BY <2>3, <3>1, <3>2, <3>3 DEF Feed!Next
  <2> QED
    BY <2>5, <2>6
<1> QED
  BY <1>1, FeedInvariant, PTL DEF Spec, AnswerIsFinal
=============================================================================
