------------------------- MODULE InvertedCallProofs -------------------------
(***************************************************************************)
(* Proofs about module InvertedCall, for any number of callbacks, requests *)
(* and handles and any queue capacity.                                     *)
(***************************************************************************)
EXTENDS InvertedCall, SequenceTheorems, TLAPS

\* The lock has one owner at a time, and its owner is where it thinks it is.
LockInv ==
  /\ \A e \in Events : epc[e] \in {"locked", "swapped"} <=> lock = e
  /\ \A i \in Irps : ipc[i] = "locked" <=> lock = i
  /\ upc = "draining" <=> lock = UNLOAD

\* Between its swap and its enqueue a callback knows PENDING_IRP is empty: only a
\* lock holder parks.
WakeupInv ==
  /\ NoLostWakeup
  /\ \A e \in Events : epc[e] = "swapped" => PENDING_IRP = NULL

\* A thread that has something in hand knows it.
LocalInv ==
  /\ \A e \in Events : epc[e] \in {"delivering", "dropping", "failing"} => taken[e] # NULL
  /\ \A i \in Irps : ipc[i] \in {"popped", "failing"} => slot[i] # NULL

\* h has to complete request i: the same as h \in IrpHolders(i).
Holders == Threads \cup Files \cup {NULL}
Held(h, i) ==
  \/ h = i /\ DispatchHas(i)
  \/ h = NULL /\ PENDING_IRP = i
  \/ h \in Events /\ CallbackHas(h, i)
  \/ h \in Files /\ CleanupHas(h, i)
  \/ h = UNLOAD /\ UnloadHas(i)

\* A request has a holder when and only when the driver owes it, and then one.
IrpInv ==
  /\ \A i \in Irps : ipc[i] = "idle" <=> io[i] = "agent"
  /\ \A i \in Irps, h \in Holders : Held(h, i) => io[i] = "owned"
  /\ \A i \in Irps, g, h \in Holders : Held(g, i) /\ Held(h, i) => g = h
  /\ \A i \in Irps : io[i] = "owned" => \E h \in Holders : Held(h, i)

\* The events in a queue, and a queue that holds none of them twice.
Elements(q) == {q[k] : k \in DOMAIN q}
Distinct(q) == \A j, k \in DOMAIN q : q[j] = q[k] => j = k

\* h has to free the buffer of event e.  The queue is one owner here, named NULL:
\* Distinct says that e has one position in it.
Owners == Threads \cup {NULL}
Owned(h, e) ==
  \/ h = e /\ CallbackOwns(e)
  \/ h = NULL /\ e \in Elements(queue)
  \/ h \in Irps /\ RequestOwns(h, e)

\* A buffer has an owner when and only when it is allocated, and then one.
BufferInv ==
  /\ Distinct(queue)
  /\ \A e \in Events : pool[e] = "none" <=> epc[e] \in {"idle", "oom"}
  /\ \A e \in Events, h \in Owners : Owned(h, e) => pool[e] = "live"
  /\ \A e \in Events, g, h \in Owners : Owned(g, e) /\ Owned(h, e) => g = h
  /\ \A e \in Events : pool[e] = "live" => \E h \in Owners : Owned(h, e)

\* What driver_unload knows at each of its stages.
UnloadInv ==
  /\ upc # "running" => /\ \A i \in Irps : ipc[i] \in {"idle", "returned"}
                        /\ \A f \in Files : fpc[f] # "cleanup"
  /\ upc \notin {"running", "deregister"} => \A e \in Events : Idle(e) \/ Returned(e)
  /\ upc \notin {"running", "deregister", "cancel"} => PENDING_IRP = NULL
  /\ upc = "unloaded" => queue = << >>

\* The inductive invariant: each part needs some of the others to be preserved.
IndInv == TypeOK /\ LockInv /\ WakeupInv /\ LocalInv /\ IrpInv /\ BufferInv /\ UnloadInv

----------------------------------------------------------------------------
(* Queues without duplicates. *)

\* Pushing an event that is not queued keeps the queue free of duplicates.
LEMMA AppendElements ==
  ASSUME NEW q \in Seq(Events), NEW e \in Events
  PROVE  /\ Append(q, e) \in Seq(Events)
         /\ Elements(Append(q, e)) = Elements(q) \cup {e}
         /\ Distinct(q) /\ e \notin Elements(q) => Distinct(Append(q, e))
<1> DEFINE r == Append(q, e)
<1>1. /\ r \in Seq(Events) /\ Len(q) \in Nat
      /\ DOMAIN q = 1 .. Len(q) /\ DOMAIN r = 1 .. Len(q) + 1
      /\ r[Len(q) + 1] = e
      /\ \A k \in 1 .. Len(q) : r[k] = q[k]
    OBVIOUS
<1> HIDE DEF r
<1>2. Elements(r) = Elements(q) \cup {e}
    BY <1>1 DEF Elements
<1>3. ASSUME Distinct(q), e \notin Elements(q) PROVE Distinct(r)
    BY <1>1, <1>3 DEF Distinct, Elements
<1> QED
    BY <1>1, <1>2, <1>3 DEF r

\* The event that is popped or evicted was queued.
LEMMA HeadElement ==
  ASSUME NEW q \in Seq(Events), q # << >>
  PROVE  /\ Head(q) \in Events
         /\ Head(q) \in Elements(q)
BY DEF Elements

\* Popping takes exactly the oldest event out.
LEMMA TailElements ==
  ASSUME NEW q \in Seq(Events), q # << >>, Distinct(q)
  PROVE  /\ Tail(q) \in Seq(Events)
         /\ Elements(Tail(q)) = Elements(q) \ {Head(q)}
         /\ Distinct(Tail(q))
<1>1. Len(q) \in Nat \ {0} /\ DOMAIN q = 1 .. Len(q) /\ Head(q) = q[1]
    OBVIOUS
<1>2. /\ Tail(q) \in Seq(Events)
      /\ DOMAIN Tail(q) = 1 .. Len(q) - 1
      /\ \A k \in 1 .. Len(q) - 1 : Tail(q)[k] = q[k + 1]
    OBVIOUS
<1>3. Distinct(Tail(q))
    BY <1>1, <1>2 DEF Distinct
<1>4. ASSUME NEW x \in Elements(Tail(q)) PROVE x \in Elements(q) \ {Head(q)}
    BY <1>1, <1>2 DEF Elements, Distinct
<1>5. ASSUME NEW x \in Elements(q) \ {Head(q)} PROVE x \in Elements(Tail(q))
  <2>1. PICK k \in 1 .. Len(q) : x = q[k] /\ k # 1
      BY <1>1 DEF Elements
  <2>2. k - 1 \in 1 .. Len(q) - 1 /\ Tail(q)[k - 1] = q[k]
      BY <1>1, <1>2, <2>1
  <2> QED
      BY <1>2, <2>1, <2>2 DEF Elements
<1> QED
    BY <1>2, <1>3, <1>4, <1>5

----------------------------------------------------------------------------
(* The lock, the wake-up, and what each thread has in hand. *)

\* SpinLockGuard: every step keeps the lock with the one thread that is inside it.
LEMMA LockStep == TypeOK /\ LockInv /\ [Next]_vars => LockInv'
<1> SUFFICES ASSUME TypeOK, LockInv, [Next]_vars PROVE LockInv'
    OBVIOUS
<1> USE ThreadsAssumption
    DEF LockInv, shared, loss, evVars, reqVars, ioVars, fileVars, unloadVars
<1>1. ASSUME NEW e \in Events, NEW n \in Sizes, AllocEvent(e, n) PROVE LockInv'
    BY <1>1 DEF AllocEvent, Idle, CallbacksRegistered, TypeOK
<1>2. ASSUME NEW e \in Events, AllocFail(e) PROVE LockInv'
    BY <1>2 DEF AllocFail, Idle, CallbacksRegistered, TypeOK
<1>3. ASSUME NEW f \in Files, Open(f) PROVE LockInv'
    BY <1>3 DEF Open, Loaded, TypeOK
<1>4. ASSUME NEW f \in Files, CleanupSwap(f) PROVE LockInv'
    BY <1>4 DEF CleanupSwap, Loaded, TypeOK
<1>5. ASSUME NEW f \in Files, Close(f) PROVE LockInv'
    BY <1>5 DEF Close, Loaded, TypeOK
<1>6. ASSUME NEW i \in Irps, NEW f \in Files, NEW n \in Sizes, DeviceControl(i, f, n)
      PROVE  LockInv'
    BY <1>6 DEF DeviceControl, Loaded, TypeOK
<1>7. CASE UnloadStart
    BY <1>7 DEF UnloadStart, TypeOK
<1>8. ASSUME NEW f \in Files, CleanupComplete(f) PROVE LockInv'
    BY <1>8 DEF CleanupComplete, TypeOK
<1>9. ASSUME NEW e \in Events, CallbackStep(e) PROVE LockInv'
  <2>1. CASE make_header(e)
      BY <2>1 DEF make_header, TypeOK
  <2>2. CASE SubmitAcquire(e)
      BY <2>2 DEF SubmitAcquire, TypeOK
  <2>3. CASE SubmitSwap(e)
      BY <2>3 DEF SubmitSwap, TypeOK
  <2>4. CASE SubmitDeliver(e)
      BY <2>4 DEF SubmitDeliver, TypeOK
  <2>5. CASE DeliverComplete(e)
      BY <2>5 DEF DeliverComplete, TypeOK
  <2>6. CASE SubmitTooSmall(e)
      BY <2>6 DEF SubmitTooSmall, TypeOK
  <2>7. CASE TooSmallCount(e)
      BY <2>7 DEF TooSmallCount, TypeOK
  <2>8. CASE TooSmallComplete(e)
      BY <2>8 DEF TooSmallComplete, TypeOK
  <2>9. CASE SubmitEnqueue(e)
      BY <2>9 DEF SubmitEnqueue, TypeOK
  <2> QED
      BY <1>9, <2>1, <2>2, <2>3, <2>4, <2>5, <2>6, <2>7, <2>8, <2>9 DEF CallbackStep
<1>10. ASSUME NEW i \in Irps, DispatchStep(i) PROVE LockInv'
  <2>1. CASE InvalidRequest(i)
      BY <2>1 DEF InvalidRequest, TypeOK
  <2>2. CASE DcAcquire(i)
      BY <2>2 DEF DcAcquire, TypeOK
  <2>3. CASE DcPop(i)
      BY <2>3 DEF DcPop, TypeOK
  <2>4. CASE FastComplete(i)
      BY <2>4 DEF FastComplete, TypeOK
  <2>5. CASE FastTooSmall(i)
      BY <2>5 DEF FastTooSmall, TypeOK
  <2>6. CASE FastTooSmallComplete(i)
      BY <2>6 DEF FastTooSmallComplete, TypeOK
  <2>7. CASE DcPark(i)
      BY <2>7 DEF DcPark, TypeOK
  <2>8. CASE MarkPending(i)
      BY <2>8 DEF MarkPending, TypeOK
  <2>9. CASE DcRefuse(i)
      BY <2>9 DEF DcRefuse, TypeOK
  <2>10. CASE RefuseComplete(i)
      BY <2>10 DEF RefuseComplete, TypeOK
  <2> QED
      BY <1>10, <2>1, <2>2, <2>3, <2>4, <2>5, <2>6, <2>7, <2>8, <2>9, <2>10 DEF
         DispatchStep
<1>11. CASE UnloadStep
  <2>1. CASE UnloadDeregister
      BY <2>1 DEF UnloadDeregister, TypeOK
  <2>2. CASE UnloadSwap
      BY <2>2 DEF UnloadSwap, TypeOK
  <2>3. CASE UnloadCancel
      BY <2>3 DEF UnloadCancel, TypeOK
  <2>4. CASE UnloadAcquire
      BY <2>4 DEF UnloadAcquire, TypeOK
  <2>5. CASE UnloadPop
      BY <2>5 DEF UnloadPop, TypeOK
  <2>6. CASE UnloadRelease
      BY <2>6 DEF UnloadRelease, TypeOK
  <2> QED
      BY <1>11, <2>1, <2>2, <2>3, <2>4, <2>5, <2>6 DEF UnloadStep
<1>12. CASE UNCHANGED vars
    BY <1>12 DEF vars, TypeOK
<1> QED
    BY <1>1, <1>2, <1>3, <1>4, <1>5, <1>6, <1>7, <1>8, <1>9, <1>10, <1>11, <1>12 DEF
       Next, Environment, Gone

\* Every step keeps a parked request and a queued event apart.
LEMMA WakeupStep == TypeOK /\ LockInv /\ WakeupInv /\ [Next]_vars => WakeupInv'
<1> SUFFICES ASSUME TypeOK, LockInv, WakeupInv, [Next]_vars PROVE WakeupInv'
    OBVIOUS
<1> USE ThreadsAssumption
    DEF WakeupInv, NoLostWakeup, shared, loss, evVars, reqVars, ioVars, fileVars, unloadVars
<1>1. ASSUME NEW e \in Events, NEW n \in Sizes, AllocEvent(e, n) PROVE WakeupInv'
    BY <1>1 DEF AllocEvent, Idle, CallbacksRegistered, TypeOK, LockInv
<1>2. ASSUME NEW e \in Events, AllocFail(e) PROVE WakeupInv'
    BY <1>2 DEF AllocFail, Idle, CallbacksRegistered, TypeOK, LockInv
<1>3. ASSUME NEW f \in Files, Open(f) PROVE WakeupInv'
    BY <1>3 DEF Open, Loaded, TypeOK, LockInv
<1>4. ASSUME NEW f \in Files, CleanupSwap(f) PROVE WakeupInv'
    BY <1>4 DEF CleanupSwap, Loaded, TypeOK, LockInv
<1>5. ASSUME NEW f \in Files, Close(f) PROVE WakeupInv'
    BY <1>5 DEF Close, Loaded, TypeOK, LockInv
<1>6. ASSUME NEW i \in Irps, NEW f \in Files, NEW n \in Sizes, DeviceControl(i, f, n)
      PROVE  WakeupInv'
    BY <1>6 DEF DeviceControl, Loaded, TypeOK, LockInv
<1>7. CASE UnloadStart
    BY <1>7 DEF UnloadStart, TypeOK, LockInv
<1>8. ASSUME NEW f \in Files, CleanupComplete(f) PROVE WakeupInv'
    BY <1>8 DEF CleanupComplete, TypeOK, LockInv
<1>9. ASSUME NEW e \in Events, CallbackStep(e) PROVE WakeupInv'
  <2>1. CASE make_header(e)
      BY <2>1 DEF make_header, TypeOK, LockInv
  <2>2. CASE SubmitAcquire(e)
      BY <2>2 DEF SubmitAcquire, TypeOK, LockInv
  <2>3. CASE SubmitSwap(e)
      BY <2>3 DEF SubmitSwap, TypeOK, LockInv
  <2>4. CASE SubmitDeliver(e)
      BY <2>4 DEF SubmitDeliver, TypeOK, LockInv
  <2>5. CASE DeliverComplete(e)
      BY <2>5 DEF DeliverComplete, TypeOK, LockInv
  <2>6. CASE SubmitTooSmall(e)
      BY <2>6 DEF SubmitTooSmall, TypeOK, LockInv
  <2>7. CASE TooSmallCount(e)
      BY <2>7 DEF TooSmallCount, TypeOK, LockInv
  <2>8. CASE TooSmallComplete(e)
      BY <2>8 DEF TooSmallComplete, TypeOK, LockInv
  <2>9. CASE SubmitEnqueue(e)
      BY <2>9 DEF SubmitEnqueue, TypeOK, LockInv
  <2> QED
      BY <1>9, <2>1, <2>2, <2>3, <2>4, <2>5, <2>6, <2>7, <2>8, <2>9 DEF CallbackStep
<1>10. ASSUME NEW i \in Irps, DispatchStep(i) PROVE WakeupInv'
  <2>1. CASE InvalidRequest(i)
      BY <2>1 DEF InvalidRequest, TypeOK, LockInv
  <2>2. CASE DcAcquire(i)
      BY <2>2 DEF DcAcquire, TypeOK, LockInv
  <2>3. CASE DcPop(i)
      BY <2>3 DEF DcPop, TypeOK, LockInv
  <2>4. CASE FastComplete(i)
      BY <2>4 DEF FastComplete, TypeOK, LockInv
  <2>5. CASE FastTooSmall(i)
      BY <2>5 DEF FastTooSmall, TypeOK, LockInv
  <2>6. CASE FastTooSmallComplete(i)
      BY <2>6 DEF FastTooSmallComplete, TypeOK, LockInv
  <2>7. CASE DcPark(i)
      BY <2>7 DEF DcPark, TypeOK, LockInv
  <2>8. CASE MarkPending(i)
      BY <2>8 DEF MarkPending, TypeOK, LockInv
  <2>9. CASE DcRefuse(i)
      BY <2>9 DEF DcRefuse, TypeOK, LockInv
  <2>10. CASE RefuseComplete(i)
      BY <2>10 DEF RefuseComplete, TypeOK, LockInv
  <2> QED
      BY <1>10, <2>1, <2>2, <2>3, <2>4, <2>5, <2>6, <2>7, <2>8, <2>9, <2>10 DEF
         DispatchStep
<1>11. CASE UnloadStep
  <2>1. CASE UnloadDeregister
      BY <2>1 DEF UnloadDeregister, TypeOK, LockInv
  <2>2. CASE UnloadSwap
      BY <2>2 DEF UnloadSwap, TypeOK, LockInv
  <2>3. CASE UnloadCancel
      BY <2>3 DEF UnloadCancel, TypeOK, LockInv
  <2>4. CASE UnloadAcquire
      BY <2>4 DEF UnloadAcquire, TypeOK, LockInv
  <2>5. CASE UnloadPop
      BY <2>5 DEF UnloadPop, TypeOK, LockInv
  <2>6. CASE UnloadRelease
      BY <2>6 DEF UnloadRelease, TypeOK, LockInv
  <2> QED
      BY <1>11, <2>1, <2>2, <2>3, <2>4, <2>5, <2>6 DEF UnloadStep
<1>12. CASE UNCHANGED vars
    BY <1>12 DEF vars, TypeOK, LockInv
<1> QED
    BY <1>1, <1>2, <1>3, <1>4, <1>5, <1>6, <1>7, <1>8, <1>9, <1>10, <1>11, <1>12 DEF
       Next, Environment, Gone

\* Every step leaves a thread that has taken something with what it took.
LEMMA LocalStep == TypeOK /\ LocalInv /\ [Next]_vars => LocalInv'
<1> SUFFICES ASSUME TypeOK, LocalInv, [Next]_vars PROVE LocalInv'
    OBVIOUS
<1> USE ThreadsAssumption
    DEF LocalInv, shared, loss, evVars, reqVars, ioVars, fileVars, unloadVars
<1>1. ASSUME NEW e \in Events, NEW n \in Sizes, AllocEvent(e, n) PROVE LocalInv'
    BY <1>1 DEF AllocEvent, Idle, CallbacksRegistered, TypeOK
<1>2. ASSUME NEW e \in Events, AllocFail(e) PROVE LocalInv'
    BY <1>2 DEF AllocFail, Idle, CallbacksRegistered, TypeOK
<1>3. ASSUME NEW f \in Files, Open(f) PROVE LocalInv'
    BY <1>3 DEF Open, Loaded, TypeOK
<1>4. ASSUME NEW f \in Files, CleanupSwap(f) PROVE LocalInv'
    BY <1>4 DEF CleanupSwap, Loaded, TypeOK
<1>5. ASSUME NEW f \in Files, Close(f) PROVE LocalInv'
    BY <1>5 DEF Close, Loaded, TypeOK
<1>6. ASSUME NEW i \in Irps, NEW f \in Files, NEW n \in Sizes, DeviceControl(i, f, n)
      PROVE  LocalInv'
    BY <1>6 DEF DeviceControl, Loaded, TypeOK
<1>7. CASE UnloadStart
    BY <1>7 DEF UnloadStart, TypeOK
<1>8. ASSUME NEW f \in Files, CleanupComplete(f) PROVE LocalInv'
    BY <1>8 DEF CleanupComplete, TypeOK
<1>9. ASSUME NEW e \in Events, CallbackStep(e) PROVE LocalInv'
  <2>1. CASE make_header(e)
      BY <2>1 DEF make_header, TypeOK
  <2>2. CASE SubmitAcquire(e)
      BY <2>2 DEF SubmitAcquire, TypeOK
  <2>3. CASE SubmitSwap(e)
      BY <2>3 DEF SubmitSwap, TypeOK
  <2>4. CASE SubmitDeliver(e)
      BY <2>4 DEF SubmitDeliver, TypeOK
  <2>5. CASE DeliverComplete(e)
      BY <2>5 DEF DeliverComplete, TypeOK
  <2>6. CASE SubmitTooSmall(e)
      BY <2>6 DEF SubmitTooSmall, TypeOK
  <2>7. CASE TooSmallCount(e)
      BY <2>7 DEF TooSmallCount, TypeOK
  <2>8. CASE TooSmallComplete(e)
      BY <2>8 DEF TooSmallComplete, TypeOK
  <2>9. CASE SubmitEnqueue(e)
      BY <2>9 DEF SubmitEnqueue, TypeOK
  <2> QED
      BY <1>9, <2>1, <2>2, <2>3, <2>4, <2>5, <2>6, <2>7, <2>8, <2>9 DEF CallbackStep
<1>10. ASSUME NEW i \in Irps, DispatchStep(i) PROVE LocalInv'
  <2>1. CASE InvalidRequest(i)
      BY <2>1 DEF InvalidRequest, TypeOK
  <2>2. CASE DcAcquire(i)
      BY <2>2 DEF DcAcquire, TypeOK
  <2>3. CASE DcPop(i)
      BY <2>3 DEF DcPop, TypeOK
  <2>4. CASE FastComplete(i)
      BY <2>4 DEF FastComplete, TypeOK
  <2>5. CASE FastTooSmall(i)
      BY <2>5 DEF FastTooSmall, TypeOK
  <2>6. CASE FastTooSmallComplete(i)
      BY <2>6 DEF FastTooSmallComplete, TypeOK
  <2>7. CASE DcPark(i)
      BY <2>7 DEF DcPark, TypeOK
  <2>8. CASE MarkPending(i)
      BY <2>8 DEF MarkPending, TypeOK
  <2>9. CASE DcRefuse(i)
      BY <2>9 DEF DcRefuse, TypeOK
  <2>10. CASE RefuseComplete(i)
      BY <2>10 DEF RefuseComplete, TypeOK
  <2> QED
      BY <1>10, <2>1, <2>2, <2>3, <2>4, <2>5, <2>6, <2>7, <2>8, <2>9, <2>10 DEF
         DispatchStep
<1>11. CASE UnloadStep
  <2>1. CASE UnloadDeregister
      BY <2>1 DEF UnloadDeregister, TypeOK
  <2>2. CASE UnloadSwap
      BY <2>2 DEF UnloadSwap, TypeOK
  <2>3. CASE UnloadCancel
      BY <2>3 DEF UnloadCancel, TypeOK
  <2>4. CASE UnloadAcquire
      BY <2>4 DEF UnloadAcquire, TypeOK
  <2>5. CASE UnloadPop
      BY <2>5 DEF UnloadPop, TypeOK
  <2>6. CASE UnloadRelease
      BY <2>6 DEF UnloadRelease, TypeOK
  <2> QED
      BY <1>11, <2>1, <2>2, <2>3, <2>4, <2>5, <2>6 DEF UnloadStep
<1>12. CASE UNCHANGED vars
    BY <1>12 DEF vars, TypeOK
<1> QED
    BY <1>1, <1>2, <1>3, <1>4, <1>5, <1>6, <1>7, <1>8, <1>9, <1>10, <1>11, <1>12 DEF
       Next, Environment, Gone

\* Every step keeps what driver_unload has established so far.
LEMMA UnloadInvStep == TypeOK /\ LockInv /\ UnloadInv /\ [Next]_vars => UnloadInv'
<1> SUFFICES ASSUME TypeOK, LockInv, UnloadInv, [Next]_vars PROVE UnloadInv'
    OBVIOUS
<1> USE
    DEF UnloadInv, Idle, Returned, shared, loss, evVars, reqVars, ioVars, fileVars, unloadVars
<1>1. ASSUME NEW e \in Events, NEW n \in Sizes, AllocEvent(e, n) PROVE UnloadInv'
    BY <1>1 DEF AllocEvent, Idle, CallbacksRegistered, TypeOK
<1>2. ASSUME NEW e \in Events, AllocFail(e) PROVE UnloadInv'
    BY <1>2 DEF AllocFail, Idle, CallbacksRegistered, TypeOK
<1>3. ASSUME NEW f \in Files, Open(f) PROVE UnloadInv'
    BY <1>3 DEF Open, Loaded, TypeOK
<1>4. ASSUME NEW f \in Files, CleanupSwap(f) PROVE UnloadInv'
    BY <1>4 DEF CleanupSwap, Loaded, TypeOK
<1>5. ASSUME NEW f \in Files, Close(f) PROVE UnloadInv'
    BY <1>5 DEF Close, Loaded, TypeOK
<1>6. ASSUME NEW i \in Irps, NEW f \in Files, NEW n \in Sizes, DeviceControl(i, f, n)
      PROVE  UnloadInv'
    BY <1>6 DEF DeviceControl, Loaded, TypeOK
<1>7. CASE UnloadStart
    BY <1>7 DEF UnloadStart, TypeOK
<1>8. ASSUME NEW f \in Files, CleanupComplete(f) PROVE UnloadInv'
    BY <1>8 DEF CleanupComplete, TypeOK
<1>9. ASSUME NEW e \in Events, CallbackStep(e) PROVE UnloadInv'
  <2>1. CASE make_header(e)
      BY <2>1 DEF make_header, TypeOK
  <2>2. CASE SubmitAcquire(e)
      BY <2>2 DEF SubmitAcquire, TypeOK
  <2>3. CASE SubmitSwap(e)
      BY <2>3 DEF SubmitSwap, TypeOK
  <2>4. CASE SubmitDeliver(e)
      BY <2>4 DEF SubmitDeliver, TypeOK
  <2>5. CASE DeliverComplete(e)
      BY <2>5 DEF DeliverComplete, TypeOK
  <2>6. CASE SubmitTooSmall(e)
      BY <2>6 DEF SubmitTooSmall, TypeOK
  <2>7. CASE TooSmallCount(e)
      BY <2>7 DEF TooSmallCount, TypeOK
  <2>8. CASE TooSmallComplete(e)
      BY <2>8 DEF TooSmallComplete, TypeOK
  <2>9. CASE SubmitEnqueue(e)
      BY <2>9 DEF SubmitEnqueue, TypeOK
  <2> QED
      BY <1>9, <2>1, <2>2, <2>3, <2>4, <2>5, <2>6, <2>7, <2>8, <2>9 DEF CallbackStep
<1>10. ASSUME NEW i \in Irps, DispatchStep(i) PROVE UnloadInv'
  <2>1. CASE InvalidRequest(i)
      BY <2>1 DEF InvalidRequest, TypeOK
  <2>2. CASE DcAcquire(i)
      BY <2>2 DEF DcAcquire, TypeOK
  <2>3. CASE DcPop(i)
      BY <2>3 DEF DcPop, TypeOK
  <2>4. CASE FastComplete(i)
      BY <2>4 DEF FastComplete, TypeOK
  <2>5. CASE FastTooSmall(i)
      BY <2>5 DEF FastTooSmall, TypeOK
  <2>6. CASE FastTooSmallComplete(i)
      BY <2>6 DEF FastTooSmallComplete, TypeOK
  <2>7. CASE DcPark(i)
      BY <2>7 DEF DcPark, TypeOK
  <2>8. CASE MarkPending(i)
      BY <2>8 DEF MarkPending, TypeOK
  <2>9. CASE DcRefuse(i)
      BY <2>9 DEF DcRefuse, TypeOK
  <2>10. CASE RefuseComplete(i)
      BY <2>10 DEF RefuseComplete, TypeOK
  <2> QED
      BY <1>10, <2>1, <2>2, <2>3, <2>4, <2>5, <2>6, <2>7, <2>8, <2>9, <2>10 DEF
         DispatchStep
<1>11. CASE UnloadStep
  <2>1. CASE UnloadDeregister
      BY <2>1 DEF UnloadDeregister, TypeOK
  <2>2. CASE UnloadSwap
      BY <2>2 DEF UnloadSwap, TypeOK
  <2>3. CASE UnloadCancel
      BY <2>3 DEF UnloadCancel, TypeOK
  <2>4. CASE UnloadAcquire
      BY <2>4 DEF UnloadAcquire, TypeOK
  <2>5. CASE UnloadPop
      BY <2>5 DEF UnloadPop, TypeOK
  <2>6. CASE UnloadRelease
      BY <2>6 DEF UnloadRelease, TypeOK
  <2> QED
      BY <1>11, <2>1, <2>2, <2>3, <2>4, <2>5, <2>6 DEF UnloadStep
<1>12. CASE UNCHANGED vars
    BY <1>12 DEF vars, TypeOK
<1> QED
    BY <1>1, <1>2, <1>3, <1>4, <1>5, <1>6, <1>7, <1>8, <1>9, <1>10, <1>11, <1>12 DEF
       Next, Environment, Gone

----------------------------------------------------------------------------
(* Requests.  A step leaves every holder in place, moves one request to a new  *)
(* holder, or completes one request.                                           *)

\* A step that moves no request.
LEMMA IrpKept ==
  ASSUME IrpInv, UNCHANGED io,
         \A j \in Irps : ipc'[j] = "idle" <=> ipc[j] = "idle",
         \A j \in Irps, h \in Holders : Held(h, j)' <=> Held(h, j)
  PROVE  IrpInv'
BY DEF IrpInv, Holders, Threads

\* A step that moves request i to holder g.
LEMMA IrpMoved ==
  ASSUME IrpInv, UNCHANGED io,
         \A j \in Irps : ipc'[j] = "idle" <=> ipc[j] = "idle",
         NEW i \in Irps, NEW g \in Holders, io[i] = "owned",
         \A j \in Irps, h \in Holders : Held(h, j)' <=> IF j = i THEN h = g ELSE Held(h, j)
  PROVE  IrpInv'
BY DEF IrpInv, Holders, Threads

\* A step that completes request i.
LEMMA IrpCompleted ==
  ASSUME TypeOK, IrpInv, NEW i \in Irps, io[i] = "owned",
         io' = [io EXCEPT ![i] = "done"],
         \A j \in Irps : ipc'[j] = "idle" <=> ipc[j] = "idle",
         \A j \in Irps, h \in Holders : Held(h, j)' <=> j # i /\ Held(h, j)
  PROVE  IrpInv'
BY DEF IrpInv, Holders, Threads, TypeOK

\* A step that brings in request i.
LEMMA IrpEntered ==
  ASSUME TypeOK, IrpInv, NEW i \in Irps, ipc[i] = "idle",
         io' = [io EXCEPT ![i] = "owned"],
         \A j \in Irps : ipc'[j] = "idle" <=> ipc[j] = "idle" /\ j # i,
         \A j \in Irps, h \in Holders : Held(h, j)' <=> IF j = i THEN h = i ELSE Held(h, j)
  PROVE  IrpInv'
<1>1. i \in Holders
    BY DEF Holders, Threads
<1>2. \A j \in Irps : io'[j] = IF j = i THEN "owned" ELSE io[j]
    BY DEF TypeOK
<1> QED
    BY <1>1, <1>2 DEF IrpInv, Holders, Threads

\* Every step of the driver leaves every owed request with one holder.
LEMMA IrpStep == TypeOK /\ LockInv /\ LocalInv /\ IrpInv /\ UnloadInv /\ [Next]_vars => IrpInv'
<1> SUFFICES ASSUME TypeOK, LockInv, LocalInv, IrpInv, UnloadInv, [Next]_vars
             PROVE  IrpInv'
    OBVIOUS
<1> USE ThreadsAssumption DEF shared, loss, evVars, reqVars, ioVars, fileVars, unloadVars
<1>1. ASSUME NEW e \in Events, NEW n \in Sizes, AllocEvent(e, n) PROVE IrpInv'
  <2>1. \A j \in Irps, h \in Holders : Held(h, j)' <=> Held(h, j)
      BY <1>1 DEF AllocEvent, Idle, CallbacksRegistered, TypeOK, Held, DispatchHas,
         CallbackHas, CleanupHas, UnloadHas, Holders, Threads
  <2>2. UNCHANGED io /\ \A j \in Irps : ipc'[j] = "idle" <=> ipc[j] = "idle"
      BY <1>1 DEF AllocEvent, Idle, CallbacksRegistered, TypeOK
  <2> QED
      BY <2>1, <2>2, IrpKept
<1>2. ASSUME NEW e \in Events, AllocFail(e) PROVE IrpInv'
  <2>1. \A j \in Irps, h \in Holders : Held(h, j)' <=> Held(h, j)
      BY <1>2 DEF AllocFail, Idle, CallbacksRegistered, TypeOK, Held, DispatchHas,
         CallbackHas, CleanupHas, UnloadHas, Holders, Threads
  <2>2. UNCHANGED io /\ \A j \in Irps : ipc'[j] = "idle" <=> ipc[j] = "idle"
      BY <1>2 DEF AllocFail, Idle, CallbacksRegistered, TypeOK
  <2> QED
      BY <2>1, <2>2, IrpKept
<1>3. ASSUME NEW f \in Files, Open(f) PROVE IrpInv'
  <2>1. \A j \in Irps, h \in Holders : Held(h, j)' <=> Held(h, j)
      BY <1>3 DEF Open, Loaded, TypeOK, Held, DispatchHas, CallbackHas, CleanupHas,
         UnloadHas, Holders, Threads
  <2>2. UNCHANGED io /\ \A j \in Irps : ipc'[j] = "idle" <=> ipc[j] = "idle"
      BY <1>3 DEF Open, Loaded, TypeOK
  <2> QED
      BY <2>1, <2>2, IrpKept
<1>4. ASSUME NEW f \in Files, CleanupSwap(f) PROVE IrpInv'
  <2>1. UNCHANGED io /\ \A j \in Irps : ipc'[j] = "idle" <=> ipc[j] = "idle"
      BY <1>4 DEF CleanupSwap, Loaded, TypeOK
  <2>2. CASE PENDING_IRP = NULL
    <3>1. \A j \in Irps, h \in Holders : Held(h, j)' <=> Held(h, j)
        BY <1>4, <2>2 DEF CleanupSwap, Loaded, TypeOK, Held, DispatchHas, CallbackHas,
           CleanupHas, UnloadHas, Holders, Threads
    <3> QED
        BY <2>1, <3>1, IrpKept
  <2>3. CASE PENDING_IRP # NULL
    <3>1. PENDING_IRP \in Irps /\ f \in Holders
        BY <2>3 DEF TypeOK, Holders, Threads
    <3>2. io[PENDING_IRP] = "owned" /\ \A h \in Holders : Held(h, PENDING_IRP) => h = NULL
        BY <3>1 DEF IrpInv, Held, Holders
    <3>3. \A j \in Irps, h \in Holders :
            Held(h, j)' <=> IF j = PENDING_IRP THEN h = f ELSE Held(h, j)
        BY <1>4, <3>1, <3>2 DEF CleanupSwap, Loaded, TypeOK, Held, DispatchHas,
           CallbackHas, CleanupHas, UnloadHas, Holders, Threads
    <3> QED
        BY <2>1, <3>1, <3>2, <3>3, IrpMoved
  <2> QED
      BY <2>2, <2>3
<1>5. ASSUME NEW f \in Files, Close(f) PROVE IrpInv'
  <2>1. \A j \in Irps, h \in Holders : Held(h, j)' <=> Held(h, j)
      BY <1>5 DEF Close, Loaded, TypeOK, Held, DispatchHas, CallbackHas, CleanupHas,
         UnloadHas, Holders, Threads
  <2>2. UNCHANGED io /\ \A j \in Irps : ipc'[j] = "idle" <=> ipc[j] = "idle"
      BY <1>5 DEF Close, Loaded, TypeOK
  <2> QED
      BY <2>1, <2>2, IrpKept
<1>6. ASSUME NEW i \in Irps, NEW f \in Files, NEW n \in Sizes, DeviceControl(i, f, n)
      PROVE  IrpInv'
  <2>1. \A h \in Holders : ~Held(h, i)
      BY <1>6 DEF DeviceControl, IrpInv
  <2>2. \A j \in Irps, h \in Holders : Held(h, j)' <=> IF j = i THEN h = i ELSE Held(h, j)
      BY <1>6, <2>1 DEF DeviceControl, TypeOK, Held, DispatchHas, CallbackHas,
         CleanupHas, UnloadHas, Holders, Threads
  <2>3. /\ ipc[i] = "idle" /\ io' = [io EXCEPT ![i] = "owned"]
        /\ \A j \in Irps : ipc'[j] = "idle" <=> ipc[j] = "idle" /\ j # i
      BY <1>6 DEF DeviceControl, TypeOK
  <2> QED
      BY <2>2, <2>3, IrpEntered
<1>7. CASE UnloadStart
  <2>1. \A j \in Irps, h \in Holders : Held(h, j)' <=> Held(h, j)
      BY <1>7 DEF UnloadStart, TypeOK, Held, DispatchHas, CallbackHas, CleanupHas,
         UnloadHas, Holders, Threads
  <2>2. UNCHANGED io /\ \A j \in Irps : ipc'[j] = "idle" <=> ipc[j] = "idle"
      BY <1>7 DEF UnloadStart, TypeOK
  <2> QED
      BY <2>1, <2>2, IrpKept
<1>8. ASSUME NEW f \in Files, CleanupComplete(f) PROVE IrpInv'
  <2>1. \A j \in Irps : ipc'[j] = "idle" <=> ipc[j] = "idle"
      BY <1>8 DEF CleanupComplete
  <2>2. CASE ftaken[f] = NULL
    <3>1. UNCHANGED io
        BY <1>8, <2>2 DEF CleanupComplete
    <3>2. \A j \in Irps, h \in Holders : Held(h, j)' <=> Held(h, j)
        BY <1>8, <2>2 DEF CleanupComplete, TypeOK, Held, DispatchHas, CallbackHas,
           CleanupHas, UnloadHas, Holders, Threads
    <3> QED
        BY <2>1, <3>1, <3>2, IrpKept
  <2>3. CASE ftaken[f] # NULL
    <3>1. ftaken[f] \in Irps
        BY <2>3 DEF TypeOK
    <3>2. io[ftaken[f]] = "owned"
        BY <1>8, <3>1 DEF CleanupComplete, IrpInv, Held, DispatchHas, CallbackHas,
           CleanupHas, UnloadHas, Holders, Threads
    <3>3. io' = [io EXCEPT ![ftaken[f]] = "done"]
        BY <1>8, <2>3, <3>1, <3>2 DEF CleanupComplete, complete_irp, TypeOK
    <3>4. \A j \in Irps, h \in Holders : Held(h, j)' <=> j # ftaken[f] /\ Held(h, j)
        BY <1>8, <3>1 DEF CleanupComplete, IrpInv, TypeOK, Held, DispatchHas,
           CallbackHas, CleanupHas, UnloadHas, Holders, Threads
    <3> QED
        BY <2>1, <3>1, <3>2, <3>3, <3>4, IrpCompleted
  <2> QED
      BY <2>2, <2>3
<1>9. ASSUME NEW e \in Events, CallbackStep(e) PROVE IrpInv'
  <2>1. CASE make_header(e)
    <3>1. \A j \in Irps, h \in Holders : Held(h, j)' <=> Held(h, j)
        BY <2>1 DEF make_header, TypeOK, Held, DispatchHas, CallbackHas, CleanupHas,
           UnloadHas, Holders, Threads
    <3>2. UNCHANGED io /\ \A j \in Irps : ipc'[j] = "idle" <=> ipc[j] = "idle"
        BY <2>1 DEF make_header, TypeOK
    <3> QED
        BY <3>1, <3>2, IrpKept
  <2>2. CASE SubmitAcquire(e)
    <3>1. \A j \in Irps, h \in Holders : Held(h, j)' <=> Held(h, j)
        BY <2>2 DEF SubmitAcquire, TypeOK, Held, DispatchHas, CallbackHas, CleanupHas,
           UnloadHas, Holders, Threads
    <3>2. UNCHANGED io /\ \A j \in Irps : ipc'[j] = "idle" <=> ipc[j] = "idle"
        BY <2>2 DEF SubmitAcquire, TypeOK
    <3> QED
        BY <3>1, <3>2, IrpKept
  <2>3. CASE SubmitSwap(e)
    <3>1. UNCHANGED io /\ \A j \in Irps : ipc'[j] = "idle" <=> ipc[j] = "idle"
        BY <2>3 DEF SubmitSwap, TypeOK
    <3>2. CASE PENDING_IRP = NULL
      <4>1. \A j \in Irps, h \in Holders : Held(h, j)' <=> Held(h, j)
          BY <2>3, <3>2 DEF SubmitSwap, TypeOK, Held, DispatchHas, CallbackHas,
             CleanupHas, UnloadHas, Holders, Threads
      <4> QED
          BY <3>1, <4>1, IrpKept
    <3>3. CASE PENDING_IRP # NULL
      <4>1. PENDING_IRP \in Irps /\ e \in Holders
          BY <3>3 DEF TypeOK, Holders, Threads
      <4>2. /\ io[PENDING_IRP] = "owned"
            /\ \A h \in Holders : Held(h, PENDING_IRP) => h = NULL
          BY <4>1 DEF IrpInv, Held, Holders
      <4>3. \A j \in Irps, h \in Holders :
              Held(h, j)' <=> IF j = PENDING_IRP THEN h = e ELSE Held(h, j)
          BY <2>3, <4>1, <4>2 DEF SubmitSwap, TypeOK, Held, DispatchHas, CallbackHas,
             CleanupHas, UnloadHas, Holders, Threads
      <4> QED
          BY <3>1, <4>1, <4>2, <4>3, IrpMoved
    <3> QED
        BY <3>2, <3>3
  <2>4. CASE SubmitDeliver(e)
    <3>1. \A j \in Irps, h \in Holders : Held(h, j)' <=> Held(h, j)
        BY <2>4 DEF SubmitDeliver, TypeOK, Held, DispatchHas, CallbackHas, CleanupHas,
           UnloadHas, Holders, Threads
    <3>2. UNCHANGED io /\ \A j \in Irps : ipc'[j] = "idle" <=> ipc[j] = "idle"
        BY <2>4 DEF SubmitDeliver, TypeOK
    <3> QED
        BY <3>1, <3>2, IrpKept
  <2>5. CASE DeliverComplete(e)
    <3>1. taken[e] \in Irps /\ io[taken[e]] = "owned"
        BY <2>5 DEF DeliverComplete, CallbackHas, IrpInv, LocalInv, TypeOK, Held,
           DispatchHas, CallbackHas, CleanupHas, UnloadHas, Holders, Threads
    <3>2. \A j \in Irps, h \in Holders : Held(h, j)' <=> j # taken[e] /\ Held(h, j)
        BY <2>5, <3>1 DEF DeliverComplete, IrpInv, LocalInv, TypeOK, Held,
           DispatchHas, CallbackHas, CleanupHas, UnloadHas, Holders, Threads
    <3>3. /\ io' = [io EXCEPT ![taken[e]] = "done"]
          /\ \A j \in Irps : ipc'[j] = "idle" <=> ipc[j] = "idle"
        BY <2>5, <3>1 DEF DeliverComplete, complete_irp, TypeOK
    <3> QED
        BY <3>1, <3>2, <3>3, IrpCompleted
  <2>6. CASE SubmitTooSmall(e)
    <3>1. \A j \in Irps, h \in Holders : Held(h, j)' <=> Held(h, j)
        BY <2>6 DEF SubmitTooSmall, TypeOK, Held, DispatchHas, CallbackHas,
           CleanupHas, UnloadHas, Holders, Threads
    <3>2. UNCHANGED io /\ \A j \in Irps : ipc'[j] = "idle" <=> ipc[j] = "idle"
        BY <2>6 DEF SubmitTooSmall, TypeOK
    <3> QED
        BY <3>1, <3>2, IrpKept
  <2>7. CASE TooSmallCount(e)
    <3>1. \A j \in Irps, h \in Holders : Held(h, j)' <=> Held(h, j)
        BY <2>7 DEF TooSmallCount, TypeOK, Held, DispatchHas, CallbackHas, CleanupHas,
           UnloadHas, Holders, Threads
    <3>2. UNCHANGED io /\ \A j \in Irps : ipc'[j] = "idle" <=> ipc[j] = "idle"
        BY <2>7 DEF TooSmallCount, TypeOK
    <3> QED
        BY <3>1, <3>2, IrpKept
  <2>8. CASE TooSmallComplete(e)
    <3>1. taken[e] \in Irps /\ io[taken[e]] = "owned"
        BY <2>8 DEF TooSmallComplete, CallbackHas, IrpInv, LocalInv, TypeOK, Held,
           DispatchHas, CallbackHas, CleanupHas, UnloadHas, Holders, Threads
    <3>2. \A j \in Irps, h \in Holders : Held(h, j)' <=> j # taken[e] /\ Held(h, j)
        BY <2>8, <3>1 DEF TooSmallComplete, IrpInv, LocalInv, TypeOK, Held,
           DispatchHas, CallbackHas, CleanupHas, UnloadHas, Holders, Threads
    <3>3. /\ io' = [io EXCEPT ![taken[e]] = "done"]
          /\ \A j \in Irps : ipc'[j] = "idle" <=> ipc[j] = "idle"
        BY <2>8, <3>1 DEF TooSmallComplete, complete_irp, TypeOK
    <3> QED
        BY <3>1, <3>2, <3>3, IrpCompleted
  <2>9. CASE SubmitEnqueue(e)
    <3>1. \A j \in Irps, h \in Holders : Held(h, j)' <=> Held(h, j)
        BY <2>9 DEF SubmitEnqueue, TypeOK, Held, DispatchHas, CallbackHas, CleanupHas,
           UnloadHas, Holders, Threads
    <3>2. UNCHANGED io /\ \A j \in Irps : ipc'[j] = "idle" <=> ipc[j] = "idle"
        BY <2>9 DEF SubmitEnqueue, TypeOK
    <3> QED
        BY <3>1, <3>2, IrpKept
  <2> QED
      BY <1>9, <2>1, <2>2, <2>3, <2>4, <2>5, <2>6, <2>7, <2>8, <2>9 DEF CallbackStep
<1>10. ASSUME NEW i \in Irps, DispatchStep(i) PROVE IrpInv'
  <2>1. CASE InvalidRequest(i)
    <3>1. i \in Irps /\ io[i] = "owned"
        BY <2>1 DEF InvalidRequest, DispatchHas, IrpInv, LocalInv, TypeOK, Held,
           DispatchHas, CallbackHas, CleanupHas, UnloadHas, Holders, Threads
    <3>2. \A j \in Irps, h \in Holders : Held(h, j)' <=> j # i /\ Held(h, j)
        BY <2>1, <3>1 DEF InvalidRequest, IrpInv, LocalInv, TypeOK, Held, DispatchHas,
           CallbackHas, CleanupHas, UnloadHas, Holders, Threads
    <3>3. /\ io' = [io EXCEPT ![i] = "done"]
          /\ \A j \in Irps : ipc'[j] = "idle" <=> ipc[j] = "idle"
        BY <2>1, <3>1 DEF InvalidRequest, complete_irp, TypeOK
    <3> QED
        BY <3>1, <3>2, <3>3, IrpCompleted
  <2>2. CASE DcAcquire(i)
    <3>1. \A j \in Irps, h \in Holders : Held(h, j)' <=> Held(h, j)
        BY <2>2 DEF DcAcquire, TypeOK, Held, DispatchHas, CallbackHas, CleanupHas,
           UnloadHas, Holders, Threads
    <3>2. UNCHANGED io /\ \A j \in Irps : ipc'[j] = "idle" <=> ipc[j] = "idle"
        BY <2>2 DEF DcAcquire, TypeOK
    <3> QED
        BY <3>1, <3>2, IrpKept
  <2>3. CASE DcPop(i)
    <3>1. \A j \in Irps, h \in Holders : Held(h, j)' <=> Held(h, j)
        BY <2>3 DEF DcPop, TypeOK, Held, DispatchHas, CallbackHas, CleanupHas,
           UnloadHas, Holders, Threads
    <3>2. UNCHANGED io /\ \A j \in Irps : ipc'[j] = "idle" <=> ipc[j] = "idle"
        BY <2>3 DEF DcPop, TypeOK
    <3> QED
        BY <3>1, <3>2, IrpKept
  <2>4. CASE FastComplete(i)
    <3>1. i \in Irps /\ io[i] = "owned"
        BY <2>4 DEF FastComplete, DispatchHas, IrpInv, LocalInv, TypeOK, Held,
           DispatchHas, CallbackHas, CleanupHas, UnloadHas, Holders, Threads
    <3>2. \A j \in Irps, h \in Holders : Held(h, j)' <=> j # i /\ Held(h, j)
        BY <2>4, <3>1 DEF FastComplete, IrpInv, LocalInv, TypeOK, Held, DispatchHas,
           CallbackHas, CleanupHas, UnloadHas, Holders, Threads
    <3>3. /\ io' = [io EXCEPT ![i] = "done"]
          /\ \A j \in Irps : ipc'[j] = "idle" <=> ipc[j] = "idle"
        BY <2>4, <3>1 DEF FastComplete, complete_irp, TypeOK
    <3> QED
        BY <3>1, <3>2, <3>3, IrpCompleted
  <2>5. CASE FastTooSmall(i)
    <3>1. \A j \in Irps, h \in Holders : Held(h, j)' <=> Held(h, j)
        BY <2>5 DEF FastTooSmall, TypeOK, Held, DispatchHas, CallbackHas, CleanupHas,
           UnloadHas, Holders, Threads
    <3>2. UNCHANGED io /\ \A j \in Irps : ipc'[j] = "idle" <=> ipc[j] = "idle"
        BY <2>5 DEF FastTooSmall, TypeOK
    <3> QED
        BY <3>1, <3>2, IrpKept
  <2>6. CASE FastTooSmallComplete(i)
    <3>1. i \in Irps /\ io[i] = "owned"
        BY <2>6 DEF FastTooSmallComplete, DispatchHas, IrpInv, LocalInv, TypeOK, Held,
           DispatchHas, CallbackHas, CleanupHas, UnloadHas, Holders, Threads
    <3>2. \A j \in Irps, h \in Holders : Held(h, j)' <=> j # i /\ Held(h, j)
        BY <2>6, <3>1 DEF FastTooSmallComplete, IrpInv, LocalInv, TypeOK, Held,
           DispatchHas, CallbackHas, CleanupHas, UnloadHas, Holders, Threads
    <3>3. /\ io' = [io EXCEPT ![i] = "done"]
          /\ \A j \in Irps : ipc'[j] = "idle" <=> ipc[j] = "idle"
        BY <2>6, <3>1 DEF FastTooSmallComplete, complete_irp, TypeOK
    <3> QED
        BY <3>1, <3>2, <3>3, IrpCompleted
  <2>7. CASE DcPark(i)
    <3>1. io[i] = "owned" /\ NULL \in Holders
        BY <2>7 DEF DcPark, IrpInv, Held, DispatchHas, CallbackHas, CleanupHas,
           UnloadHas, Holders, Threads
    <3>2. \A j \in Irps, h \in Holders :
            Held(h, j)' <=> IF j = i THEN h = NULL ELSE Held(h, j)
        BY <2>7 DEF DcPark, IrpInv, TypeOK, Held, DispatchHas, CallbackHas,
           CleanupHas, UnloadHas, Holders, Threads
    <3>3. UNCHANGED io /\ \A j \in Irps : ipc'[j] = "idle" <=> ipc[j] = "idle"
        BY <2>7 DEF DcPark, TypeOK
    <3> QED
        BY <3>1, <3>2, <3>3, IrpMoved
  <2>8. CASE MarkPending(i)
    <3>1. \A j \in Irps, h \in Holders : Held(h, j)' <=> Held(h, j)
        BY <2>8 DEF MarkPending, TypeOK, Held, DispatchHas, CallbackHas, CleanupHas,
           UnloadHas, Holders, Threads
    <3>2. UNCHANGED io /\ \A j \in Irps : ipc'[j] = "idle" <=> ipc[j] = "idle"
        BY <2>8 DEF MarkPending, TypeOK
    <3> QED
        BY <3>1, <3>2, IrpKept
  <2>9. CASE DcRefuse(i)
    <3>1. \A j \in Irps, h \in Holders : Held(h, j)' <=> Held(h, j)
        BY <2>9 DEF DcRefuse, TypeOK, Held, DispatchHas, CallbackHas, CleanupHas,
           UnloadHas, Holders, Threads
    <3>2. UNCHANGED io /\ \A j \in Irps : ipc'[j] = "idle" <=> ipc[j] = "idle"
        BY <2>9 DEF DcRefuse, TypeOK
    <3> QED
        BY <3>1, <3>2, IrpKept
  <2>10. CASE RefuseComplete(i)
    <3>1. i \in Irps /\ io[i] = "owned"
        BY <2>10 DEF RefuseComplete, DispatchHas, IrpInv, LocalInv, TypeOK, Held,
           DispatchHas, CallbackHas, CleanupHas, UnloadHas, Holders, Threads
    <3>2. \A j \in Irps, h \in Holders : Held(h, j)' <=> j # i /\ Held(h, j)
        BY <2>10, <3>1 DEF RefuseComplete, IrpInv, LocalInv, TypeOK, Held,
           DispatchHas, CallbackHas, CleanupHas, UnloadHas, Holders, Threads
    <3>3. /\ io' = [io EXCEPT ![i] = "done"]
          /\ \A j \in Irps : ipc'[j] = "idle" <=> ipc[j] = "idle"
        BY <2>10, <3>1 DEF RefuseComplete, complete_irp, TypeOK
    <3> QED
        BY <3>1, <3>2, <3>3, IrpCompleted
  <2> QED
      BY <1>10, <2>1, <2>2, <2>3, <2>4, <2>5, <2>6, <2>7, <2>8, <2>9, <2>10 DEF
         DispatchStep
<1>11. CASE UnloadStep
  <2>1. CASE UnloadDeregister
    <3>1. \A j \in Irps, h \in Holders : Held(h, j)' <=> Held(h, j)
        BY <2>1 DEF UnloadDeregister, TypeOK, Held, DispatchHas, CallbackHas,
           CleanupHas, UnloadHas, Holders, Threads
    <3>2. UNCHANGED io /\ \A j \in Irps : ipc'[j] = "idle" <=> ipc[j] = "idle"
        BY <2>1 DEF UnloadDeregister, TypeOK
    <3> QED
        BY <3>1, <3>2, IrpKept
  <2>2. CASE UnloadSwap
    <3>1. UNCHANGED io /\ \A j \in Irps : ipc'[j] = "idle" <=> ipc[j] = "idle"
        BY <2>2 DEF UnloadSwap, TypeOK
    <3>2. CASE PENDING_IRP = NULL
      <4>1. \A j \in Irps, h \in Holders : Held(h, j)' <=> Held(h, j)
          BY <2>2, <3>2 DEF UnloadSwap, TypeOK, Held, DispatchHas, CallbackHas,
             CleanupHas, UnloadHas, Holders, Threads
      <4> QED
          BY <3>1, <4>1, IrpKept
    <3>3. CASE PENDING_IRP # NULL
      <4>1. PENDING_IRP \in Irps /\ UNLOAD \in Holders
          BY <3>3 DEF TypeOK, Holders, Threads
      <4>2. /\ io[PENDING_IRP] = "owned"
            /\ \A h \in Holders : Held(h, PENDING_IRP) => h = NULL
          BY <4>1 DEF IrpInv, Held, Holders
      <4>3. \A j \in Irps, h \in Holders :
              Held(h, j)' <=> IF j = PENDING_IRP THEN h = UNLOAD ELSE Held(h, j)
          BY <2>2, <4>1, <4>2 DEF UnloadSwap, TypeOK, Held, DispatchHas, CallbackHas,
             CleanupHas, UnloadHas, Holders, Threads
      <4> QED
          BY <3>1, <4>1, <4>2, <4>3, IrpMoved
    <3> QED
        BY <3>2, <3>3
  <2>3. CASE UnloadCancel
    <3>1. \A j \in Irps : ipc'[j] = "idle" <=> ipc[j] = "idle"
        BY <2>3 DEF UnloadCancel
    <3>2. CASE utaken = NULL
      <4>1. UNCHANGED io
          BY <2>3, <3>2 DEF UnloadCancel
      <4>2. \A j \in Irps, h \in Holders : Held(h, j)' <=> Held(h, j)
          BY <2>3, <3>2 DEF UnloadCancel, TypeOK, Held, DispatchHas, CallbackHas,
             CleanupHas, UnloadHas, Holders, Threads
      <4> QED
          BY <3>1, <4>1, <4>2, IrpKept
    <3>3. CASE utaken # NULL
      <4>1. utaken \in Irps
          BY <3>3 DEF TypeOK
      <4>2. io[utaken] = "owned"
          BY <2>3, <4>1 DEF UnloadCancel, IrpInv, Held, DispatchHas, CallbackHas,
             CleanupHas, UnloadHas, Holders, Threads
      <4>3. io' = [io EXCEPT ![utaken] = "done"]
          BY <2>3, <3>3, <4>1, <4>2 DEF UnloadCancel, complete_irp, TypeOK
      <4>4. \A j \in Irps, h \in Holders : Held(h, j)' <=> j # utaken /\ Held(h, j)
          BY <2>3, <4>1 DEF UnloadCancel, IrpInv, TypeOK, Held, DispatchHas,
             CallbackHas, CleanupHas, UnloadHas, Holders, Threads
      <4> QED
          BY <3>1, <4>1, <4>2, <4>3, <4>4, IrpCompleted
    <3> QED
        BY <3>2, <3>3
  <2>4. CASE UnloadAcquire
    <3>1. \A j \in Irps, h \in Holders : Held(h, j)' <=> Held(h, j)
        BY <2>4 DEF UnloadAcquire, TypeOK, Held, DispatchHas, CallbackHas, CleanupHas,
           UnloadHas, Holders, Threads
    <3>2. UNCHANGED io /\ \A j \in Irps : ipc'[j] = "idle" <=> ipc[j] = "idle"
        BY <2>4 DEF UnloadAcquire, TypeOK
    <3> QED
        BY <3>1, <3>2, IrpKept
  <2>5. CASE UnloadPop
    <3>1. \A j \in Irps, h \in Holders : Held(h, j)' <=> Held(h, j)
        BY <2>5 DEF UnloadPop, TypeOK, Held, DispatchHas, CallbackHas, CleanupHas,
           UnloadHas, Holders, Threads
    <3>2. UNCHANGED io /\ \A j \in Irps : ipc'[j] = "idle" <=> ipc[j] = "idle"
        BY <2>5 DEF UnloadPop, TypeOK
    <3> QED
        BY <3>1, <3>2, IrpKept
  <2>6. CASE UnloadRelease
    <3>1. \A j \in Irps, h \in Holders : Held(h, j)' <=> Held(h, j)
        BY <2>6 DEF UnloadRelease, TypeOK, Held, DispatchHas, CallbackHas, CleanupHas,
           UnloadHas, Holders, Threads
    <3>2. UNCHANGED io /\ \A j \in Irps : ipc'[j] = "idle" <=> ipc[j] = "idle"
        BY <2>6 DEF UnloadRelease, TypeOK
    <3> QED
        BY <3>1, <3>2, IrpKept
  <2> QED
      BY <1>11, <2>1, <2>2, <2>3, <2>4, <2>5, <2>6 DEF UnloadStep
<1>12. CASE UNCHANGED vars
    BY <1>12 DEF vars, IrpInv, Held, DispatchHas, CallbackHas, CleanupHas, UnloadHas,
       Holders, Threads
<1> QED
    BY <1>1, <1>2, <1>3, <1>4, <1>5, <1>6, <1>7, <1>8, <1>9, <1>10, <1>11, <1>12 DEF
       Next, Environment, Gone

----------------------------------------------------------------------------
(* Buffers.  A step leaves every owner in place, moves one buffer to a new     *)
(* owner, or frees one buffer.                                                 *)

\* Event e has no buffer yet, or never got one.
Unborn(e) == epc[e] \in {"idle", "oom"}

\* A step that moves no buffer.
LEMMA BufferKept ==
  ASSUME BufferInv, UNCHANGED <<pool, queue>>,
         \A d \in Events : Unborn(d)' <=> Unborn(d),
         \A d \in Events, h \in Owners : Owned(h, d)' <=> Owned(h, d)
  PROVE  BufferInv'
BY DEF BufferInv, Owners, Threads, Unborn, Distinct

\* A step that moves the buffer of event e to owner g.
LEMMA BufferMoved ==
  ASSUME BufferInv, UNCHANGED pool, Distinct(queue'),
         \A d \in Events : Unborn(d)' <=> Unborn(d),
         NEW e \in Events, NEW g \in Owners, pool[e] = "live",
         \A d \in Events, h \in Owners : Owned(h, d)' <=> IF d = e THEN h = g ELSE Owned(h, d)
  PROVE  BufferInv'
BY DEF BufferInv, Owners, Threads, Unborn

\* A step that frees the buffer of event e.
LEMMA BufferFreed ==
  ASSUME TypeOK, BufferInv, Distinct(queue'),
         \A d \in Events : Unborn(d)' <=> Unborn(d),
         NEW e \in Events, pool[e] = "live", pool' = Freed(pool, e),
         \A d \in Events, h \in Owners : Owned(h, d)' <=> d # e /\ Owned(h, d)
  PROVE  BufferInv'
<1>1. \A d \in Events : pool'[d] = IF d = e THEN "freed" ELSE pool[d]
    BY DEF TypeOK, Freed
<1> QED
    BY <1>1 DEF BufferInv, Owners, Threads, Unborn

\* The push on a full queue: o is evicted and freed, e is queued.
LEMMA BufferReplaced ==
  ASSUME TypeOK, BufferInv, Distinct(queue'),
         \A d \in Events : Unborn(d)' <=> Unborn(d),
         NEW e \in Events, NEW o \in Events, e # o, pool[e] = "live", pool[o] = "live",
         pool' = Freed(pool, o),
         \A d \in Events, h \in Owners :
           Owned(h, d)' <=> IF d = e THEN h = NULL ELSE d # o /\ Owned(h, d)
  PROVE  BufferInv'
<1>1. \A d \in Events : pool'[d] = IF d = o THEN "freed" ELSE pool[d]
    BY DEF TypeOK, Freed
<1>2. NULL \in Owners
    BY DEF Owners
<1> QED
    BY <1>1, <1>2 DEF BufferInv, Owners, Threads, Unborn

\* A step that allocates the buffer of event e.
LEMMA BufferAllocated ==
  ASSUME TypeOK, BufferInv, UNCHANGED queue,
         NEW e \in Events, pool[e] = "none", pool' = [pool EXCEPT ![e] = "live"],
         \A d \in Events : Unborn(d)' <=> d # e /\ Unborn(d),
         \A d \in Events, h \in Owners : Owned(h, d)' <=> IF d = e THEN h = e ELSE Owned(h, d)
  PROVE  BufferInv'
<1>1. \A d \in Events : pool'[d] = IF d = e THEN "live" ELSE pool[d]
    BY DEF TypeOK
<1>2. e \in Owners
    BY DEF Owners, Threads
<1> QED
    BY <1>1, <1>2 DEF BufferInv, Owners, Threads, Unborn, Distinct

\* Every step of the driver leaves every allocated buffer with one owner.
LEMMA BufferStep == TypeOK /\ LockInv /\ LocalInv /\ BufferInv /\ [Next]_vars => BufferInv'
<1> SUFFICES ASSUME TypeOK, LockInv, LocalInv, BufferInv, [Next]_vars PROVE BufferInv'
    OBVIOUS
<1> USE ThreadsAssumption DEF shared, loss, evVars, reqVars, ioVars, fileVars, unloadVars
<1>1. ASSUME NEW e \in Events, NEW n \in Sizes, AllocEvent(e, n) PROVE BufferInv'
  <2>1. pool[e] = "none" /\ UNCHANGED queue /\ pool' = [pool EXCEPT ![e] = "live"]
      BY <1>1 DEF AllocEvent, Idle, BufferInv
  <2>2. \A d \in Events : Unborn(d)' <=> d # e /\ Unborn(d)
      BY <1>1 DEF AllocEvent, Unborn, TypeOK
  <2>3. \A h \in Owners : ~Owned(h, e)
      BY <2>1 DEF BufferInv
  <2>4. \A d \in Events, h \in Owners :
          Owned(h, d)' <=> IF d = e THEN h = e ELSE Owned(h, d)
      BY <1>1, <2>1, <2>3 DEF AllocEvent, TypeOK, Owned, CallbackOwns, RequestOwns,
         Owners, Threads
  <2> QED
      BY <2>1, <2>2, <2>4, BufferAllocated
<1>2. ASSUME NEW e \in Events, AllocFail(e) PROVE BufferInv'
  <2>1. UNCHANGED <<pool, queue>> /\ \A d \in Events : Unborn(d)' <=> Unborn(d)
      BY <1>2 DEF AllocFail, Idle, CallbacksRegistered, Unborn, TypeOK
  <2>2. \A d \in Events, h \in Owners : Owned(h, d)' <=> Owned(h, d)
      BY <1>2, <2>1 DEF AllocFail, Idle, CallbacksRegistered, TypeOK, Owned,
         CallbackOwns, RequestOwns, Owners, Threads
  <2> QED
      BY <2>1, <2>2, BufferKept
<1>3. ASSUME NEW f \in Files, Open(f) PROVE BufferInv'
  <2>1. UNCHANGED <<pool, queue>> /\ \A d \in Events : Unborn(d)' <=> Unborn(d)
      BY <1>3 DEF Open, Loaded, Unborn, TypeOK
  <2>2. \A d \in Events, h \in Owners : Owned(h, d)' <=> Owned(h, d)
      BY <1>3, <2>1 DEF Open, Loaded, TypeOK, Owned, CallbackOwns, RequestOwns,
         Owners, Threads
  <2> QED
      BY <2>1, <2>2, BufferKept
<1>4. ASSUME NEW f \in Files, CleanupSwap(f) PROVE BufferInv'
  <2>1. UNCHANGED <<pool, queue>> /\ \A d \in Events : Unborn(d)' <=> Unborn(d)
      BY <1>4 DEF CleanupSwap, Loaded, Unborn, TypeOK
  <2>2. \A d \in Events, h \in Owners : Owned(h, d)' <=> Owned(h, d)
      BY <1>4, <2>1 DEF CleanupSwap, Loaded, TypeOK, Owned, CallbackOwns, RequestOwns,
         Owners, Threads
  <2> QED
      BY <2>1, <2>2, BufferKept
<1>5. ASSUME NEW f \in Files, Close(f) PROVE BufferInv'
  <2>1. UNCHANGED <<pool, queue>> /\ \A d \in Events : Unborn(d)' <=> Unborn(d)
      BY <1>5 DEF Close, Loaded, Unborn, TypeOK
  <2>2. \A d \in Events, h \in Owners : Owned(h, d)' <=> Owned(h, d)
      BY <1>5, <2>1 DEF Close, Loaded, TypeOK, Owned, CallbackOwns, RequestOwns,
         Owners, Threads
  <2> QED
      BY <2>1, <2>2, BufferKept
<1>6. ASSUME NEW i \in Irps, NEW f \in Files, NEW n \in Sizes, DeviceControl(i, f, n)
      PROVE  BufferInv'
  <2>1. UNCHANGED <<pool, queue>> /\ \A d \in Events : Unborn(d)' <=> Unborn(d)
      BY <1>6 DEF DeviceControl, Loaded, Unborn, TypeOK
  <2>2. \A d \in Events, h \in Owners : Owned(h, d)' <=> Owned(h, d)
      BY <1>6, <2>1 DEF DeviceControl, Loaded, TypeOK, Owned, CallbackOwns,
         RequestOwns, Owners, Threads
  <2> QED
      BY <2>1, <2>2, BufferKept
<1>7. CASE UnloadStart
  <2>1. UNCHANGED <<pool, queue>> /\ \A d \in Events : Unborn(d)' <=> Unborn(d)
      BY <1>7 DEF UnloadStart, Unborn, TypeOK
  <2>2. \A d \in Events, h \in Owners : Owned(h, d)' <=> Owned(h, d)
      BY <1>7, <2>1 DEF UnloadStart, TypeOK, Owned, CallbackOwns, RequestOwns, Owners,
         Threads
  <2> QED
      BY <2>1, <2>2, BufferKept
<1>8. ASSUME NEW f \in Files, CleanupComplete(f) PROVE BufferInv'
  <2>1. UNCHANGED <<pool, queue>> /\ \A d \in Events : Unborn(d)' <=> Unborn(d)
      BY <1>8 DEF CleanupComplete, Unborn, TypeOK
  <2>2. \A d \in Events, h \in Owners : Owned(h, d)' <=> Owned(h, d)
      BY <1>8, <2>1 DEF CleanupComplete, TypeOK, Owned, CallbackOwns, RequestOwns,
         Owners, Threads
  <2> QED
      BY <2>1, <2>2, BufferKept
<1>9. ASSUME NEW e \in Events, CallbackStep(e) PROVE BufferInv'
  <2>1. CASE make_header(e)
    <3>1. UNCHANGED <<pool, queue>> /\ \A d \in Events : Unborn(d)' <=> Unborn(d)
        BY <2>1 DEF make_header, Unborn, TypeOK
    <3>2. \A d \in Events, h \in Owners : Owned(h, d)' <=> Owned(h, d)
        BY <2>1, <3>1 DEF make_header, TypeOK, Owned, CallbackOwns, RequestOwns,
           Owners, Threads
    <3> QED
        BY <3>1, <3>2, BufferKept
  <2>2. CASE SubmitAcquire(e)
    <3>1. UNCHANGED <<pool, queue>> /\ \A d \in Events : Unborn(d)' <=> Unborn(d)
        BY <2>2 DEF SubmitAcquire, Unborn, TypeOK
    <3>2. \A d \in Events, h \in Owners : Owned(h, d)' <=> Owned(h, d)
        BY <2>2, <3>1 DEF SubmitAcquire, TypeOK, Owned, CallbackOwns, RequestOwns,
           Owners, Threads
    <3> QED
        BY <3>1, <3>2, BufferKept
  <2>3. CASE SubmitSwap(e)
    <3>1. UNCHANGED <<pool, queue>> /\ \A d \in Events : Unborn(d)' <=> Unborn(d)
        BY <2>3 DEF SubmitSwap, Unborn, TypeOK
    <3>2. \A d \in Events, h \in Owners : Owned(h, d)' <=> Owned(h, d)
        BY <2>3, <3>1 DEF SubmitSwap, TypeOK, Owned, CallbackOwns, RequestOwns,
           Owners, Threads
    <3> QED
        BY <3>1, <3>2, BufferKept
  <2>4. CASE SubmitDeliver(e)
    <3>1. UNCHANGED <<pool, queue>> /\ \A d \in Events : Unborn(d)' <=> Unborn(d)
        BY <2>4 DEF SubmitDeliver, Unborn, TypeOK
    <3>2. \A d \in Events, h \in Owners : Owned(h, d)' <=> Owned(h, d)
        BY <2>4, <3>1 DEF SubmitDeliver, TypeOK, Owned, CallbackOwns, RequestOwns,
           Owners, Threads
    <3> QED
        BY <3>1, <3>2, BufferKept
  <2>5. CASE DeliverComplete(e)
    <3>1. e \in Events /\ pool[e] = "live"
        BY <2>5 DEF DeliverComplete, LocalInv, BufferInv, TypeOK, Owned, CallbackOwns,
           RequestOwns, Owners, Threads
    <3>2. /\ Distinct(queue') /\ pool' = Freed(pool, e)
          /\ \A d \in Events : Unborn(d)' <=> Unborn(d)
        BY <2>5 DEF DeliverComplete, BufferInv, Unborn, TypeOK, Distinct
    <3>3. \A d \in Events, h \in Owners : Owned(h, d)' <=> d # e /\ Owned(h, d)
        BY <2>5, <3>1 DEF DeliverComplete, BufferInv, TypeOK, Owned, CallbackOwns,
           RequestOwns, Owners, Threads, Elements
    <3> QED
        BY <3>1, <3>2, <3>3, BufferFreed
  <2>6. CASE SubmitTooSmall(e)
    <3>1. e \in Events /\ pool[e] = "live"
        BY <2>6 DEF SubmitTooSmall, LocalInv, BufferInv, TypeOK, Owned, CallbackOwns,
           RequestOwns, Owners, Threads
    <3>2. /\ Distinct(queue') /\ pool' = Freed(pool, e)
          /\ \A d \in Events : Unborn(d)' <=> Unborn(d)
        BY <2>6 DEF SubmitTooSmall, BufferInv, Unborn, TypeOK, Distinct
    <3>3. \A d \in Events, h \in Owners : Owned(h, d)' <=> d # e /\ Owned(h, d)
        BY <2>6, <3>1 DEF SubmitTooSmall, BufferInv, TypeOK, Owned, CallbackOwns,
           RequestOwns, Owners, Threads, Elements
    <3> QED
        BY <3>1, <3>2, <3>3, BufferFreed
  <2>7. CASE TooSmallCount(e)
    <3>1. UNCHANGED <<pool, queue>> /\ \A d \in Events : Unborn(d)' <=> Unborn(d)
        BY <2>7 DEF TooSmallCount, Unborn, TypeOK
    <3>2. \A d \in Events, h \in Owners : Owned(h, d)' <=> Owned(h, d)
        BY <2>7, <3>1 DEF TooSmallCount, TypeOK, Owned, CallbackOwns, RequestOwns,
           Owners, Threads
    <3> QED
        BY <3>1, <3>2, BufferKept
  <2>8. CASE TooSmallComplete(e)
    <3>1. UNCHANGED <<pool, queue>> /\ \A d \in Events : Unborn(d)' <=> Unborn(d)
        BY <2>8 DEF TooSmallComplete, Unborn, TypeOK
    <3>2. \A d \in Events, h \in Owners : Owned(h, d)' <=> Owned(h, d)
        BY <2>8, <3>1 DEF TooSmallComplete, TypeOK, Owned, CallbackOwns, RequestOwns,
           Owners, Threads
    <3> QED
        BY <3>1, <3>2, BufferKept
  <2>9. CASE SubmitEnqueue(e)
    <3>1. pool[e] = "live" /\ e \in Owners /\ e \notin Elements(queue) /\ NULL \in Owners
        BY <2>9 DEF SubmitEnqueue, BufferInv, TypeOK, Owned, CallbackOwns,
           RequestOwns, Owners, Threads
    <3>2. \A d \in Events : Unborn(d)' <=> Unborn(d)
        BY <2>9 DEF SubmitEnqueue, Unborn, TypeOK
    <3>3. \A h \in Owners : Owned(h, e) => h = e
        BY <3>1, <2>9 DEF SubmitEnqueue, BufferInv, Owned, CallbackOwns, RequestOwns,
           Owners, Threads
    <3>4. CASE Len(queue) # QUEUE_CAP
      <4>1. UNCHANGED pool /\ queue' = Append(queue, e)
          BY <2>9, <3>4 DEF SubmitEnqueue
      <4>2. Distinct(queue') /\ Elements(queue') = Elements(queue) \cup {e}
          BY <3>1, <4>1, AppendElements DEF BufferInv, TypeOK
      <4>3. \A d \in Events, h \in Owners :
              Owned(h, d)' <=> IF d = e THEN h = NULL ELSE Owned(h, d)
          BY <2>9, <3>1, <3>3, <4>2 DEF SubmitEnqueue, TypeOK, Owned, CallbackOwns,
             RequestOwns, Owners, Threads
      <4> QED
          BY <3>1, <3>2, <4>1, <4>2, <4>3, BufferMoved
    <3>5. CASE Len(queue) = QUEUE_CAP
      <4>1. queue # << >> /\ queue' = Append(Tail(queue), e) /\ pool' = Freed(pool, Head(queue))
          BY <2>9, <3>5, CapAssumption DEF SubmitEnqueue, TypeOK
      <4>2. Head(queue) \in Events /\ pool[Head(queue)] = "live" /\ e # Head(queue)
          BY <3>1, <4>1, HeadElement DEF BufferInv, TypeOK, Owned, CallbackOwns,
             RequestOwns, Owners, Threads
      <4>3. /\ Tail(queue) \in Seq(Events)
            /\ Elements(Tail(queue)) = Elements(queue) \ {Head(queue)}
            /\ Distinct(Tail(queue))
          BY <4>1, TailElements DEF BufferInv, TypeOK
      <4>4. Distinct(queue') /\ Elements(queue') = (Elements(queue) \ {Head(queue)}) \cup {e}
          BY <3>1, <4>1, <4>3, AppendElements
      <4>5. \A d \in Events, h \in Owners :
              Owned(h, d)' <=> IF d = e THEN h = NULL ELSE d # Head(queue) /\ Owned(h, d)
          BY <2>9, <3>1, <3>3, <4>1, <4>2, <4>4, HeadElement DEF SubmitEnqueue,
             BufferInv, TypeOK, Owned, CallbackOwns, RequestOwns, Owners, Threads
      <4> QED
          BY <3>1, <3>2, <4>1, <4>2, <4>4, <4>5, BufferReplaced
    <3> QED
        BY <3>4, <3>5
  <2> QED
      BY <1>9, <2>1, <2>2, <2>3, <2>4, <2>5, <2>6, <2>7, <2>8, <2>9 DEF CallbackStep
<1>10. ASSUME NEW i \in Irps, DispatchStep(i) PROVE BufferInv'
  <2>1. CASE InvalidRequest(i)
    <3>1. UNCHANGED <<pool, queue>> /\ \A d \in Events : Unborn(d)' <=> Unborn(d)
        BY <2>1 DEF InvalidRequest, Unborn, TypeOK
    <3>2. \A d \in Events, h \in Owners : Owned(h, d)' <=> Owned(h, d)
        BY <2>1, <3>1 DEF InvalidRequest, TypeOK, Owned, CallbackOwns, RequestOwns,
           Owners, Threads
    <3> QED
        BY <3>1, <3>2, BufferKept
  <2>2. CASE DcAcquire(i)
    <3>1. UNCHANGED <<pool, queue>> /\ \A d \in Events : Unborn(d)' <=> Unborn(d)
        BY <2>2 DEF DcAcquire, Unborn, TypeOK
    <3>2. \A d \in Events, h \in Owners : Owned(h, d)' <=> Owned(h, d)
        BY <2>2, <3>1 DEF DcAcquire, TypeOK, Owned, CallbackOwns, RequestOwns, Owners,
           Threads
    <3> QED
        BY <3>1, <3>2, BufferKept
  <2>3. CASE DcPop(i)
    <3>1. Head(queue) \in Events /\ i \in Owners /\ pool[Head(queue)] = "live"
        BY <2>3, HeadElement DEF DcPop, BufferInv, TypeOK, Owned, CallbackOwns,
           RequestOwns, Owners, Threads
    <3>2. Distinct(queue') /\ UNCHANGED pool /\ \A d \in Events : Unborn(d)' <=> Unborn(d)
        BY <2>3, TailElements DEF DcPop, BufferInv, Unborn, TypeOK
    <3>3. \A h \in Owners : Owned(h, Head(queue)) => h = NULL
        BY <2>3, <3>1, HeadElement DEF DcPop, BufferInv, TypeOK, Owned, CallbackOwns,
           RequestOwns, Owners, Threads
    <3>4. \A d \in Events, h \in Owners :
            Owned(h, d)' <=> IF d = Head(queue) THEN h = i ELSE Owned(h, d)
        BY <2>3, <3>1, <3>3, TailElements DEF DcPop, BufferInv, TypeOK, Owned,
           CallbackOwns, RequestOwns, Owners, Threads
    <3> QED
        BY <3>1, <3>2, <3>4, BufferMoved
  <2>4. CASE FastComplete(i)
    <3>1. slot[i] \in Events /\ pool[slot[i]] = "live"
        BY <2>4 DEF FastComplete, LocalInv, BufferInv, TypeOK, Owned, CallbackOwns,
           RequestOwns, Owners, Threads
    <3>2. /\ Distinct(queue') /\ pool' = Freed(pool, slot[i])
          /\ \A d \in Events : Unborn(d)' <=> Unborn(d)
        BY <2>4 DEF FastComplete, BufferInv, Unborn, TypeOK, Distinct
    <3>3. \A d \in Events, h \in Owners : Owned(h, d)' <=> d # slot[i] /\ Owned(h, d)
        BY <2>4, <3>1 DEF FastComplete, BufferInv, TypeOK, Owned, CallbackOwns,
           RequestOwns, Owners, Threads, Elements
    <3> QED
        BY <3>1, <3>2, <3>3, BufferFreed
  <2>5. CASE FastTooSmall(i)
    <3>1. slot[i] \in Events /\ pool[slot[i]] = "live"
        BY <2>5 DEF FastTooSmall, LocalInv, BufferInv, TypeOK, Owned, CallbackOwns,
           RequestOwns, Owners, Threads
    <3>2. /\ Distinct(queue') /\ pool' = Freed(pool, slot[i])
          /\ \A d \in Events : Unborn(d)' <=> Unborn(d)
        BY <2>5 DEF FastTooSmall, BufferInv, Unborn, TypeOK, Distinct
    <3>3. \A d \in Events, h \in Owners : Owned(h, d)' <=> d # slot[i] /\ Owned(h, d)
        BY <2>5, <3>1 DEF FastTooSmall, BufferInv, TypeOK, Owned, CallbackOwns,
           RequestOwns, Owners, Threads, Elements
    <3> QED
        BY <3>1, <3>2, <3>3, BufferFreed
  <2>6. CASE FastTooSmallComplete(i)
    <3>1. UNCHANGED <<pool, queue>> /\ \A d \in Events : Unborn(d)' <=> Unborn(d)
        BY <2>6 DEF FastTooSmallComplete, Unborn, TypeOK
    <3>2. \A d \in Events, h \in Owners : Owned(h, d)' <=> Owned(h, d)
        BY <2>6, <3>1 DEF FastTooSmallComplete, TypeOK, Owned, CallbackOwns,
           RequestOwns, Owners, Threads
    <3> QED
        BY <3>1, <3>2, BufferKept
  <2>7. CASE DcPark(i)
    <3>1. UNCHANGED <<pool, queue>> /\ \A d \in Events : Unborn(d)' <=> Unborn(d)
        BY <2>7 DEF DcPark, Unborn, TypeOK
    <3>2. \A d \in Events, h \in Owners : Owned(h, d)' <=> Owned(h, d)
        BY <2>7, <3>1 DEF DcPark, TypeOK, Owned, CallbackOwns, RequestOwns, Owners,
           Threads
    <3> QED
        BY <3>1, <3>2, BufferKept
  <2>8. CASE MarkPending(i)
    <3>1. UNCHANGED <<pool, queue>> /\ \A d \in Events : Unborn(d)' <=> Unborn(d)
        BY <2>8 DEF MarkPending, Unborn, TypeOK
    <3>2. \A d \in Events, h \in Owners : Owned(h, d)' <=> Owned(h, d)
        BY <2>8, <3>1 DEF MarkPending, TypeOK, Owned, CallbackOwns, RequestOwns,
           Owners, Threads
    <3> QED
        BY <3>1, <3>2, BufferKept
  <2>9. CASE DcRefuse(i)
    <3>1. UNCHANGED <<pool, queue>> /\ \A d \in Events : Unborn(d)' <=> Unborn(d)
        BY <2>9 DEF DcRefuse, Unborn, TypeOK
    <3>2. \A d \in Events, h \in Owners : Owned(h, d)' <=> Owned(h, d)
        BY <2>9, <3>1 DEF DcRefuse, TypeOK, Owned, CallbackOwns, RequestOwns, Owners,
           Threads
    <3> QED
        BY <3>1, <3>2, BufferKept
  <2>10. CASE RefuseComplete(i)
    <3>1. UNCHANGED <<pool, queue>> /\ \A d \in Events : Unborn(d)' <=> Unborn(d)
        BY <2>10 DEF RefuseComplete, Unborn, TypeOK
    <3>2. \A d \in Events, h \in Owners : Owned(h, d)' <=> Owned(h, d)
        BY <2>10, <3>1 DEF RefuseComplete, TypeOK, Owned, CallbackOwns, RequestOwns,
           Owners, Threads
    <3> QED
        BY <3>1, <3>2, BufferKept
  <2> QED
      BY <1>10, <2>1, <2>2, <2>3, <2>4, <2>5, <2>6, <2>7, <2>8, <2>9, <2>10 DEF
         DispatchStep
<1>11. CASE UnloadStep
  <2>1. CASE UnloadDeregister
    <3>1. UNCHANGED <<pool, queue>> /\ \A d \in Events : Unborn(d)' <=> Unborn(d)
        BY <2>1 DEF UnloadDeregister, Unborn, TypeOK
    <3>2. \A d \in Events, h \in Owners : Owned(h, d)' <=> Owned(h, d)
        BY <2>1, <3>1 DEF UnloadDeregister, TypeOK, Owned, CallbackOwns, RequestOwns,
           Owners, Threads
    <3> QED
        BY <3>1, <3>2, BufferKept
  <2>2. CASE UnloadSwap
    <3>1. UNCHANGED <<pool, queue>> /\ \A d \in Events : Unborn(d)' <=> Unborn(d)
        BY <2>2 DEF UnloadSwap, Unborn, TypeOK
    <3>2. \A d \in Events, h \in Owners : Owned(h, d)' <=> Owned(h, d)
        BY <2>2, <3>1 DEF UnloadSwap, TypeOK, Owned, CallbackOwns, RequestOwns,
           Owners, Threads
    <3> QED
        BY <3>1, <3>2, BufferKept
  <2>3. CASE UnloadCancel
    <3>1. UNCHANGED <<pool, queue>> /\ \A d \in Events : Unborn(d)' <=> Unborn(d)
        BY <2>3 DEF UnloadCancel, Unborn, TypeOK
    <3>2. \A d \in Events, h \in Owners : Owned(h, d)' <=> Owned(h, d)
        BY <2>3, <3>1 DEF UnloadCancel, TypeOK, Owned, CallbackOwns, RequestOwns,
           Owners, Threads
    <3> QED
        BY <3>1, <3>2, BufferKept
  <2>4. CASE UnloadAcquire
    <3>1. UNCHANGED <<pool, queue>> /\ \A d \in Events : Unborn(d)' <=> Unborn(d)
        BY <2>4 DEF UnloadAcquire, Unborn, TypeOK
    <3>2. \A d \in Events, h \in Owners : Owned(h, d)' <=> Owned(h, d)
        BY <2>4, <3>1 DEF UnloadAcquire, TypeOK, Owned, CallbackOwns, RequestOwns,
           Owners, Threads
    <3> QED
        BY <3>1, <3>2, BufferKept
  <2>5. CASE UnloadPop
    <3>1. Head(queue) \in Events /\ Head(queue) \in Elements(queue) /\ pool[Head(queue)] = "live"
        BY <2>5, HeadElement DEF UnloadPop, BufferInv, TypeOK, Owned, CallbackOwns,
           RequestOwns, Owners, Threads
    <3>2. Distinct(queue') /\ Elements(queue') = Elements(queue) \ {Head(queue)}
        BY <2>5, TailElements DEF UnloadPop, BufferInv, TypeOK
    <3>3. pool' = Freed(pool, Head(queue)) /\ \A d \in Events : Unborn(d)' <=> Unborn(d)
        BY <2>5 DEF UnloadPop, Unborn
    <3>4. \A h \in Owners : Owned(h, Head(queue)) => h = NULL
        BY <3>1 DEF BufferInv, Owned, CallbackOwns, RequestOwns, Owners, Threads
    <3>5. \A d \in Events, h \in Owners : Owned(h, d)' <=> d # Head(queue) /\ Owned(h, d)
        BY <2>5, <3>2, <3>4 DEF UnloadPop, Owned, CallbackOwns, RequestOwns, Owners,
           Threads
    <3> QED
        BY <3>1, <3>2, <3>3, <3>5, BufferFreed
  <2>6. CASE UnloadRelease
    <3>1. UNCHANGED <<pool, queue>> /\ \A d \in Events : Unborn(d)' <=> Unborn(d)
        BY <2>6 DEF UnloadRelease, Unborn, TypeOK
    <3>2. \A d \in Events, h \in Owners : Owned(h, d)' <=> Owned(h, d)
        BY <2>6, <3>1 DEF UnloadRelease, TypeOK, Owned, CallbackOwns, RequestOwns,
           Owners, Threads
    <3> QED
        BY <3>1, <3>2, BufferKept
  <2> QED
      BY <1>11, <2>1, <2>2, <2>3, <2>4, <2>5, <2>6 DEF UnloadStep
<1>12. CASE UNCHANGED vars
    BY <1>12 DEF vars, BufferInv, Distinct, Elements, Owned, CallbackOwns,
       RequestOwns, Owners, Threads
<1> QED
    BY <1>1, <1>2, <1>3, <1>4, <1>5, <1>6, <1>7, <1>8, <1>9, <1>10, <1>11, <1>12 DEF
       Next, Environment, Gone

----------------------------------------------------------------------------
(* What a thread knows of the request and of the buffer it works on. *)

\* Event sizes are natural numbers.
LEMMA SizeNat == TypeOK => \A e \in Events : size[e] \in Nat
<1> SUFFICES ASSUME TypeOK, NEW e \in Events PROVE size[e] \in Nat
    OBVIOUS
<1>1. size[e] \in Sizes \cup {0}
    BY DEF TypeOK
<1>2. \A n \in Sizes : n \in Nat
    BY SizesAssumption
<1> QED
    BY <1>1, <1>2

\* A callback past its swap still has the request it took.
LEMMA CallbackIrp ==
  ASSUME TypeOK, LocalInv, IrpInv, NEW e \in Events,
         epc[e] \in {"delivering", "dropping", "failing"}
  PROVE  taken[e] \in Irps /\ io[taken[e]] = "owned"
BY DEF TypeOK, LocalInv, IrpInv, Held, CallbackHas, Holders, Threads

\* A dispatch routine that has not parked its request still has it.
LEMMA DispatchIrp ==
  ASSUME IrpInv, NEW i \in Irps, DispatchHas(i) PROVE io[i] = "owned"
BY DEF IrpInv, Held, Holders, Threads

\* dispatch_cleanup still has the request it took.
LEMMA CleanupIrp ==
  ASSUME TypeOK, IrpInv, NEW f \in Files, fpc[f] = "cleanup", ftaken[f] # NULL
  PROVE  ftaken[f] \in Irps /\ io[ftaken[f]] = "owned"
BY DEF TypeOK, IrpInv, Held, CleanupHas, Holders, Threads

\* driver_unload still has the request it took.
LEMMA UnloadIrp ==
  ASSUME TypeOK, IrpInv, upc = "cancelling", utaken # NULL
  PROVE  utaken \in Irps /\ io[utaken] = "owned"
BY DEF TypeOK, IrpInv, Held, UnloadHas, Holders, Threads

\* A callback's own buffer is allocated.
LEMMA CallbackBuffer ==
  ASSUME BufferInv, NEW e \in Events, CallbackOwns(e) PROVE pool[e] = "live"
BY DEF BufferInv, Owned, Owners, Threads

\* The event a request popped is still allocated.
LEMMA RequestBuffer ==
  ASSUME TypeOK, LocalInv, BufferInv, NEW i \in Irps, ipc[i] = "popped"
  PROVE  slot[i] \in Events /\ pool[slot[i]] = "live"
BY DEF TypeOK, LocalInv, BufferInv, Owned, RequestOwns, Owners, Threads

\* The oldest queued event is still allocated.
LEMMA QueueBuffer ==
  ASSUME TypeOK, BufferInv, queue # << >>
  PROVE  Head(queue) \in Events /\ pool[Head(queue)] = "live"
BY HeadElement DEF TypeOK, BufferInv, Owned, Owners

\* The part of the type invariant that complete_irp touches.
IoTypeOK ==
  /\ io \in [Irps -> {"agent", "owned", "done"}]
  /\ status \in [Irps -> {"none", "SUCCESS", "BUFFER_TOO_SMALL", "UNSUCCESSFUL",
                          "CANCELLED", "INVALID_DEVICE_REQUEST"}]
  /\ info \in [Irps -> Nat]

\* complete_irp keeps the types when the driver still owes the request.
LEMMA CompleteType ==
  ASSUME TypeOK, NEW i \in Irps, io[i] = "owned", NEW n \in Nat,
         NEW st \in {"SUCCESS", "BUFFER_TOO_SMALL", "UNSUCCESSFUL", "CANCELLED",
                     "INVALID_DEVICE_REQUEST"},
         complete_irp(i, st, n)
  PROVE  IoTypeOK'
BY DEF TypeOK, IoTypeOK, complete_irp

\* ExFreePool keeps the type of the pool when the buffer is allocated.
LEMMA FreedType ==
  ASSUME TypeOK, NEW e \in Events, pool[e] = "live"
  PROVE  Freed(pool, e) \in [Events -> {"none", "live", "freed"}]
BY DEF TypeOK, Freed

\* Every step keeps the type invariant: no double free, no double completion.
LEMMA TypeStep == TypeOK /\ LocalInv /\ IrpInv /\ BufferInv /\ [Next]_vars => TypeOK'
<1> SUFFICES ASSUME TypeOK, LocalInv, IrpInv, BufferInv, [Next]_vars PROVE TypeOK'
    OBVIOUS
<1> USE DEF shared, loss, evVars, reqVars, ioVars, fileVars, unloadVars
<1>1. ASSUME NEW e \in Events, NEW n \in Sizes, AllocEvent(e, n) PROVE TypeOK'
    BY <1>1 DEF AllocEvent, Idle, CallbacksRegistered, TypeOK, Threads
<1>2. ASSUME NEW e \in Events, AllocFail(e) PROVE TypeOK'
    BY <1>2 DEF AllocFail, Idle, CallbacksRegistered, CountLoss, TypeOK, Threads
<1>3. ASSUME NEW f \in Files, Open(f) PROVE TypeOK'
    BY <1>3 DEF Open, Loaded, TypeOK, Threads
<1>4. ASSUME NEW f \in Files, CleanupSwap(f) PROVE TypeOK'
    BY <1>4 DEF CleanupSwap, Loaded, TypeOK, Threads
<1>5. ASSUME NEW f \in Files, Close(f) PROVE TypeOK'
    BY <1>5 DEF Close, Loaded, TypeOK, Threads
<1>6. ASSUME NEW i \in Irps, NEW f \in Files, NEW n \in Sizes, DeviceControl(i, f, n)
      PROVE  TypeOK'
    BY <1>6 DEF DeviceControl, Loaded, TypeOK, Threads
<1>7. CASE UnloadStart
    BY <1>7 DEF UnloadStart, TypeOK, Threads
<1>8. ASSUME NEW f \in Files, CleanupComplete(f) PROVE TypeOK'
  <2>1. ftaken[f] = NULL => IoTypeOK'
      BY <1>8 DEF CleanupComplete, TypeOK, IoTypeOK
  <2>2. ftaken[f] # NULL => IoTypeOK'
      BY <1>8, CleanupIrp, CompleteType DEF CleanupComplete
  <2> QED
      BY <1>8, <2>1, <2>2 DEF CleanupComplete, TypeOK, Threads, IoTypeOK
<1>9. ASSUME NEW e \in Events, CallbackStep(e) PROVE TypeOK'
  <2>1. CASE make_header(e)
      BY <2>1 DEF make_header, TypeOK, Threads
  <2>2. CASE SubmitAcquire(e)
      BY <2>2 DEF SubmitAcquire, TypeOK, Threads
  <2>3. CASE SubmitSwap(e)
      BY <2>3 DEF SubmitSwap, TypeOK, Threads
  <2>4. CASE SubmitDeliver(e)
      BY <2>4 DEF SubmitDeliver, TypeOK, Threads
  <2>5. CASE DeliverComplete(e)
    <3>1. taken[e] \in Irps /\ io[taken[e]] = "owned"
        BY <2>5, CallbackIrp DEF DeliverComplete
    <3>2. IoTypeOK'
        BY <2>5, <3>1, SizeNat, CompleteType DEF DeliverComplete
    <3>3. pool' \in [Events -> {"none", "live", "freed"}]
        BY <2>5, CallbackBuffer, FreedType DEF DeliverComplete, CallbackOwns
    <3> QED
        BY <2>5, <3>1, <3>2, <3>3 DEF DeliverComplete, TypeOK, Threads, IoTypeOK
  <2>6. CASE SubmitTooSmall(e)
    <3>1. pool' \in [Events -> {"none", "live", "freed"}]
        BY <2>6, CallbackBuffer, FreedType DEF SubmitTooSmall, CallbackOwns
    <3> QED
        BY <2>6, <3>1 DEF SubmitTooSmall, TypeOK, Threads, IoTypeOK
  <2>7. CASE TooSmallCount(e)
      BY <2>7 DEF TooSmallCount, CountLoss, TypeOK, Threads
  <2>8. CASE TooSmallComplete(e)
    <3>1. taken[e] \in Irps /\ io[taken[e]] = "owned"
        BY <2>8, CallbackIrp DEF TooSmallComplete
    <3>2. IoTypeOK'
        BY <2>8, <3>1, SizeNat, CompleteType DEF TooSmallComplete
    <3> QED
        BY <2>8, <3>1, <3>2 DEF TooSmallComplete, TypeOK, Threads, IoTypeOK
  <2>9. CASE SubmitEnqueue(e)
    <3>1. Len(queue) = QUEUE_CAP => queue # << >>
        BY CapAssumption DEF TypeOK
    <3>2. pool' \in [Events -> {"none", "live", "freed"}]
        BY <2>9, <3>1, QueueBuffer, FreedType DEF SubmitEnqueue, TypeOK
    <3>3. DROP_COUNT' \in Nat /\ gap' \in SUBSET Events
        BY <2>9, <3>1, QueueBuffer DEF SubmitEnqueue, CountLoss, TypeOK
    <3>4. queue \in Seq(Events) /\ (queue # << >> => Tail(queue) \in Seq(Events))
        BY DEF TypeOK
    <3>5. queue' = Append(queue, e) \/ (queue # << >> /\ queue' = Append(Tail(queue), e))
        BY <2>9, <3>1 DEF SubmitEnqueue
    <3>6. queue' \in Seq(Events)
        BY <3>4, <3>5, AppendProperties
    <3> QED
        BY <2>9, <3>1, <3>2, <3>3, <3>4, <3>5, <3>6 DEF SubmitEnqueue, TypeOK,
           Threads, IoTypeOK
  <2> QED
      BY <1>9, <2>1, <2>2, <2>3, <2>4, <2>5, <2>6, <2>7, <2>8, <2>9 DEF CallbackStep
<1>10. ASSUME NEW i \in Irps, DispatchStep(i) PROVE TypeOK'
  <2>1. CASE InvalidRequest(i)
    <3>1. IoTypeOK'
        BY <2>1, DispatchIrp, CompleteType DEF InvalidRequest, DispatchHas
    <3> QED
        BY <2>1, <3>1 DEF InvalidRequest, TypeOK, Threads, IoTypeOK
  <2>2. CASE DcAcquire(i)
      BY <2>2 DEF DcAcquire, TypeOK, Threads
  <2>3. CASE DcPop(i)
      BY <2>3 DEF DcPop, TypeOK, Threads
  <2>4. CASE FastComplete(i)
    <3>1. slot[i] \in Events /\ pool[slot[i]] = "live"
        BY <2>4, RequestBuffer DEF FastComplete
    <3>2. IoTypeOK'
        BY <2>4, <3>1, DispatchIrp, SizeNat, CompleteType DEF FastComplete, DispatchHas
    <3>3. pool' \in [Events -> {"none", "live", "freed"}]
        BY <2>4, <3>1, FreedType DEF FastComplete
    <3> QED
        BY <2>4, <3>1, <3>2, <3>3 DEF FastComplete, TypeOK, Threads, IoTypeOK
  <2>5. CASE FastTooSmall(i)
    <3>1. slot[i] \in Events /\ pool[slot[i]] = "live"
        BY <2>5, RequestBuffer DEF FastTooSmall
    <3>2. pool' \in [Events -> {"none", "live", "freed"}]
        BY <2>5, <3>1, FreedType DEF FastTooSmall
    <3> QED
        BY <2>5, <3>1, <3>2 DEF FastTooSmall, CountLoss, TypeOK, Threads, IoTypeOK
  <2>6. CASE FastTooSmallComplete(i)
    <3>1. slot[i] \in Events
        BY <2>6 DEF FastTooSmallComplete, LocalInv, TypeOK
    <3>2. IoTypeOK'
        BY <2>6, <3>1, DispatchIrp, SizeNat, CompleteType DEF FastTooSmallComplete,
           DispatchHas
    <3> QED
        BY <2>6, <3>1, <3>2 DEF FastTooSmallComplete, TypeOK, Threads, IoTypeOK
  <2>7. CASE DcPark(i)
      BY <2>7 DEF DcPark, TypeOK, Threads
  <2>8. CASE MarkPending(i)
      BY <2>8 DEF MarkPending, TypeOK, Threads
  <2>9. CASE DcRefuse(i)
      BY <2>9 DEF DcRefuse, TypeOK, Threads
  <2>10. CASE RefuseComplete(i)
    <3>1. IoTypeOK'
        BY <2>10, DispatchIrp, CompleteType DEF RefuseComplete, DispatchHas
    <3> QED
        BY <2>10, <3>1 DEF RefuseComplete, TypeOK, Threads, IoTypeOK
  <2> QED
      BY <1>10, <2>1, <2>2, <2>3, <2>4, <2>5, <2>6, <2>7, <2>8, <2>9, <2>10 DEF
         DispatchStep
<1>11. CASE UnloadStep
  <2>1. CASE UnloadDeregister
      BY <2>1 DEF UnloadDeregister, TypeOK, Threads
  <2>2. CASE UnloadSwap
      BY <2>2 DEF UnloadSwap, TypeOK, Threads
  <2>3. CASE UnloadCancel
    <3>1. utaken = NULL => IoTypeOK'
        BY <2>3 DEF UnloadCancel, TypeOK, IoTypeOK
    <3>2. utaken # NULL => IoTypeOK'
        BY <2>3, UnloadIrp, CompleteType DEF UnloadCancel
    <3> QED
        BY <2>3, <3>1, <3>2 DEF UnloadCancel, TypeOK, Threads, IoTypeOK
  <2>4. CASE UnloadAcquire
      BY <2>4 DEF UnloadAcquire, TypeOK, Threads
  <2>5. CASE UnloadPop
    <3>1. pool' \in [Events -> {"none", "live", "freed"}]
        BY <2>5, QueueBuffer, FreedType DEF UnloadPop
    <3>2. queue' \in Seq(Events)
        BY <2>5 DEF UnloadPop, TypeOK
    <3> QED
        BY <2>5, <3>1, <3>2 DEF UnloadPop, TypeOK, Threads, IoTypeOK
  <2>6. CASE UnloadRelease
      BY <2>6 DEF UnloadRelease, TypeOK, Threads
  <2> QED
      BY <1>11, <2>1, <2>2, <2>3, <2>4, <2>5, <2>6 DEF UnloadStep
<1>12. CASE UNCHANGED vars
    BY <1>12 DEF vars, TypeOK, Threads
<1> QED
    BY <1>1, <1>2, <1>3, <1>4, <1>5, <1>6, <1>7, <1>8, <1>9, <1>10, <1>11, <1>12 DEF
       Next, Environment, Gone

----------------------------------------------------------------------------
(* The theorems. *)

\* The state after driver_entry satisfies the invariant.
LEMMA InitInv == Init => IndInv
<1> SUFFICES ASSUME Init PROVE IndInv
    OBVIOUS
<1> USE ThreadsAssumption
<1>1. TypeOK
    BY DEF Init, TypeOK
<1>2. LockInv /\ WakeupInv /\ LocalInv /\ UnloadInv
    BY DEF Init, LockInv, WakeupInv, NoLostWakeup, LocalInv, UnloadInv
<1>3. IrpInv
    BY DEF Init, IrpInv, Held, DispatchHas, CallbackHas, CleanupHas, UnloadHas
<1>4. BufferInv
    BY DEF Init, BufferInv, Distinct, Elements, Owned, CallbackOwns, RequestOwns
<1> QED
    BY <1>1, <1>2, <1>3, <1>4 DEF IndInv

\* The inductive invariant holds in every reachable state.
LEMMA Inductive == Spec => []IndInv
<1>1. IndInv /\ [Next]_vars => IndInv'
    BY TypeStep, LockStep, WakeupStep, LocalStep, IrpStep, BufferStep, UnloadInvStep
    DEF IndInv
<1> QED
    BY <1>1, InitInv, PTL DEF Spec

\* A step of a callback, of dispatch_device_control, of dispatch_cleanup or of
\* driver_unload never completes a request or frees a buffer it does not have, and
\* leaves every variable with its type, however many threads race.
THEOREM TypeCorrect == Spec => []TypeOK
BY Inductive, PTL DEF IndInv

\* No wake-up is lost between submit_event and dispatch_device_control.
THEOREM NoWakeupIsLost == Spec => []NoLostWakeup
BY Inductive, PTL DEF IndInv, WakeupInv

\* Held says who is in IrpHolders.
LEMMA HoldersAre ==
  ASSUME NEW i \in Irps
  PROVE  /\ IrpHolders(i) \subseteq Holders
         /\ \A h \in Holders : h \in IrpHolders(i) <=> Held(h, i)
BY ThreadsAssumption DEF IrpHolders, Held, Holders, Threads

\* Every request the driver owes has exactly one thread that will complete it.
THEOREM RequestsHaveOneHolder == Spec => []OneIrpHolder
<1>1. IrpInv => OneIrpHolder
  <2> SUFFICES ASSUME IrpInv, NEW i \in Irps
               PROVE  IF io[i] = "owned" THEN \E h \in Holders : IrpHolders(i) = {h}
                                         ELSE IrpHolders(i) = {}
      BY DEF OneIrpHolder, Holders
  <2>1. CASE io[i] = "owned"
    <3>1. PICK h \in Holders : Held(h, i)
        BY <2>1 DEF IrpInv
    <3>2. IrpHolders(i) = {h}
        BY <3>1, HoldersAre DEF IrpInv
    <3> QED
        BY <2>1, <3>2
  <2>2. CASE io[i] # "owned"
      BY <2>2, HoldersAre DEF IrpInv
  <2> QED
      BY <2>1, <2>2
<1> QED
    BY <1>1, Inductive, PTL DEF IndInv

\* Every allocated event buffer has exactly one owner that will free it.
THEOREM BuffersHaveOneHolder == Spec => []OneBufferHolder
<1>1. TypeOK /\ BufferInv => OneBufferHolder
  <2> SUFFICES ASSUME TypeOK, BufferInv, NEW e \in Events
               PROVE  IF pool[e] = "live"
                      THEN \E h \in Threads \cup DOMAIN queue : BufferHolders(e) = {h}
                      ELSE BufferHolders(e) = {}
      BY DEF OneBufferHolder
  <2> USE ThreadsAssumption
  <2>1. /\ CallbackOwns(e) <=> Owned(e, e)
        /\ (\E k \in DOMAIN queue : queue[k] = e) <=> Owned(NULL, e)
        /\ \A i \in Irps : RequestOwns(i, e) <=> Owned(i, e)
      BY DEF Owned, Elements
  <2>2. e \in Owners /\ NULL \in Owners /\ Irps \subseteq Owners
      BY DEF Owners, Threads
  <2>3. CASE pool[e] # "live"
      BY <2>1, <2>2, <2>3 DEF BufferInv, BufferHolders
  <2>4. CASE pool[e] = "live"
    <3>1. PICK h \in Owners : Owned(h, e)
        BY <2>4 DEF BufferInv
    <3>2. \A g \in Owners : Owned(g, e) => g = h
        BY <3>1 DEF BufferInv
    <3>3. CASE h = NULL
      <4>1. PICK k \in DOMAIN queue : queue[k] = e
          BY <2>1, <3>1, <3>3
      <4>2. \A j \in DOMAIN queue : queue[j] = e => j = k
          BY <4>1 DEF BufferInv, Distinct
      <4>3. ~CallbackOwns(e) /\ \A i \in Irps : ~RequestOwns(i, e)
          BY <2>1, <2>2, <3>2, <3>3
      <4>4. BufferHolders(e) = {k}
          BY <4>1, <4>2, <4>3 DEF BufferHolders
      <4> QED
          BY <2>4, <4>4
    <3>4. CASE h # NULL
      <4>1. \A k \in DOMAIN queue : queue[k] # e
          BY <2>1, <2>2, <3>2, <3>4
      <4>2. (h = e /\ CallbackOwns(e)) \/ (h \in Irps /\ RequestOwns(h, e))
          BY <3>1, <3>4 DEF Owned
      <4>3. \A i \in Irps : RequestOwns(i, e) => i = h
          BY <2>1, <2>2, <3>2
      <4>4. CallbackOwns(e) => e = h
          BY <2>1, <2>2, <3>2
      <4>5. BufferHolders(e) = {h}
          BY <4>1, <4>2, <4>3, <4>4 DEF BufferHolders
      <4> QED
          BY <2>4, <4>2, <4>5 DEF Threads
    <3> QED
        BY <3>3, <3>4
  <2> QED
      BY <2>3, <2>4
<1> QED
    BY <1>1, Inductive, PTL DEF IndInv

\* driver_unload leaves no request, event, buffer or lock behind.
THEOREM UnloadLeavesNothing == Spec => []NothingLeftBehind
<1>1. IndInv => NothingLeftBehind
  <2> SUFFICES ASSUME IndInv, upc = "unloaded"
               PROVE  /\ PENDING_IRP = NULL /\ queue = << >> /\ lock = NULL
                      /\ \A i \in Irps : io[i] # "owned"
                      /\ \A e \in Events : pool[e] # "live"
      BY DEF NothingLeftBehind
  <2>1. PENDING_IRP = NULL /\ queue = << >>
      BY DEF IndInv, UnloadInv
  <2>2. /\ \A i \in Irps : ipc[i] \in {"idle", "returned"}
        /\ \A f \in Files : fpc[f] # "cleanup"
        /\ \A e \in Events : epc[e] \in {"idle", "returned", "oom"}
      BY DEF IndInv, UnloadInv, Idle, Returned
  <2>3. lock = NULL
      BY <2>2 DEF IndInv, LockInv, TypeOK, Threads
  <2>4. \A i \in Irps, h \in Holders : ~Held(h, i)
      BY <2>1, <2>2, ThreadsAssumption DEF Held, DispatchHas, CallbackHas, CleanupHas, UnloadHas
  <2>5. \A e \in Events, h \in Owners : ~Owned(h, e)
      BY <2>1, <2>2 DEF Owned, CallbackOwns, RequestOwns, Elements
  <2> QED
      BY <2>1, <2>3, <2>4, <2>5 DEF IndInv, IrpInv, BufferInv
<1> QED
    BY <1>1, Inductive, PTL
=============================================================================
