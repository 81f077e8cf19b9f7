----------------------------- MODULE LossProofs -----------------------------
(***************************************************************************)
(* What becomes of an event, and what a request is told: proofs about      *)
(* module InvertedCall, on top of the owners of module InvertedCallProofs. *)
(* An event that is not owned by anybody any more was copied into one      *)
(* SystemBuffer, is counted as lost by one counter, or was drained.        *)
(***************************************************************************)
EXTENDS InvertedCallProofs, FiniteSetTheorems

----------------------------------------------------------------------------
(* The inductive invariant. *)

\* DROP_COUNT and the headers count disjoint sets; a callback that has no header
\* yet reports nothing.
HeaderInv ==
  /\ DROP_COUNT = Cardinality(gap)
  /\ \A e \in Events : drop_count[e] = Cardinality(covers[e])
  /\ \A e \in Events : gap \cap covers[e] = {}
  /\ \A d, e \in Events : d # e => covers[d] \cap covers[e] = {}
  /\ \A e \in Events : epc[e] \in {"idle", "allocated"} => covers[e] = {}

\* A callback that drops its event has freed it; the loss is counted next.
LostInv ==
  /\ \A e \in Reported : epc[e] \in {"oom", "failing", "returned"} /\ pool[e] # "live"
  /\ \A e \in Events : epc[e] \in {"oom", "failing"} => e \in Reported
  /\ \A e \in Events : epc[e] \in {"dropping", "failing"} => pool[e] = "freed"

\* The event in the SystemBuffer of request i was copied there by its callback,
\* which will complete the request, or the request is completed.
Copied(i, e) ==
  /\ Fits(e, i)
  /\ \/ epc[e] = "delivering" /\ taken[e] = i
     \/ /\ epc[e] = "returned" /\ pool[e] = "freed"
        /\ io[i] = "done" /\ status[i] = "SUCCESS" /\ info[i] = size[e]

\* An event is copied into one buffer, and then it is not lost.
CopyInv ==
  /\ \A i \in Irps : sysbuf[i] # NULL => Copied(i, sysbuf[i])
  /\ \A i, j \in Irps : sysbuf[i] # NULL /\ sysbuf[i] = sysbuf[j] => i = j
  /\ \A e \in Events : epc[e] = "delivering" => sysbuf[taken[e]] = e
  /\ \A i \in Irps : sysbuf[i] # NULL => sysbuf[i] \notin Reported

\* What the status says.
StatusInv ==
  /\ \A e \in Events : epc[e] \in {"dropping", "failing"} => ~Fits(e, taken[e])
  /\ \A i \in Irps : ipc[i] = "failing" => /\ slot[i] \in Events /\ epc[slot[i]] = "returned"
                                           /\ ~Fits(slot[i], i)
  /\ \A i \in Irps : io[i] = "done" =>
       /\ status[i] = "SUCCESS" => sysbuf[i] # NULL
       /\ status[i] = "BUFFER_TOO_SMALL" => info[i] > outlen[i]

\* An event whose buffer is gone was delivered, counted as lost, or drained.
FateInv ==
  \A e \in Events : epc[e] = "returned" /\ pool[e] = "freed" =>
    \/ \E i \in Irps : sysbuf[i] = e
    \/ e \in Reported
    \/ upc \in {"draining", "unloaded"}

LossInv == IndInv /\ HeaderInv /\ LostInv /\ CopyInv /\ StatusInv /\ FateInv

----------------------------------------------------------------------------
(* The counters. *)

\* The sets of losses are finite: there are finitely many events.
LEMMA LossesFinite ==
  ASSUME TypeOK
  PROVE  IsFiniteSet(gap) /\ \A e \in Events : IsFiniteSet(covers[e])
BY FiniteAssumption, FS_Subset DEF TypeOK

\* fetch_add on DROP_COUNT counts a loss that was not counted before.
LEMMA HeaderCount ==
  ASSUME TypeOK, HeaderInv, NEW e \in Events, e \notin Reported, CountLoss(e),
         UNCHANGED <<covers, drop_count>>,
         \A d \in Events : epc'[d] \in {"idle", "allocated"} => epc[d] \in {"idle", "allocated"}
  PROVE  HeaderInv'
<1>1. DROP_COUNT' = DROP_COUNT + 1 /\ gap' = gap \cup {e}
  BY DEF CountLoss
<1>2. e \notin gap /\ \A d \in Events : e \notin covers[d]
  BY DEF Reported
<1>3. Cardinality(gap') = Cardinality(gap) + 1
  BY <1>1, <1>2, LossesFinite, FS_AddElement
<1> QED
  BY <1>1, <1>2, <1>3 DEF HeaderInv

\* No other step touches the counters.
LEMMA HeaderKept ==
  ASSUME HeaderInv, UNCHANGED <<loss, covers, drop_count>>,
         \A d \in Events : epc'[d] \in {"idle", "allocated"} => epc[d] \in {"idle", "allocated"}
  PROVE  HeaderInv'
BY DEF HeaderInv, loss

\* An event that is allocated is not counted as lost; if nobody's callback has it,
\* its callback has returned.
LEMMA LiveEvent ==
  ASSUME BufferInv, LostInv, NEW e \in Events, pool[e] = "live"
  PROVE  e \notin Reported /\ epc[e] \notin {"idle", "oom", "dropping", "failing"}
BY DEF BufferInv, LostInv

\* The oldest queued event is allocated, and its callback has returned.
LEMMA QueuedEvent ==
  ASSUME TypeOK, BufferInv, LostInv, queue # << >>
  PROVE  /\ Head(queue) \in Events /\ pool[Head(queue)] = "live"
         /\ Head(queue) \notin Reported /\ epc[Head(queue)] = "returned"
<1> DEFINE e == Head(queue)
<1>1. e \in Events /\ pool[e] = "live" /\ e \in Elements(queue)
  BY QueueBuffer, HeadElement DEF TypeOK
<1>2. Owned(NULL, e) /\ NULL \in Owners /\ e \in Owners /\ e # NULL
  BY <1>1, ThreadsAssumption DEF Owned, Owners, Threads
<1>3. ~ CallbackOwns(e)
  BY <1>1, <1>2 DEF BufferInv, Owned
<1> HIDE DEF e
<1> QED
  BY <1>1, <1>3, LiveEvent DEF TypeOK, CallbackOwns, e

\* So is the event a request has popped.
LEMMA PoppedEvent ==
  ASSUME TypeOK, LocalInv, BufferInv, LostInv, NEW i \in Irps, ipc[i] = "popped"
  PROVE  /\ slot[i] \in Events /\ pool[slot[i]] = "live"
         /\ slot[i] \notin Reported /\ epc[slot[i]] = "returned"
<1> DEFINE e == slot[i]
<1>1. e \in Events /\ pool[e] = "live"
  BY RequestBuffer
<1>2. Owned(i, e) /\ i \in Owners /\ e \in Owners /\ e # i
  BY <1>1, ThreadsAssumption DEF Owned, Owners, Threads, RequestOwns
<1>3. ~ CallbackOwns(e)
  BY <1>1, <1>2 DEF BufferInv, Owned
<1> HIDE DEF e
<1> QED
  BY <1>1, <1>3, LiveEvent DEF TypeOK, CallbackOwns, e

\* Every step keeps the counters right.
LEMMA HeaderStep ==
  ASSUME LossInv, [Next]_vars
  PROVE  HeaderInv'
<1> USE DEF LossInv, IndInv, shared, loss, evVars, reqVars, ioVars, fileVars,
           unloadVars
<1>1. ASSUME NEW e \in Events, NEW n \in Sizes, AllocEvent(e, n)
      PROVE  HeaderInv'
  BY <1>1, HeaderKept DEF AllocEvent, Idle, TypeOK
<1>2. ASSUME NEW e \in Events, AllocFail(e)
      PROVE  HeaderInv'
  <2>1. e \notin Reported
    BY <1>2 DEF AllocFail, Idle, LostInv
  <2> QED
    BY <1>2, <2>1, HeaderCount DEF AllocFail, TypeOK, evVars
<1>3. ASSUME NEW f \in Files, Open(f)
      PROVE  HeaderInv'
  BY <1>3, HeaderKept DEF Open, TypeOK
<1>4. ASSUME NEW f \in Files, CleanupSwap(f)
      PROVE  HeaderInv'
  BY <1>4, HeaderKept DEF CleanupSwap, TypeOK
<1>5. ASSUME NEW f \in Files, Close(f)
      PROVE  HeaderInv'
  BY <1>5, HeaderKept DEF Close, TypeOK
<1>6. ASSUME NEW i \in Irps, NEW f \in Files, NEW n \in Sizes, DeviceControl(i, f, n)
      PROVE  HeaderInv'
  BY <1>6, HeaderKept DEF DeviceControl, TypeOK
<1>7. CASE UnloadStart
  BY <1>7, HeaderKept DEF UnloadStart, TypeOK
<1>8. ASSUME NEW f \in Files, CleanupComplete(f)
      PROVE  HeaderInv'
  BY <1>8, HeaderKept DEF CleanupComplete, TypeOK
<1>9. ASSUME NEW e \in Events, CallbackStep(e)
      PROVE  HeaderInv'
  <2>1. CASE make_header(e)
    <3>1. /\ epc[e] = "allocated" /\ epc' = [epc EXCEPT ![e] = "stamped"]
          /\ drop_count' = [drop_count EXCEPT ![e] = DROP_COUNT]
          /\ covers' = [covers EXCEPT ![e] = gap] /\ DROP_COUNT' = 0 /\ gap' = {}
      BY <2>1 DEF make_header
    <3>2. \A d \in Events : /\ epc'[d] = IF d = e THEN "stamped" ELSE epc[d]
                            /\ drop_count'[d] = IF d = e THEN DROP_COUNT ELSE drop_count[d]
                            /\ covers'[d] = IF d = e THEN gap ELSE covers[d]
      BY <3>1 DEF TypeOK
    <3>3. Cardinality(gap') = 0
      BY <3>1, FS_EmptySet
    <3>4. \A c, d \in Events : c # d => covers'[c] \cap covers'[d] = {}
      BY <3>2 DEF HeaderInv
    <3>5. \A d \in Events : drop_count'[d] = Cardinality(covers'[d])
      BY <3>2 DEF HeaderInv
    <3> QED
      BY <3>1, <3>2, <3>3, <3>4, <3>5 DEF HeaderInv
  <2>2. CASE SubmitAcquire(e)
    BY <2>2, HeaderKept DEF SubmitAcquire, TypeOK
  <2>3. CASE SubmitSwap(e)
    BY <2>3, HeaderKept DEF SubmitSwap, TypeOK
  <2>4. CASE SubmitDeliver(e)
    BY <2>4, HeaderKept DEF SubmitDeliver, TypeOK
  <2>5. CASE DeliverComplete(e)
    BY <2>5, HeaderKept DEF DeliverComplete, TypeOK
  <2>6. CASE SubmitTooSmall(e)
    BY <2>6, HeaderKept DEF SubmitTooSmall, TypeOK
  <2>7. CASE TooSmallCount(e)
    <3>1. e \notin Reported
      BY <2>7 DEF TooSmallCount, LostInv
    <3> QED
      BY <2>7, <3>1, HeaderCount DEF TooSmallCount, TypeOK
  <2>8. CASE TooSmallComplete(e)
    BY <2>8, HeaderKept DEF TooSmallComplete, TypeOK
  <2>9. CASE SubmitEnqueue(e)
    <3>1. CASE Len(queue) = QUEUE_CAP
      <4>1. queue # << >>
        BY <3>1, CapAssumption
      <4>2. CountLoss(Head(queue)) /\ Head(queue) \in Events /\ Head(queue) \notin Reported
        BY <2>9, <3>1, <4>1, QueuedEvent DEF SubmitEnqueue
      <4> QED
        BY <2>9, <4>2, HeaderCount DEF SubmitEnqueue, TypeOK
    <3>2. CASE Len(queue) # QUEUE_CAP
      BY <2>9, <3>2, HeaderKept DEF SubmitEnqueue, TypeOK
    <3> QED
      BY <3>1, <3>2
  <2> QED
    BY <1>9, <2>1, <2>2, <2>3, <2>4, <2>5, <2>6, <2>7, <2>8, <2>9 DEF CallbackStep
<1>10. ASSUME NEW i \in Irps, DispatchStep(i)
      PROVE  HeaderInv'
  <2>1. CASE InvalidRequest(i)
    BY <2>1, HeaderKept DEF InvalidRequest, TypeOK
  <2>2. CASE DcAcquire(i)
    BY <2>2, HeaderKept DEF DcAcquire, TypeOK
  <2>3. CASE DcPop(i)
    BY <2>3, HeaderKept DEF DcPop, TypeOK
  <2>4. CASE FastComplete(i)
    BY <2>4, HeaderKept DEF FastComplete, TypeOK
  <2>5. CASE FastTooSmall(i)
    <3>1. CountLoss(slot[i]) /\ slot[i] \in Events /\ slot[i] \notin Reported
      BY <2>5, PoppedEvent DEF FastTooSmall
    <3> QED
      BY <2>5, <3>1, HeaderCount DEF FastTooSmall, evVars
  <2>6. CASE FastTooSmallComplete(i)
    BY <2>6, HeaderKept DEF FastTooSmallComplete, TypeOK
  <2>7. CASE DcPark(i)
    BY <2>7, HeaderKept DEF DcPark, TypeOK
  <2>8. CASE MarkPending(i)
    BY <2>8, HeaderKept DEF MarkPending, TypeOK
  <2>9. CASE DcRefuse(i)
    BY <2>9, HeaderKept DEF DcRefuse, TypeOK
  <2>10. CASE RefuseComplete(i)
    BY <2>10, HeaderKept DEF RefuseComplete, TypeOK
  <2> QED
    BY <1>10, <2>1, <2>2, <2>3, <2>4, <2>5, <2>6, <2>7, <2>8, <2>9, <2>10 DEF DispatchStep
<1>11. CASE UnloadStep
  <2>1. CASE UnloadDeregister
    BY <2>1, HeaderKept DEF UnloadDeregister, TypeOK
  <2>2. CASE UnloadSwap
    BY <2>2, HeaderKept DEF UnloadSwap, TypeOK
  <2>3. CASE UnloadCancel
    BY <2>3, HeaderKept DEF UnloadCancel, TypeOK
  <2>4. CASE UnloadAcquire
    BY <2>4, HeaderKept DEF UnloadAcquire, TypeOK
  <2>5. CASE UnloadPop
    BY <2>5, HeaderKept DEF UnloadPop, TypeOK
  <2>6. CASE UnloadRelease
    BY <2>6, HeaderKept DEF UnloadRelease, TypeOK
  <2> QED
    BY <1>11, <2>1, <2>2, <2>3, <2>4, <2>5, <2>6 DEF UnloadStep
<1>12. CASE UNCHANGED vars
  BY <1>12, HeaderKept DEF vars
<1> QED
  BY <1>1, <1>2, <1>3, <1>4, <1>5, <1>6, <1>7, <1>8, <1>9, <1>10, <1>11, <1>12
  DEF Next, Environment, Gone

----------------------------------------------------------------------------
(* The events that are counted as lost. *)

\* They stay the same when neither DROP_COUNT nor a header is written ...
LEMMA ReportedKept == UNCHANGED <<gap, covers>> => Reported' = Reported
BY DEF Reported

\* ... a fetch_add adds one ...
LEMMA ReportedMore ==
  ASSUME NEW e, CountLoss(e), UNCHANGED covers
  PROVE  Reported' = Reported \cup {e}
BY DEF Reported, CountLoss

\* ... and the swap of make_header only moves them into a header.
LEMMA ReportedMoved ==
  ASSUME TypeOK, HeaderInv, NEW e \in Events, make_header(e)
  PROVE  Reported' = Reported
<1>1. covers[e] = {}
  BY DEF make_header, HeaderInv
<1>2. /\ gap' = {}
      /\ \A d \in Events : covers'[d] = IF d = e THEN gap ELSE covers[d]
  BY DEF make_header, TypeOK
<1> QED
  BY <1>1, <1>2 DEF Reported

\* Every step counts exactly the events that are gone.
LEMMA LostStep ==
  ASSUME LossInv, [Next]_vars
  PROVE  LostInv'
<1> USE DEF LossInv, IndInv, shared, loss, evVars, reqVars, ioVars, fileVars,
           unloadVars
<1>1. ASSUME NEW e \in Events, NEW n \in Sizes, AllocEvent(e, n)
      PROVE  LostInv'
  <2>1. Reported' = Reported
    BY <1>1, ReportedKept DEF AllocEvent
  <2> QED
    BY <1>1, <2>1 DEF LostInv, TypeOK, AllocEvent, Idle
<1>2. ASSUME NEW e \in Events, AllocFail(e)
      PROVE  LostInv'
  <2>1. Reported' = Reported \cup {e}
    BY <1>2, ReportedMore DEF AllocFail
  <2>2. pool[e] = "none"
    BY <1>2 DEF AllocFail, Idle, BufferInv
  <2> QED
    BY <1>2, <2>1, <2>2 DEF LostInv, TypeOK, AllocFail
<1>3. ASSUME NEW f \in Files, Open(f)
      PROVE  LostInv'
  <2>1. Reported' = Reported
    BY <1>3, ReportedKept DEF Open
  <2> QED
    BY <1>3, <2>1 DEF LostInv, TypeOK, Open
<1>4. ASSUME NEW f \in Files, CleanupSwap(f)
      PROVE  LostInv'
  <2>1. Reported' = Reported
    BY <1>4, ReportedKept DEF CleanupSwap
  <2> QED
    BY <1>4, <2>1 DEF LostInv, TypeOK, CleanupSwap
<1>5. ASSUME NEW f \in Files, Close(f)
      PROVE  LostInv'
  <2>1. Reported' = Reported
    BY <1>5, ReportedKept DEF Close
  <2> QED
    BY <1>5, <2>1 DEF LostInv, TypeOK, Close
<1>6. ASSUME NEW i \in Irps, NEW f \in Files, NEW n \in Sizes, DeviceControl(i, f, n)
      PROVE  LostInv'
  <2>1. Reported' = Reported
    BY <1>6, ReportedKept DEF DeviceControl
  <2> QED
    BY <1>6, <2>1 DEF LostInv, TypeOK, DeviceControl
<1>7. CASE UnloadStart
  <2>1. Reported' = Reported
    BY <1>7, ReportedKept DEF UnloadStart
  <2> QED
    BY <1>7, <2>1 DEF LostInv, TypeOK, UnloadStart
<1>8. ASSUME NEW f \in Files, CleanupComplete(f)
      PROVE  LostInv'
  <2>1. Reported' = Reported
    BY <1>8, ReportedKept DEF CleanupComplete
  <2> QED
    BY <1>8, <2>1 DEF LostInv, TypeOK, CleanupComplete
<1>9. ASSUME NEW e \in Events, CallbackStep(e)
      PROVE  LostInv'
  <2>1. CASE make_header(e)
    <3>1. Reported' = Reported
      BY <2>1, ReportedMoved
    <3> QED
      BY <2>1, <3>1 DEF LostInv, TypeOK, make_header
  <2>2. CASE SubmitAcquire(e)
    <3>1. Reported' = Reported
      BY <2>2, ReportedKept DEF SubmitAcquire
    <3> QED
      BY <2>2, <3>1 DEF LostInv, TypeOK, SubmitAcquire
  <2>3. CASE SubmitSwap(e)
    <3>1. Reported' = Reported
      BY <2>3, ReportedKept DEF SubmitSwap
    <3> QED
      BY <2>3, <3>1 DEF LostInv, TypeOK, SubmitSwap
  <2>4. CASE SubmitDeliver(e)
    <3>1. Reported' = Reported
      BY <2>4, ReportedKept DEF SubmitDeliver
    <3> QED
      BY <2>4, <3>1 DEF LostInv, TypeOK, SubmitDeliver
  <2>5. CASE DeliverComplete(e)
    <3>1. Reported' = Reported
      BY <2>5, ReportedKept DEF DeliverComplete, loss
    <3>2. pool[e] = "live"
      BY <2>5, CallbackBuffer DEF DeliverComplete, CallbackOwns
    <3> QED
      BY <2>5, <3>1, <3>2 DEF LostInv, TypeOK, DeliverComplete, Freed
  <2>6. CASE SubmitTooSmall(e)
    <3>1. Reported' = Reported
      BY <2>6, ReportedKept DEF SubmitTooSmall, loss
    <3>2. pool[e] = "live"
      BY <2>6, CallbackBuffer DEF SubmitTooSmall, CallbackOwns
    <3> QED
      BY <2>6, <3>1, <3>2 DEF LostInv, TypeOK, SubmitTooSmall, Freed
  <2>7. CASE TooSmallCount(e)
    <3>1. Reported' = Reported \cup {e}
      BY <2>7, ReportedMore DEF TooSmallCount
    <3> QED
      BY <2>7, <3>1 DEF LostInv, TypeOK, TooSmallCount
  <2>8. CASE TooSmallComplete(e)
    <3>1. Reported' = Reported
      BY <2>8, ReportedKept DEF TooSmallComplete
    <3> QED
      BY <2>8, <3>1 DEF LostInv, TypeOK, TooSmallComplete
  <2>9. CASE SubmitEnqueue(e)
    <3>1. epc' = [epc EXCEPT ![e] = "returned"] /\ epc[e] = "swapped" /\ UNCHANGED covers
      BY <2>9 DEF SubmitEnqueue
    <3>2. CASE Len(queue) = QUEUE_CAP
      <4> DEFINE o == Head(queue)
      <4>1. queue # << >>
        BY <3>2, CapAssumption
      <4>2. o \in Events /\ pool[o] = "live" /\ epc[o] = "returned"
        BY <4>1, QueuedEvent
      <4>3. pool' = Freed(pool, o) /\ CountLoss(o)
        BY <2>9, <3>2 DEF SubmitEnqueue
      <4>4. Reported' = Reported \cup {o}
        BY <3>1, <4>3, ReportedMore
      <4> HIDE DEF o
      <4> QED
        BY <3>1, <4>2, <4>3, <4>4 DEF LostInv, TypeOK, Freed
    <3>3. CASE Len(queue) # QUEUE_CAP
      <4>1. Reported' = Reported /\ UNCHANGED pool
        BY <2>9, <3>3, ReportedKept DEF SubmitEnqueue, loss
      <4> QED
        BY <3>1, <4>1 DEF LostInv, TypeOK
    <3> QED
      BY <3>2, <3>3
  <2> QED
    BY <1>9, <2>1, <2>2, <2>3, <2>4, <2>5, <2>6, <2>7, <2>8, <2>9 DEF CallbackStep
<1>10. ASSUME NEW i \in Irps, DispatchStep(i)
      PROVE  LostInv'
  <2>1. CASE InvalidRequest(i)
    <3>1. Reported' = Reported
      BY <2>1, ReportedKept DEF InvalidRequest
    <3> QED
      BY <2>1, <3>1 DEF LostInv, TypeOK, InvalidRequest
  <2>2. CASE DcAcquire(i)
    <3>1. Reported' = Reported
      BY <2>2, ReportedKept DEF DcAcquire
    <3> QED
      BY <2>2, <3>1 DEF LostInv, TypeOK, DcAcquire
  <2>3. CASE DcPop(i)
    <3>1. Reported' = Reported
      BY <2>3, ReportedKept DEF DcPop
    <3> QED
      BY <2>3, <3>1 DEF LostInv, TypeOK, DcPop
  <2>4. CASE FastComplete(i)
    <3>1. Reported' = Reported
      BY <2>4, ReportedKept DEF FastComplete, loss, evVars
    <3>2. slot[i] \in Events /\ pool[slot[i]] = "live"
      BY <2>4, PoppedEvent DEF FastComplete
    <3> QED
      BY <2>4, <3>1, <3>2 DEF LostInv, TypeOK, FastComplete, Freed, evVars
  <2>5. CASE FastTooSmall(i)
    <3>1. slot[i] \in Events /\ pool[slot[i]] = "live" /\ epc[slot[i]] = "returned"
      BY <2>5, PoppedEvent DEF FastTooSmall
    <3>2. Reported' = Reported \cup {slot[i]}
      BY <2>5, ReportedMore DEF FastTooSmall, evVars
    <3> QED
      BY <2>5, <3>1, <3>2 DEF LostInv, TypeOK, FastTooSmall, Freed, evVars
  <2>6. CASE FastTooSmallComplete(i)
    <3>1. Reported' = Reported
      BY <2>6, ReportedKept DEF FastTooSmallComplete
    <3> QED
      BY <2>6, <3>1 DEF LostInv, TypeOK, FastTooSmallComplete
  <2>7. CASE DcPark(i)
    <3>1. Reported' = Reported
      BY <2>7, ReportedKept DEF DcPark
    <3> QED
      BY <2>7, <3>1 DEF LostInv, TypeOK, DcPark
  <2>8. CASE MarkPending(i)
    <3>1. Reported' = Reported
      BY <2>8, ReportedKept DEF MarkPending
    <3> QED
      BY <2>8, <3>1 DEF LostInv, TypeOK, MarkPending
  <2>9. CASE DcRefuse(i)
    <3>1. Reported' = Reported
      BY <2>9, ReportedKept DEF DcRefuse
    <3> QED
      BY <2>9, <3>1 DEF LostInv, TypeOK, DcRefuse
  <2>10. CASE RefuseComplete(i)
    <3>1. Reported' = Reported
      BY <2>10, ReportedKept DEF RefuseComplete
    <3> QED
      BY <2>10, <3>1 DEF LostInv, TypeOK, RefuseComplete
  <2> QED
    BY <1>10, <2>1, <2>2, <2>3, <2>4, <2>5, <2>6, <2>7, <2>8, <2>9, <2>10 DEF DispatchStep
<1>11. CASE UnloadStep
  <2>1. CASE UnloadDeregister
    <3>1. Reported' = Reported
      BY <2>1, ReportedKept DEF UnloadDeregister
    <3> QED
      BY <2>1, <3>1 DEF LostInv, TypeOK, UnloadDeregister
  <2>2. CASE UnloadSwap
    <3>1. Reported' = Reported
      BY <2>2, ReportedKept DEF UnloadSwap
    <3> QED
      BY <2>2, <3>1 DEF LostInv, TypeOK, UnloadSwap
  <2>3. CASE UnloadCancel
    <3>1. Reported' = Reported
      BY <2>3, ReportedKept DEF UnloadCancel
    <3> QED
      BY <2>3, <3>1 DEF LostInv, TypeOK, UnloadCancel
  <2>4. CASE UnloadAcquire
    <3>1. Reported' = Reported
      BY <2>4, ReportedKept DEF UnloadAcquire
    <3> QED
      BY <2>4, <3>1 DEF LostInv, TypeOK, UnloadAcquire
  <2>5. CASE UnloadPop
    <3>1. Reported' = Reported
      BY <2>5, ReportedKept DEF UnloadPop, loss, evVars
    <3>2. Head(queue) \in Events /\ pool[Head(queue)] = "live"
      BY <2>5, QueuedEvent DEF UnloadPop
    <3> QED
      BY <2>5, <3>1, <3>2 DEF LostInv, TypeOK, UnloadPop, Freed, evVars
  <2>6. CASE UnloadRelease
    <3>1. Reported' = Reported
      BY <2>6, ReportedKept DEF UnloadRelease
    <3> QED
      BY <2>6, <3>1 DEF LostInv, TypeOK, UnloadRelease
  <2> QED
    BY <1>11, <2>1, <2>2, <2>3, <2>4, <2>5, <2>6 DEF UnloadStep
<1>12. CASE UNCHANGED vars
  <2>1. Reported' = Reported
    BY <1>12, ReportedKept DEF vars
  <2> QED
    BY <1>12, <2>1 DEF LostInv, TypeOK, vars
<1> QED
  BY <1>1, <1>2, <1>3, <1>4, <1>5, <1>6, <1>7, <1>8, <1>9, <1>10, <1>11, <1>12
  DEF Next, Environment, Gone

----------------------------------------------------------------------------
(* The events that are copied. *)

\* An event that cannot be in any SystemBuffer.
Uncopied(e) == epc[e] # "delivering" /\ ~(epc[e] = "returned" /\ pool[e] = "freed")

\* A step leaves event e, or what the driver tells about request i, alone.
EventKept(e) ==
  epc'[e] = epc[e] /\ size'[e] = size[e] /\ taken'[e] = taken[e] /\ pool'[e] = pool[e]
RequestKept(i) ==
  io'[i] = io[i] /\ status'[i] = status[i] /\ info'[i] = info[i] /\ outlen'[i] = outlen[i]

\* A step that copies nothing, and changes only events and requests that have
\* nothing to do with a SystemBuffer.
LEMMA CopyKept ==
  ASSUME TypeOK, CopyInv, UNCHANGED sysbuf,
         \A e \in Events : EventKept(e) \/ (Uncopied(e) /\ epc'[e] # "delivering"),
         \A i \in Irps : RequestKept(i) \/ sysbuf[i] = NULL,
         \A e \in Reported' : e \in Reported \/ Uncopied(e)
  PROVE  CopyInv'
<1>1. \A i \in Irps : sysbuf[i] # NULL =>
        sysbuf[i] \in Events /\ ~Uncopied(sysbuf[i]) /\ Copied(i, sysbuf[i])
  BY DEF CopyInv, Copied, Uncopied, TypeOK
<1>2. ASSUME NEW i \in Irps, sysbuf[i] # NULL
      PROVE  Copied(i, sysbuf[i])'
  <2>1. EventKept(sysbuf[i]) /\ RequestKept(i) /\ Copied(i, sysbuf[i])
    BY <1>1, <1>2
  <2> QED
    BY <2>1 DEF Copied, Fits, EventKept, RequestKept
<1>3. \A i \in Irps : sysbuf[i] # NULL => sysbuf[i] \notin Reported'
  BY <1>1 DEF CopyInv
<1>4. \A e \in Events : epc'[e] = "delivering" => sysbuf'[taken'[e]] = e
  BY DEF CopyInv, EventKept, Uncopied
<1> QED
  BY <1>2, <1>3, <1>4 DEF CopyInv

\* A request that somebody else has to complete than a callback that has copied an
\* event into its SystemBuffer has no event there yet ...
LEMMA HeldEmpty ==
  ASSUME TypeOK, IrpInv, CopyInv, NEW i \in Irps, NEW h \in Holders, Held(h, i),
         h \in Events => epc[h] # "delivering"
  PROVE  sysbuf[i] = NULL
<1> SUFFICES ASSUME sysbuf[i] # NULL PROVE FALSE
  OBVIOUS
<1> DEFINE e == sysbuf[i]
<1>1. e \in Events /\ e \in Holders /\ Copied(i, e)
  BY DEF CopyInv, TypeOK, Holders, Threads
<1>2. io[i] = "owned"
  BY DEF IrpInv
<1>3. epc[e] = "delivering" /\ taken[e] = i
  BY <1>1, <1>2 DEF Copied
<1>4. Held(e, i)
  BY <1>1, <1>3 DEF Held, CallbackHas
<1> HIDE DEF e
<1>5. e = h
  BY <1>1, <1>4 DEF IrpInv
<1> QED
  BY <1>1, <1>3, <1>5

\* ... and neither has one that is still with the agent.
LEMMA AgentEmpty ==
  ASSUME TypeOK, IrpInv, CopyInv, NEW i \in Irps, ipc[i] = "idle"
  PROVE  sysbuf[i] = NULL
<1> SUFFICES ASSUME sysbuf[i] # NULL PROVE FALSE
  OBVIOUS
<1> DEFINE e == sysbuf[i]
<1>1. e \in Events /\ e \in Holders /\ Copied(i, e)
  BY DEF CopyInv, TypeOK, Holders, Threads
<1>2. io[i] = "agent"
  BY DEF IrpInv
<1>3. Held(e, i)
  BY <1>1, <1>2 DEF Copied, Held, CallbackHas
<1> HIDE DEF e
<1> QED
  BY <1>1, <1>2, <1>3 DEF IrpInv

\* The requests the threads have in hand, and what is in their SystemBuffers.
LEMMA InHand ==
  ASSUME TypeOK, LocalInv, IrpInv, CopyInv
  PROVE  /\ \A i \in Irps : DispatchHas(i) => sysbuf[i] = NULL /\ io[i] = "owned"
         /\ \A e \in Events :
              epc[e] \in {"dropping", "failing"} \/ (epc[e] = "swapped" /\ taken[e] # NULL) =>
                taken[e] \in Irps /\ sysbuf[taken[e]] = NULL /\ io[taken[e]] = "owned"
         /\ \A f \in Files : fpc[f] = "cleanup" /\ ftaken[f] # NULL =>
              ftaken[f] \in Irps /\ sysbuf[ftaken[f]] = NULL /\ io[ftaken[f]] = "owned"
         /\ upc = "cancelling" /\ utaken # NULL =>
              utaken \in Irps /\ sysbuf[utaken] = NULL /\ io[utaken] = "owned"
<1>1. ASSUME NEW i \in Irps, DispatchHas(i) PROVE sysbuf[i] = NULL /\ io[i] = "owned"
  <2>1. Held(i, i) /\ i \in Holders /\ i \notin Events
    BY <1>1, ThreadsAssumption DEF Held, Holders, Threads
  <2> QED
    BY <2>1, HeldEmpty DEF IrpInv
<1>2. ASSUME NEW e \in Events,
             epc[e] \in {"dropping", "failing"} \/ (epc[e] = "swapped" /\ taken[e] # NULL)
      PROVE  taken[e] \in Irps /\ sysbuf[taken[e]] = NULL /\ io[taken[e]] = "owned"
  <2>1. taken[e] \in Irps
    BY <1>2 DEF LocalInv, TypeOK
  <2>2. Held(e, taken[e]) /\ e \in Holders /\ epc[e] # "delivering"
    BY <1>2 DEF Held, CallbackHas, Holders, Threads
  <2> QED
    BY <2>1, <2>2, HeldEmpty DEF IrpInv
<1>3. ASSUME NEW f \in Files, fpc[f] = "cleanup", ftaken[f] # NULL
      PROVE  ftaken[f] \in Irps /\ sysbuf[ftaken[f]] = NULL /\ io[ftaken[f]] = "owned"
  <2>1. ftaken[f] \in Irps
    BY <1>3 DEF TypeOK
  <2>2. Held(f, ftaken[f]) /\ f \in Holders /\ f \notin Events
    BY <1>3, ThreadsAssumption DEF Held, CleanupHas, Holders, Threads
  <2> QED
    BY <2>1, <2>2, HeldEmpty DEF IrpInv
<1>4. ASSUME upc = "cancelling", utaken # NULL
      PROVE  utaken \in Irps /\ sysbuf[utaken] = NULL /\ io[utaken] = "owned"
  <2>1. utaken \in Irps
    BY <1>4 DEF TypeOK
  <2>2. Held(UNLOAD, utaken) /\ UNLOAD \in Holders /\ UNLOAD \notin Events
    BY <1>4, ThreadsAssumption DEF Held, UnloadHas, Holders, Threads
  <2> QED
    BY <2>1, <2>2, HeldEmpty DEF IrpInv
<1> QED
  BY <1>1, <1>2, <1>3, <1>4

\* Every step copies an event into at most one SystemBuffer.
LEMMA CopyStep ==
  ASSUME LossInv, [Next]_vars
  PROVE  CopyInv'
<1> USE DEF LossInv, IndInv, shared, loss, evVars, reqVars, ioVars, fileVars,
           unloadVars
<1>1. ASSUME NEW e \in Events, NEW n \in Sizes, AllocEvent(e, n)
      PROVE  CopyInv'
  <2>1. Reported' = Reported
    BY <1>1, ReportedKept DEF AllocEvent
  <2>2. \A d \in Events : EventKept(d) \/ (Uncopied(d) /\ epc'[d] # "delivering")
    BY <1>1 DEF AllocEvent, Idle, TypeOK, EventKept, Uncopied
  <2>3. \A j \in Irps : RequestKept(j) \/ sysbuf[j] = NULL
    BY <1>1 DEF AllocEvent, TypeOK, RequestKept
  <2> QED
    BY <1>1, <2>1, <2>2, <2>3, CopyKept DEF AllocEvent
<1>2. ASSUME NEW e \in Events, AllocFail(e)
      PROVE  CopyInv'
  <2>1. Reported' = Reported \cup {e}
    BY <1>2, ReportedMore DEF AllocFail
  <2>2. e \in Events /\ Uncopied(e)
    BY <1>2 DEF AllocFail, Uncopied, Idle
  <2>3. \A d \in Events : EventKept(d) \/ (Uncopied(d) /\ epc'[d] # "delivering")
    BY <1>2, <2>2 DEF AllocFail, TypeOK, EventKept, Uncopied, Freed
  <2>4. \A j \in Irps : RequestKept(j)
    BY <1>2 DEF AllocFail, RequestKept
  <2> QED
    BY <1>2, <2>1, <2>2, <2>3, <2>4, CopyKept DEF AllocFail
<1>3. ASSUME NEW f \in Files, Open(f)
      PROVE  CopyInv'
  <2>1. Reported' = Reported
    BY <1>3, ReportedKept DEF Open
  <2>2. \A d \in Events : EventKept(d) \/ (Uncopied(d) /\ epc'[d] # "delivering")
    BY <1>3 DEF Open, Idle, TypeOK, EventKept, Uncopied
  <2>3. \A j \in Irps : RequestKept(j) \/ sysbuf[j] = NULL
    BY <1>3 DEF Open, TypeOK, RequestKept
  <2> QED
    BY <1>3, <2>1, <2>2, <2>3, CopyKept DEF Open
<1>4. ASSUME NEW f \in Files, CleanupSwap(f)
      PROVE  CopyInv'
  <2>1. Reported' = Reported
    BY <1>4, ReportedKept DEF CleanupSwap
  <2>2. \A d \in Events : EventKept(d) \/ (Uncopied(d) /\ epc'[d] # "delivering")
    BY <1>4 DEF CleanupSwap, Idle, TypeOK, EventKept, Uncopied
  <2>3. \A j \in Irps : RequestKept(j) \/ sysbuf[j] = NULL
    BY <1>4 DEF CleanupSwap, TypeOK, RequestKept
  <2> QED
    BY <1>4, <2>1, <2>2, <2>3, CopyKept DEF CleanupSwap
<1>5. ASSUME NEW f \in Files, Close(f)
      PROVE  CopyInv'
  <2>1. Reported' = Reported
    BY <1>5, ReportedKept DEF Close
  <2>2. \A d \in Events : EventKept(d) \/ (Uncopied(d) /\ epc'[d] # "delivering")
    BY <1>5 DEF Close, Idle, TypeOK, EventKept, Uncopied
  <2>3. \A j \in Irps : RequestKept(j) \/ sysbuf[j] = NULL
    BY <1>5 DEF Close, TypeOK, RequestKept
  <2> QED
    BY <1>5, <2>1, <2>2, <2>3, CopyKept DEF Close
<1>6. ASSUME NEW i \in Irps, NEW f \in Files, NEW n \in Sizes, DeviceControl(i, f, n)
      PROVE  CopyInv'
  <2>1. Reported' = Reported
    BY <1>6, ReportedKept DEF DeviceControl
  <2>2. \A d \in Events : EventKept(d) \/ (Uncopied(d) /\ epc'[d] # "delivering")
    BY <1>6 DEF DeviceControl, Idle, TypeOK, EventKept, Uncopied
  <2>3. \A j \in Irps : RequestKept(j) \/ sysbuf[j] = NULL
    BY <1>6, AgentEmpty DEF DeviceControl, TypeOK, RequestKept, complete_irp, DispatchHas
  <2> QED
    BY <1>6, <2>1, <2>2, <2>3, CopyKept DEF DeviceControl
<1>7. CASE UnloadStart
  <2>1. Reported' = Reported
    BY <1>7, ReportedKept DEF UnloadStart
  <2>2. \A d \in Events : EventKept(d) \/ (Uncopied(d) /\ epc'[d] # "delivering")
    BY <1>7 DEF UnloadStart, Idle, TypeOK, EventKept, Uncopied
  <2>3. \A j \in Irps : RequestKept(j) \/ sysbuf[j] = NULL
    BY <1>7 DEF UnloadStart, TypeOK, RequestKept
  <2> QED
    BY <1>7, <2>1, <2>2, <2>3, CopyKept DEF UnloadStart
<1>8. ASSUME NEW f \in Files, CleanupComplete(f)
      PROVE  CopyInv'
  <2>1. Reported' = Reported
    BY <1>8, ReportedKept DEF CleanupComplete
  <2>2. \A d \in Events : EventKept(d) \/ (Uncopied(d) /\ epc'[d] # "delivering")
    BY <1>8 DEF CleanupComplete, Idle, TypeOK, EventKept, Uncopied
  <2>3. \A j \in Irps : RequestKept(j) \/ sysbuf[j] = NULL
    BY <1>8, InHand DEF CleanupComplete, TypeOK, RequestKept, complete_irp, DispatchHas
  <2> QED
    BY <1>8, <2>1, <2>2, <2>3, CopyKept DEF CleanupComplete
<1>9. ASSUME NEW e \in Events, CallbackStep(e)
      PROVE  CopyInv'
  <2>1. CASE make_header(e)
    <3>1. Reported' = Reported
      BY <2>1, ReportedMoved
    <3>2. \A d \in Events : EventKept(d) \/ (Uncopied(d) /\ epc'[d] # "delivering")
      BY <2>1 DEF make_header, Idle, TypeOK, EventKept, Uncopied
    <3>3. \A j \in Irps : RequestKept(j) \/ sysbuf[j] = NULL
      BY <2>1 DEF make_header, TypeOK, RequestKept
    <3> QED
      BY <2>1, <3>1, <3>2, <3>3, CopyKept DEF make_header
  <2>2. CASE SubmitAcquire(e)
    <3>1. Reported' = Reported
      BY <2>2, ReportedKept DEF SubmitAcquire
    <3>2. \A d \in Events : EventKept(d) \/ (Uncopied(d) /\ epc'[d] # "delivering")
      BY <2>2 DEF SubmitAcquire, Idle, TypeOK, EventKept, Uncopied
    <3>3. \A j \in Irps : RequestKept(j) \/ sysbuf[j] = NULL
      BY <2>2 DEF SubmitAcquire, TypeOK, RequestKept
    <3> QED
      BY <2>2, <3>1, <3>2, <3>3, CopyKept DEF SubmitAcquire
  <2>3. CASE SubmitSwap(e)
    <3>1. Reported' = Reported
      BY <2>3, ReportedKept DEF SubmitSwap
    <3>2. \A d \in Events : EventKept(d) \/ (Uncopied(d) /\ epc'[d] # "delivering")
      BY <2>3 DEF SubmitSwap, Idle, TypeOK, EventKept, Uncopied
    <3>3. \A j \in Irps : RequestKept(j) \/ sysbuf[j] = NULL
      BY <2>3 DEF SubmitSwap, TypeOK, RequestKept
    <3> QED
      BY <2>3, <3>1, <3>2, <3>3, CopyKept DEF SubmitSwap
  <2>4. CASE SubmitDeliver(e)
    <3>0. PICK r \in Irps : r = taken[e] /\ sysbuf[r] = NULL
      BY <2>4, InHand DEF SubmitDeliver
    <3>1. e # NULL
      BY ThreadsAssumption
    <3>2. /\ epc[e] = "swapped" /\ Fits(e, r) /\ sysbuf' = [sysbuf EXCEPT ![r] = e]
          /\ epc' = [epc EXCEPT ![e] = "delivering"]
          /\ UNCHANGED <<size, taken, pool, outlen, io, status, info>>
      BY <2>4, <3>0 DEF SubmitDeliver, reqVars
    <3>3. Reported' = Reported
      BY <2>4, ReportedKept DEF SubmitDeliver, loss
    <3>4. \A j \in Irps : sysbuf'[j] = IF j = r THEN e ELSE sysbuf[j]
      BY <3>2 DEF TypeOK
    <3>5. \A d \in Events : epc'[d] = IF d = e THEN "delivering" ELSE epc[d]
      BY <3>2 DEF TypeOK
    <3>6. \A j \in Irps : sysbuf[j] # e
      BY <3>1, <3>2 DEF CopyInv, Copied
    <3>7. Copied(r, e)' /\ taken'[e] = r
      BY <3>0, <3>2, <3>5 DEF Copied, Fits
    <3>8. ASSUME NEW j \in Irps, j # r, sysbuf[j] # NULL
          PROVE  Copied(j, sysbuf[j])'
      <4>1. Copied(j, sysbuf[j]) /\ sysbuf[j] \in Events /\ sysbuf[j] # e /\ sysbuf'[j] =
         sysbuf[j]
        BY <3>4, <3>6, <3>8 DEF CopyInv, TypeOK
      <4> QED
        BY <4>1, <3>2, <3>5 DEF Copied, Fits
    <3>9. \A j \in Irps : (sysbuf[j] # NULL => Copied(j, sysbuf[j]))'
      BY <3>4, <3>7, <3>8 DEF Copied, Fits
    <3>10. \A d \in Events : epc'[d] = "delivering" => sysbuf'[taken'[d]] = d
      <4>1. ASSUME NEW d \in Events, d # e, epc[d] = "delivering"
            PROVE  taken[d] \in Irps /\ taken[d] # r /\ sysbuf[taken[d]] = d
        <5>1. taken[d] \in Irps /\ sysbuf[taken[d]] = d
          BY <4>1 DEF CopyInv, LocalInv, TypeOK
        <5>2. d # NULL
          BY ThreadsAssumption
        <5> QED
          BY <3>0, <5>1, <5>2
      <4> QED
        BY <3>2, <3>4, <3>5, <3>7, <4>1
    <3>11. e \notin Reported
      BY <3>2 DEF LostInv
    <3>12. \A j, k \in Irps : sysbuf'[j] # NULL /\ sysbuf'[j] = sysbuf'[k] => j = k
      BY <3>4, <3>6 DEF CopyInv
    <3>13. \A j \in Irps : sysbuf'[j] # NULL => sysbuf'[j] \notin Reported'
      BY <3>3, <3>4, <3>11 DEF CopyInv
    <3> QED
      BY <3>9, <3>10, <3>12, <3>13 DEF CopyInv
  <2>5. CASE DeliverComplete(e)
    <3>1. PICK r \in Irps : r = taken[e] /\ io[r] = "owned" /\ sysbuf[r] = e
      BY <2>5, CallbackIrp DEF DeliverComplete, CopyInv
    <3>2. pool[e] = "live"
      BY <2>5, CallbackBuffer DEF DeliverComplete, CallbackOwns
    <3>3. /\ epc[e] = "delivering" /\ epc' = [epc EXCEPT ![e] = "returned"]
          /\ pool' = Freed(pool, e) /\ UNCHANGED <<size, taken, outlen, sysbuf>>
          /\ complete_irp(r, "SUCCESS", size[e])
      BY <2>5, <3>1 DEF DeliverComplete, reqVars
    <3>4. Reported' = Reported
      BY <2>5, ReportedKept DEF DeliverComplete, loss
    <3>5. /\ io'[r] = "done" /\ status'[r] = "SUCCESS" /\ info'[r] = size[e]
          /\ \A j \in Irps : j # r => RequestKept(j)
      BY <3>1, <3>3 DEF complete_irp, TypeOK, RequestKept
    <3>6. /\ epc'[e] = "returned" /\ pool'[e] = "freed"
          /\ \A d \in Events : d # e => EventKept(d)
      BY <3>2, <3>3 DEF Freed, TypeOK, EventKept
    <3>7. \A j \in Irps : sysbuf[j] = e => j = r
      BY <3>1, ThreadsAssumption DEF CopyInv
    <3>8. Copied(r, e)'
      <4>1. Fits(e, r) /\ e # NULL
        BY <3>1, ThreadsAssumption DEF CopyInv, Copied
      <4> QED
        BY <4>1, <3>3, <3>5, <3>6 DEF Copied, Fits
    <3>9. ASSUME NEW j \in Irps, sysbuf[j] # NULL, j # r
          PROVE  Copied(j, sysbuf[j])'
      <4>1. Copied(j, sysbuf[j]) /\ EventKept(sysbuf[j]) /\ RequestKept(j)
        BY <3>5, <3>6, <3>7, <3>9 DEF CopyInv, TypeOK
      <4> QED
        BY <3>3, <4>1 DEF Copied, Fits, EventKept, RequestKept
    <3>10. \A j \in Irps : (sysbuf[j] # NULL => Copied(j, sysbuf[j]))'
      BY <3>1, <3>3, <3>8, <3>9 DEF Copied, Fits
    <3>11. \A d \in Events : epc'[d] = "delivering" => sysbuf'[taken'[d]] = d
      BY <3>3, <3>6 DEF CopyInv, EventKept
    <3> QED
      BY <3>3, <3>4, <3>10, <3>11 DEF CopyInv
  <2>6. CASE SubmitTooSmall(e)
    <3>1. Reported' = Reported
      BY <2>6, ReportedKept DEF SubmitTooSmall
    <3>2. \A d \in Events : EventKept(d) \/ (Uncopied(d) /\ epc'[d] # "delivering")
      BY <2>6 DEF SubmitTooSmall, Idle, TypeOK, EventKept, Uncopied, Freed
    <3>3. \A j \in Irps : RequestKept(j) \/ sysbuf[j] = NULL
      BY <2>6 DEF SubmitTooSmall, TypeOK, RequestKept
    <3> QED
      BY <2>6, <3>1, <3>2, <3>3, CopyKept DEF SubmitTooSmall
  <2>7. CASE TooSmallCount(e)
    <3>1. Reported' = Reported \cup {e}
      BY <2>7, ReportedMore DEF TooSmallCount
    <3>2. e \in Events /\ Uncopied(e)
      BY <2>7 DEF TooSmallCount, Uncopied, Idle
    <3>3. \A d \in Events : EventKept(d) \/ (Uncopied(d) /\ epc'[d] # "delivering")
      BY <2>7, <3>2 DEF TooSmallCount, TypeOK, EventKept, Uncopied, Freed
    <3>4. \A j \in Irps : RequestKept(j)
      BY <2>7 DEF TooSmallCount, RequestKept
    <3> QED
      BY <2>7, <3>1, <3>2, <3>3, <3>4, CopyKept DEF TooSmallCount
  <2>8. CASE TooSmallComplete(e)
    <3>1. Reported' = Reported
      BY <2>8, ReportedKept DEF TooSmallComplete
    <3>2. \A d \in Events : EventKept(d) \/ (Uncopied(d) /\ epc'[d] # "delivering")
      BY <2>8 DEF TooSmallComplete, Idle, TypeOK, EventKept, Uncopied
    <3>3. \A j \in Irps : RequestKept(j) \/ sysbuf[j] = NULL
      BY <2>8, InHand DEF TooSmallComplete, TypeOK, RequestKept, complete_irp, DispatchHas
    <3> QED
      BY <2>8, <3>1, <3>2, <3>3, CopyKept DEF TooSmallComplete
  <2>9. CASE SubmitEnqueue(e)
    <3>1. epc' = [epc EXCEPT ![e] = "returned"] /\ epc[e] = "swapped" /\ UNCHANGED covers
      BY <2>9 DEF SubmitEnqueue
    <3>2. \A j \in Irps : RequestKept(j)
      BY <2>9 DEF SubmitEnqueue, RequestKept, reqVars, ioVars
    <3>3. UNCHANGED <<sysbuf, size, taken>>
      BY <2>9 DEF SubmitEnqueue, ioVars
    <3>4. CASE Len(queue) = QUEUE_CAP
      <4> DEFINE o == Head(queue)
      <4>1. queue # << >>
        BY <3>4, CapAssumption
      <4>2. o \in Events /\ pool[o] = "live" /\ epc[o] = "returned" /\ o \notin Reported
        BY <4>1, QueuedEvent
      <4>3. pool' = Freed(pool, o) /\ Reported' = Reported \cup {o}
        BY <2>9, <3>1, <3>4, ReportedMore DEF SubmitEnqueue
      <4> HIDE DEF o
      <4>4. \A d \in Events : EventKept(d) \/ (Uncopied(d) /\ epc'[d] # "delivering")
        BY <3>1, <3>3, <4>2, <4>3 DEF TypeOK, EventKept, Uncopied, Freed
      <4>5. Uncopied(o)
        BY <4>2 DEF Uncopied
      <4> QED
        BY <3>2, <3>3, <4>3, <4>4, <4>5, CopyKept
    <3>5. CASE Len(queue) # QUEUE_CAP
      <4>1. Reported' = Reported /\ UNCHANGED pool
        BY <2>9, <3>5, ReportedKept DEF SubmitEnqueue, loss
      <4>2. \A d \in Events : EventKept(d) \/ (Uncopied(d) /\ epc'[d] # "delivering")
        BY <3>1, <3>3, <4>1 DEF TypeOK, EventKept, Uncopied
      <4> QED
        BY <3>2, <3>3, <4>1, <4>2, CopyKept
    <3> QED
      BY <3>4, <3>5
  <2> QED
    BY <1>9, <2>1, <2>2, <2>3, <2>4, <2>5, <2>6, <2>7, <2>8, <2>9 DEF CallbackStep
<1>10. ASSUME NEW i \in Irps, DispatchStep(i)
      PROVE  CopyInv'
  <2>1. CASE InvalidRequest(i)
    <3>1. Reported' = Reported
      BY <2>1, ReportedKept DEF InvalidRequest
    <3>2. \A d \in Events : EventKept(d) \/ (Uncopied(d) /\ epc'[d] # "delivering")
      BY <2>1 DEF InvalidRequest, Idle, TypeOK, EventKept, Uncopied
    <3>3. \A j \in Irps : RequestKept(j) \/ sysbuf[j] = NULL
      BY <2>1, InHand DEF InvalidRequest, TypeOK, RequestKept, complete_irp, DispatchHas
    <3> QED
      BY <2>1, <3>1, <3>2, <3>3, CopyKept DEF InvalidRequest
  <2>2. CASE DcAcquire(i)
    <3>1. Reported' = Reported
      BY <2>2, ReportedKept DEF DcAcquire
    <3>2. \A d \in Events : EventKept(d) \/ (Uncopied(d) /\ epc'[d] # "delivering")
      BY <2>2 DEF DcAcquire, Idle, TypeOK, EventKept, Uncopied
    <3>3. \A j \in Irps : RequestKept(j) \/ sysbuf[j] = NULL
      BY <2>2 DEF DcAcquire, TypeOK, RequestKept
    <3> QED
      BY <2>2, <3>1, <3>2, <3>3, CopyKept DEF DcAcquire
  <2>3. CASE DcPop(i)
    <3>1. Reported' = Reported
      BY <2>3, ReportedKept DEF DcPop
    <3>2. \A d \in Events : EventKept(d) \/ (Uncopied(d) /\ epc'[d] # "delivering")
      BY <2>3 DEF DcPop, Idle, TypeOK, EventKept, Uncopied
    <3>3. \A j \in Irps : RequestKept(j) \/ sysbuf[j] = NULL
      BY <2>3 DEF DcPop, TypeOK, RequestKept
    <3> QED
      BY <2>3, <3>1, <3>2, <3>3, CopyKept DEF DcPop
  <2>4. CASE FastComplete(i)
    <3>1. PICK e \in Events : /\ e = slot[i] /\ pool[e] = "live"
                             /\ epc[e] = "returned" /\ e \notin Reported
      BY <2>4, PoppedEvent DEF FastComplete
    <3>2. sysbuf[i] = NULL /\ io[i] = "owned"
      BY <2>4, InHand DEF FastComplete, DispatchHas
    <3>3. /\ Fits(e, i) /\ sysbuf' = [sysbuf EXCEPT ![i] = e] /\ pool' = Freed(pool, e)
          /\ complete_irp(i, "SUCCESS", size[e]) /\ UNCHANGED <<epc, size, taken, outlen>>
      BY <2>4, <3>1 DEF FastComplete, evVars
    <3>4. Reported' = Reported
      BY <2>4, ReportedKept DEF FastComplete, loss, evVars
    <3>5. /\ io'[i] = "done" /\ status'[i] = "SUCCESS" /\ info'[i] = size[e]
          /\ \A j \in Irps : j # i => RequestKept(j)
      BY <3>2, <3>3 DEF complete_irp, TypeOK, RequestKept
    <3>6. pool'[e] = "freed" /\ \A d \in Events : d # e => EventKept(d)
      BY <3>1, <3>3 DEF Freed, TypeOK, EventKept
    <3>7. \A j \in Irps : sysbuf'[j] = IF j = i THEN e ELSE sysbuf[j]
      BY <3>3 DEF TypeOK
    <3>8. \A j \in Irps : sysbuf[j] # e
      BY <3>1, ThreadsAssumption DEF CopyInv, Copied
    <3>9. Copied(i, e)'
      BY <3>1, <3>3, <3>5, <3>6 DEF Copied, Fits
    <3>10. ASSUME NEW j \in Irps, sysbuf[j] # NULL, j # i
           PROVE  Copied(j, sysbuf[j])'
      <4>1. /\ Copied(j, sysbuf[j]) /\ EventKept(sysbuf[j]) /\ RequestKept(j)
            /\ sysbuf'[j] = sysbuf[j]
        BY <3>5, <3>6, <3>7, <3>8, <3>10 DEF CopyInv, TypeOK
      <4> QED
        BY <4>1 DEF Copied, Fits, EventKept, RequestKept
    <3>11. \A j \in Irps : (sysbuf[j] # NULL => Copied(j, sysbuf[j]))'
      BY <3>2, <3>7, <3>9, <3>10 DEF Copied, Fits
    <3>12. \A d \in Events : epc'[d] = "delivering" => sysbuf'[taken'[d]] = d
      <4>1. ASSUME NEW d \in Events, epc[d] = "delivering"
            PROVE  taken[d] \in Irps /\ taken[d] # i /\ sysbuf[taken[d]] = d
        <5>1. taken[d] \in Irps /\ sysbuf[taken[d]] = d
          BY <4>1 DEF CopyInv, LocalInv, TypeOK
        <5>2. d # NULL
          BY ThreadsAssumption
        <5> QED
          BY <3>2, <5>1, <5>2
      <4> QED
        BY <3>3, <3>7, <4>1
    <3>13. \A j, k \in Irps : sysbuf'[j] # NULL /\ sysbuf'[j] = sysbuf'[k] => j = k
      BY <3>7, <3>8 DEF CopyInv
    <3>14. \A j \in Irps : sysbuf'[j] # NULL => sysbuf'[j] \notin Reported'
      BY <3>1, <3>4, <3>7 DEF CopyInv
    <3> QED
      BY <3>11, <3>12, <3>13, <3>14 DEF CopyInv
  <2>5. CASE FastTooSmall(i)
    <3>1. Reported' = Reported \cup {slot[i]}
      BY <2>5, ReportedMore DEF FastTooSmall
    <3>2. slot[i] \in Events /\ Uncopied(slot[i])
      BY <2>5, PoppedEvent DEF FastTooSmall, Uncopied, Idle
    <3>3. \A d \in Events : EventKept(d) \/ (Uncopied(d) /\ epc'[d] # "delivering")
      BY <2>5, <3>2 DEF FastTooSmall, TypeOK, EventKept, Uncopied, Freed
    <3>4. \A j \in Irps : RequestKept(j)
      BY <2>5 DEF FastTooSmall, RequestKept
    <3> QED
      BY <2>5, <3>1, <3>2, <3>3, <3>4, CopyKept DEF FastTooSmall
  <2>6. CASE FastTooSmallComplete(i)
    <3>1. Reported' = Reported
      BY <2>6, ReportedKept DEF FastTooSmallComplete
    <3>2. \A d \in Events : EventKept(d) \/ (Uncopied(d) /\ epc'[d] # "delivering")
      BY <2>6 DEF FastTooSmallComplete, Idle, TypeOK, EventKept, Uncopied
    <3>3. \A j \in Irps : RequestKept(j) \/ sysbuf[j] = NULL
      BY <2>6, InHand DEF FastTooSmallComplete, TypeOK, RequestKept, complete_irp, DispatchHas
    <3> QED
      BY <2>6, <3>1, <3>2, <3>3, CopyKept DEF FastTooSmallComplete
  <2>7. CASE DcPark(i)
    <3>1. Reported' = Reported
      BY <2>7, ReportedKept DEF DcPark
    <3>2. \A d \in Events : EventKept(d) \/ (Uncopied(d) /\ epc'[d] # "delivering")
      BY <2>7 DEF DcPark, Idle, TypeOK, EventKept, Uncopied
    <3>3. \A j \in Irps : RequestKept(j) \/ sysbuf[j] = NULL
      BY <2>7 DEF DcPark, TypeOK, RequestKept
    <3> QED
      BY <2>7, <3>1, <3>2, <3>3, CopyKept DEF DcPark
  <2>8. CASE MarkPending(i)
    <3>1. Reported' = Reported
      BY <2>8, ReportedKept DEF MarkPending
    <3>2. \A d \in Events : EventKept(d) \/ (Uncopied(d) /\ epc'[d] # "delivering")
      BY <2>8 DEF MarkPending, Idle, TypeOK, EventKept, Uncopied
    <3>3. \A j \in Irps : RequestKept(j) \/ sysbuf[j] = NULL
      BY <2>8 DEF MarkPending, TypeOK, RequestKept
    <3> QED
      BY <2>8, <3>1, <3>2, <3>3, CopyKept DEF MarkPending
  <2>9. CASE DcRefuse(i)
    <3>1. Reported' = Reported
      BY <2>9, ReportedKept DEF DcRefuse
    <3>2. \A d \in Events : EventKept(d) \/ (Uncopied(d) /\ epc'[d] # "delivering")
      BY <2>9 DEF DcRefuse, Idle, TypeOK, EventKept, Uncopied
    <3>3. \A j \in Irps : RequestKept(j) \/ sysbuf[j] = NULL
      BY <2>9 DEF DcRefuse, TypeOK, RequestKept
    <3> QED
      BY <2>9, <3>1, <3>2, <3>3, CopyKept DEF DcRefuse
  <2>10. CASE RefuseComplete(i)
    <3>1. Reported' = Reported
      BY <2>10, ReportedKept DEF RefuseComplete
    <3>2. \A d \in Events : EventKept(d) \/ (Uncopied(d) /\ epc'[d] # "delivering")
      BY <2>10 DEF RefuseComplete, Idle, TypeOK, EventKept, Uncopied
    <3>3. \A j \in Irps : RequestKept(j) \/ sysbuf[j] = NULL
      BY <2>10, InHand DEF RefuseComplete, TypeOK, RequestKept, complete_irp, DispatchHas
    <3> QED
      BY <2>10, <3>1, <3>2, <3>3, CopyKept DEF RefuseComplete
  <2> QED
    BY <1>10, <2>1, <2>2, <2>3, <2>4, <2>5, <2>6, <2>7, <2>8, <2>9, <2>10 DEF DispatchStep
<1>11. CASE UnloadStep
  <2>1. CASE UnloadDeregister
    <3>1. Reported' = Reported
      BY <2>1, ReportedKept DEF UnloadDeregister
    <3>2. \A d \in Events : EventKept(d) \/ (Uncopied(d) /\ epc'[d] # "delivering")
      BY <2>1 DEF UnloadDeregister, Idle, TypeOK, EventKept, Uncopied
    <3>3. \A j \in Irps : RequestKept(j) \/ sysbuf[j] = NULL
      BY <2>1 DEF UnloadDeregister, TypeOK, RequestKept
    <3> QED
      BY <2>1, <3>1, <3>2, <3>3, CopyKept DEF UnloadDeregister
  <2>2. CASE UnloadSwap
    <3>1. Reported' = Reported
      BY <2>2, ReportedKept DEF UnloadSwap
    <3>2. \A d \in Events : EventKept(d) \/ (Uncopied(d) /\ epc'[d] # "delivering")
      BY <2>2 DEF UnloadSwap, Idle, TypeOK, EventKept, Uncopied
    <3>3. \A j \in Irps : RequestKept(j) \/ sysbuf[j] = NULL
      BY <2>2 DEF UnloadSwap, TypeOK, RequestKept
    <3> QED
      BY <2>2, <3>1, <3>2, <3>3, CopyKept DEF UnloadSwap
  <2>3. CASE UnloadCancel
    <3>1. Reported' = Reported
      BY <2>3, ReportedKept DEF UnloadCancel
    <3>2. \A d \in Events : EventKept(d) \/ (Uncopied(d) /\ epc'[d] # "delivering")
      BY <2>3 DEF UnloadCancel, Idle, TypeOK, EventKept, Uncopied
    <3>3. \A j \in Irps : RequestKept(j) \/ sysbuf[j] = NULL
      BY <2>3, InHand DEF UnloadCancel, TypeOK, RequestKept, complete_irp, DispatchHas
    <3> QED
      BY <2>3, <3>1, <3>2, <3>3, CopyKept DEF UnloadCancel
  <2>4. CASE UnloadAcquire
    <3>1. Reported' = Reported
      BY <2>4, ReportedKept DEF UnloadAcquire
    <3>2. \A d \in Events : EventKept(d) \/ (Uncopied(d) /\ epc'[d] # "delivering")
      BY <2>4 DEF UnloadAcquire, Idle, TypeOK, EventKept, Uncopied
    <3>3. \A j \in Irps : RequestKept(j) \/ sysbuf[j] = NULL
      BY <2>4 DEF UnloadAcquire, TypeOK, RequestKept
    <3> QED
      BY <2>4, <3>1, <3>2, <3>3, CopyKept DEF UnloadAcquire
  <2>5. CASE UnloadPop
    <3>1. Reported' = Reported
      BY <2>5, ReportedKept DEF UnloadPop
    <3>2. \A d \in Events : EventKept(d) \/ (Uncopied(d) /\ epc'[d] # "delivering")
      BY <2>5, QueuedEvent DEF UnloadPop, TypeOK, EventKept, Uncopied, Freed
    <3>3. \A j \in Irps : RequestKept(j) \/ sysbuf[j] = NULL
      BY <2>5 DEF UnloadPop, TypeOK, RequestKept
    <3> QED
      BY <2>5, <3>1, <3>2, <3>3, CopyKept DEF UnloadPop
  <2>6. CASE UnloadRelease
    <3>1. Reported' = Reported
      BY <2>6, ReportedKept DEF UnloadRelease
    <3>2. \A d \in Events : EventKept(d) \/ (Uncopied(d) /\ epc'[d] # "delivering")
      BY <2>6 DEF UnloadRelease, Idle, TypeOK, EventKept, Uncopied
    <3>3. \A j \in Irps : RequestKept(j) \/ sysbuf[j] = NULL
      BY <2>6 DEF UnloadRelease, TypeOK, RequestKept
    <3> QED
      BY <2>6, <3>1, <3>2, <3>3, CopyKept DEF UnloadRelease
  <2> QED
    BY <1>11, <2>1, <2>2, <2>3, <2>4, <2>5, <2>6 DEF UnloadStep
<1>12. CASE UNCHANGED vars
  <2>1. Reported' = Reported
    BY <1>12, ReportedKept DEF vars
  <2>2. \A d \in Events : EventKept(d) \/ (Uncopied(d) /\ epc'[d] # "delivering")
    BY <1>12 DEF vars, Idle, TypeOK, EventKept, Uncopied
  <2>3. \A j \in Irps : RequestKept(j) \/ sysbuf[j] = NULL
    BY <1>12 DEF vars, TypeOK, RequestKept
  <2> QED
    BY <1>12, <2>1, <2>2, <2>3, CopyKept DEF vars
<1> QED
  BY <1>1, <1>2, <1>3, <1>4, <1>5, <1>6, <1>7, <1>8, <1>9, <1>10, <1>11, <1>12
  DEF Next, Environment, Gone

----------------------------------------------------------------------------
(* What the requests are told. *)

\* Sizes and buffer lengths are numbers.
LEMMA LengthsNat ==
  ASSUME TypeOK, NEW e \in Events, NEW i \in Irps
  PROVE  size[e] \in Nat /\ outlen[i] \in Nat
<1>1. size[e] \in Sizes \cup {0} /\ outlen[i] \in Sizes \cup {0}
  BY DEF TypeOK
<1>2. \A n \in Sizes : n \in Nat
  BY SizesAssumption
<1> QED
  BY <1>1, <1>2

\* A size that does not fit is larger than the buffer.
LEMMA TooLarge ==
  ASSUME TypeOK, NEW e \in Events, NEW i \in Irps, ~Fits(e, i)
  PROVE  size[e] > outlen[i]
<1>1. size[e] \in Nat /\ outlen[i] \in Nat
  BY LengthsNat
<1> QED
  BY <1>1 DEF Fits

\* Every step completes a request with the status its answer deserves.
LEMMA StatusStep ==
  ASSUME LossInv, [Next]_vars
  PROVE  StatusInv'
<1> USE DEF LossInv, IndInv, shared, loss, evVars, reqVars, ioVars, fileVars,
           unloadVars
<1>1. ASSUME NEW e \in Events, NEW n \in Sizes, AllocEvent(e, n)
      PROVE  StatusInv'
  BY <1>1 DEF StatusInv, Fits, TypeOK, AllocEvent, Idle
<1>2. ASSUME NEW e \in Events, AllocFail(e)
      PROVE  StatusInv'
  BY <1>2 DEF StatusInv, Fits, TypeOK, AllocFail, Idle
<1>3. ASSUME NEW f \in Files, Open(f)
      PROVE  StatusInv'
  BY <1>3 DEF StatusInv, Fits, TypeOK, Open
<1>4. ASSUME NEW f \in Files, CleanupSwap(f)
      PROVE  StatusInv'
  BY <1>4 DEF StatusInv, Fits, TypeOK, CleanupSwap
<1>5. ASSUME NEW f \in Files, Close(f)
      PROVE  StatusInv'
  BY <1>5 DEF StatusInv, Fits, TypeOK, Close
<1>6. ASSUME NEW i \in Irps, NEW f \in Files, NEW n \in Sizes, DeviceControl(i, f, n)
      PROVE  StatusInv'
  <2>1. io[i] = "agent"
    BY <1>6 DEF DeviceControl, IrpInv
  <2>2. \A e \in Events : epc[e] \in {"dropping", "failing"} => taken[e] \in Irps /\ taken[e]
     # i
    BY <2>1, InHand
  <2> QED
    BY <1>6, <2>1, <2>2 DEF StatusInv, Fits, TypeOK, DeviceControl, evVars, ioVars
<1>7. CASE UnloadStart
  BY <1>7 DEF StatusInv, Fits, TypeOK, UnloadStart
<1>8. ASSUME NEW f \in Files, CleanupComplete(f)
      PROVE  StatusInv'
  BY <1>8, InHand DEF StatusInv, Fits, TypeOK, CleanupComplete, complete_irp
<1>9. ASSUME NEW e \in Events, CallbackStep(e)
      PROVE  StatusInv'
  <2>1. CASE make_header(e)
    BY <2>1 DEF StatusInv, Fits, TypeOK, make_header
  <2>2. CASE SubmitAcquire(e)
    BY <2>2 DEF StatusInv, Fits, TypeOK, SubmitAcquire
  <2>3. CASE SubmitSwap(e)
    BY <2>3 DEF StatusInv, Fits, TypeOK, SubmitSwap
  <2>4. CASE SubmitDeliver(e)
    <3>1. taken[e] \in Irps /\ io[taken[e]] = "owned"
      BY <2>4, InHand DEF SubmitDeliver
    <3> QED
      BY <2>4, <3>1 DEF StatusInv, Fits, TypeOK, SubmitDeliver, reqVars
  <2>5. CASE DeliverComplete(e)
    <3>1. PICK r \in Irps : r = taken[e] /\ io[r] = "owned" /\ sysbuf[r] = e /\ e # NULL
      BY <2>5, CallbackIrp, ThreadsAssumption DEF DeliverComplete, CopyInv
    <3> QED
      BY <2>5, <3>1 DEF StatusInv, Fits, TypeOK, DeliverComplete, complete_irp, reqVars
  <2>6. CASE SubmitTooSmall(e)
    BY <2>6 DEF StatusInv, Fits, TypeOK, SubmitTooSmall
  <2>7. CASE TooSmallCount(e)
    BY <2>7 DEF StatusInv, Fits, TypeOK, TooSmallCount
  <2>8. CASE TooSmallComplete(e)
    <3>1. PICK r \in Irps : r = taken[e] /\ io[r] = "owned" /\ ~Fits(e, r)
      BY <2>8, InHand DEF TooSmallComplete, StatusInv
    <3>2. size[e] > outlen[r]
      BY <3>1, TooLarge
    <3> QED
      BY <2>8, <3>1, <3>2 DEF StatusInv, Fits, TypeOK, TooSmallComplete, complete_irp, reqVars
  <2>9. CASE SubmitEnqueue(e)
    BY <2>9 DEF StatusInv, Fits, TypeOK, SubmitEnqueue
  <2> QED
    BY <1>9, <2>1, <2>2, <2>3, <2>4, <2>5, <2>6, <2>7, <2>8, <2>9 DEF CallbackStep
<1>10. ASSUME NEW i \in Irps, DispatchStep(i)
      PROVE  StatusInv'
  <2>1. CASE InvalidRequest(i)
    BY <2>1, InHand DEF StatusInv, Fits, TypeOK, InvalidRequest, complete_irp, DispatchHas
  <2>2. CASE DcAcquire(i)
    BY <2>2 DEF StatusInv, Fits, TypeOK, DcAcquire
  <2>3. CASE DcPop(i)
    BY <2>3 DEF StatusInv, Fits, TypeOK, DcPop
  <2>4. CASE FastComplete(i)
    <3>1. slot[i] \in Events /\ slot[i] # NULL
      BY <2>4, PoppedEvent, ThreadsAssumption DEF FastComplete
    <3>2. io[i] = "owned"
      BY <2>4, InHand DEF FastComplete, DispatchHas
    <3> QED
      BY <2>4, <3>1, <3>2 DEF StatusInv, Fits, TypeOK, FastComplete, complete_irp, evVars
  <2>5. CASE FastTooSmall(i)
    <3>1. slot[i] \in Events /\ epc[slot[i]] = "returned"
      BY <2>5, PoppedEvent DEF FastTooSmall
    <3> QED
      BY <2>5, <3>1 DEF StatusInv, Fits, TypeOK, FastTooSmall, evVars, ioVars
  <2>6. CASE FastTooSmallComplete(i)
    <3>1. io[i] = "owned"
      BY <2>6, InHand DEF FastTooSmallComplete, DispatchHas
    <3>2. slot[i] \in Events /\ ~Fits(slot[i], i)
      BY <2>6 DEF FastTooSmallComplete, StatusInv
    <3>3. size[slot[i]] > outlen[i]
      BY <3>2, TooLarge
    <3> QED
      BY <2>6, <3>1, <3>3 DEF StatusInv, Fits, TypeOK, FastTooSmallComplete, complete_irp,
         evVars
  <2>7. CASE DcPark(i)
    BY <2>7 DEF StatusInv, Fits, TypeOK, DcPark
  <2>8. CASE MarkPending(i)
    BY <2>8 DEF StatusInv, Fits, TypeOK, MarkPending
  <2>9. CASE DcRefuse(i)
    BY <2>9 DEF StatusInv, Fits, TypeOK, DcRefuse
  <2>10. CASE RefuseComplete(i)
    BY <2>10, InHand DEF StatusInv, Fits, TypeOK, RefuseComplete, complete_irp, DispatchHas
  <2> QED
    BY <1>10, <2>1, <2>2, <2>3, <2>4, <2>5, <2>6, <2>7, <2>8, <2>9, <2>10 DEF DispatchStep
<1>11. CASE UnloadStep
  <2>1. CASE UnloadDeregister
    BY <2>1 DEF StatusInv, Fits, TypeOK, UnloadDeregister
  <2>2. CASE UnloadSwap
    BY <2>2 DEF StatusInv, Fits, TypeOK, UnloadSwap
  <2>3. CASE UnloadCancel
    BY <2>3, InHand DEF StatusInv, Fits, TypeOK, UnloadCancel, complete_irp
  <2>4. CASE UnloadAcquire
    BY <2>4 DEF StatusInv, Fits, TypeOK, UnloadAcquire
  <2>5. CASE UnloadPop
    BY <2>5 DEF StatusInv, Fits, TypeOK, UnloadPop
  <2>6. CASE UnloadRelease
    BY <2>6 DEF StatusInv, Fits, TypeOK, UnloadRelease
  <2> QED
    BY <1>11, <2>1, <2>2, <2>3, <2>4, <2>5, <2>6 DEF UnloadStep
<1>12. CASE UNCHANGED vars
  BY <1>12 DEF StatusInv, Fits, TypeOK, vars
<1> QED
  BY <1>1, <1>2, <1>3, <1>4, <1>5, <1>6, <1>7, <1>8, <1>9, <1>10, <1>11, <1>12
  DEF Next, Environment, Gone

----------------------------------------------------------------------------
(* What becomes of the events. *)

\* No step makes an event vanish.
LEMMA FateStep ==
  ASSUME LossInv, [Next]_vars
  PROVE  FateInv'
<1> USE DEF LossInv, IndInv, shared, loss, evVars, reqVars, ioVars, fileVars,
           unloadVars
<1>1. ASSUME NEW e \in Events, NEW n \in Sizes, AllocEvent(e, n)
      PROVE  FateInv'
  <2>1. Reported' = Reported
    BY <1>1, ReportedKept DEF AllocEvent
  <2> QED
    BY <1>1, <2>1 DEF FateInv, TypeOK, AllocEvent, Idle
<1>2. ASSUME NEW e \in Events, AllocFail(e)
      PROVE  FateInv'
  <2>1. Reported' = Reported \cup {e}
    BY <1>2, ReportedMore DEF AllocFail
  <2> QED
    BY <1>2, <2>1 DEF FateInv, TypeOK, AllocFail, ioVars, unloadVars
<1>3. ASSUME NEW f \in Files, Open(f)
      PROVE  FateInv'
  <2>1. Reported' = Reported
    BY <1>3, ReportedKept DEF Open
  <2> QED
    BY <1>3, <2>1 DEF FateInv, TypeOK, Open
<1>4. ASSUME NEW f \in Files, CleanupSwap(f)
      PROVE  FateInv'
  <2>1. Reported' = Reported
    BY <1>4, ReportedKept DEF CleanupSwap
  <2> QED
    BY <1>4, <2>1 DEF FateInv, TypeOK, CleanupSwap
<1>5. ASSUME NEW f \in Files, Close(f)
      PROVE  FateInv'
  <2>1. Reported' = Reported
    BY <1>5, ReportedKept DEF Close
  <2> QED
    BY <1>5, <2>1 DEF FateInv, TypeOK, Close
<1>6. ASSUME NEW i \in Irps, NEW f \in Files, NEW n \in Sizes, DeviceControl(i, f, n)
      PROVE  FateInv'
  <2>1. Reported' = Reported
    BY <1>6, ReportedKept DEF DeviceControl
  <2> QED
    BY <1>6, <2>1 DEF FateInv, TypeOK, DeviceControl
<1>7. CASE UnloadStart
  <2>1. Reported' = Reported
    BY <1>7, ReportedKept DEF UnloadStart
  <2> QED
    BY <1>7, <2>1 DEF FateInv, TypeOK, UnloadStart
<1>8. ASSUME NEW f \in Files, CleanupComplete(f)
      PROVE  FateInv'
  <2>1. Reported' = Reported
    BY <1>8, ReportedKept DEF CleanupComplete
  <2> QED
    BY <1>8, <2>1 DEF FateInv, TypeOK, CleanupComplete
<1>9. ASSUME NEW e \in Events, CallbackStep(e)
      PROVE  FateInv'
  <2>1. CASE make_header(e)
    <3>1. Reported' = Reported
      BY <2>1, ReportedMoved
    <3> QED
      BY <2>1, <3>1 DEF FateInv, TypeOK, make_header, ioVars, unloadVars
  <2>2. CASE SubmitAcquire(e)
    <3>1. Reported' = Reported
      BY <2>2, ReportedKept DEF SubmitAcquire
    <3> QED
      BY <2>2, <3>1 DEF FateInv, TypeOK, SubmitAcquire
  <2>3. CASE SubmitSwap(e)
    <3>1. Reported' = Reported
      BY <2>3, ReportedKept DEF SubmitSwap
    <3> QED
      BY <2>3, <3>1 DEF FateInv, TypeOK, SubmitSwap
  <2>4. CASE SubmitDeliver(e)
    <3>1. Reported' = Reported
      BY <2>4, ReportedKept DEF SubmitDeliver, loss
    <3>2. taken[e] \in Irps /\ sysbuf[taken[e]] = NULL
      BY <2>4, InHand DEF SubmitDeliver
    <3>3. \A d \in Events : d # NULL
      BY ThreadsAssumption
    <3> QED
      BY <2>4, <3>1, <3>2, <3>3 DEF FateInv, TypeOK, SubmitDeliver, unloadVars
  <2>5. CASE DeliverComplete(e)
    <3>1. Reported' = Reported
      BY <2>5, ReportedKept DEF DeliverComplete, loss
    <3>2. taken[e] \in Irps /\ sysbuf[taken[e]] = e
      BY <2>5, CallbackIrp DEF DeliverComplete, CopyInv
    <3> QED
      BY <2>5, <3>1, <3>2 DEF FateInv, TypeOK, DeliverComplete, Freed, unloadVars
  <2>6. CASE SubmitTooSmall(e)
    <3>1. Reported' = Reported
      BY <2>6, ReportedKept DEF SubmitTooSmall, loss
    <3> QED
      BY <2>6, <3>1 DEF FateInv, TypeOK, SubmitTooSmall, Freed, ioVars, unloadVars
  <2>7. CASE TooSmallCount(e)
    <3>1. Reported' = Reported \cup {e}
      BY <2>7, ReportedMore DEF TooSmallCount
    <3> QED
      BY <2>7, <3>1 DEF FateInv, TypeOK, TooSmallCount, ioVars, unloadVars
  <2>8. CASE TooSmallComplete(e)
    <3>1. Reported' = Reported
      BY <2>8, ReportedKept DEF TooSmallComplete, loss
    <3>2. e \in Reported
      BY <2>8 DEF TooSmallComplete, LostInv
    <3> QED
      BY <2>8, <3>1, <3>2 DEF FateInv, TypeOK, TooSmallComplete, unloadVars
  <2>9. CASE SubmitEnqueue(e)
    <3>1. /\ epc' = [epc EXCEPT ![e] = "returned"] /\ epc[e] = "swapped"
          /\ UNCHANGED <<covers, sysbuf, upc>>
      BY <2>9 DEF SubmitEnqueue, ioVars, unloadVars
    <3>2. pool[e] = "live"
      BY <3>1, CallbackBuffer DEF CallbackOwns
    <3>3. CASE Len(queue) = QUEUE_CAP
      <4>1. queue # << >>
        BY <3>3, CapAssumption
      <4>2. PICK o \in Events : o = Head(queue) /\ epc[o] = "returned"
        BY <4>1, QueuedEvent
      <4>3. pool' = Freed(pool, o) /\ Reported' = Reported \cup {o}
        BY <2>9, <3>1, <3>3, <4>2, ReportedMore DEF SubmitEnqueue
      <4> QED
        BY <3>1, <3>2, <4>2, <4>3 DEF FateInv, TypeOK, Freed
    <3>4. CASE Len(queue) # QUEUE_CAP
      <4>1. Reported' = Reported /\ UNCHANGED pool
        BY <2>9, <3>4, ReportedKept DEF SubmitEnqueue, loss
      <4> QED
        BY <3>1, <3>2, <4>1 DEF FateInv, TypeOK
    <3> QED
      BY <3>3, <3>4
  <2> QED
    BY <1>9, <2>1, <2>2, <2>3, <2>4, <2>5, <2>6, <2>7, <2>8, <2>9 DEF CallbackStep
<1>10. ASSUME NEW i \in Irps, DispatchStep(i)
      PROVE  FateInv'
  <2>1. CASE InvalidRequest(i)
    <3>1. Reported' = Reported
      BY <2>1, ReportedKept DEF InvalidRequest
    <3> QED
      BY <2>1, <3>1 DEF FateInv, TypeOK, InvalidRequest
  <2>2. CASE DcAcquire(i)
    <3>1. Reported' = Reported
      BY <2>2, ReportedKept DEF DcAcquire
    <3> QED
      BY <2>2, <3>1 DEF FateInv, TypeOK, DcAcquire
  <2>3. CASE DcPop(i)
    <3>1. Reported' = Reported
      BY <2>3, ReportedKept DEF DcPop
    <3> QED
      BY <2>3, <3>1 DEF FateInv, TypeOK, DcPop
  <2>4. CASE FastComplete(i)
    <3>1. Reported' = Reported
      BY <2>4, ReportedKept DEF FastComplete, loss, evVars
    <3>2. sysbuf[i] = NULL
      BY <2>4, InHand DEF FastComplete, DispatchHas
    <3>3. \A d \in Events : d # NULL
      BY ThreadsAssumption
    <3>4. \A j \in Irps : sysbuf'[j] = IF j = i THEN slot[i] ELSE sysbuf[j]
      BY <2>4 DEF FastComplete, TypeOK
    <3>5. slot[i] \in Events
      BY <2>4, PoppedEvent DEF FastComplete
    <3>6. \A d \in Events : d # slot[i] => pool'[d] = pool[d]
      BY <2>4, <3>5 DEF FastComplete, Freed, TypeOK
    <3>7. UNCHANGED <<epc, upc>>
      BY <2>4 DEF FastComplete, evVars, unloadVars
    <3> QED
      BY <3>1, <3>2, <3>3, <3>4, <3>5, <3>6, <3>7 DEF FateInv
  <2>5. CASE FastTooSmall(i)
    <3>1. Reported' = Reported \cup {slot[i]}
      BY <2>5, ReportedMore DEF FastTooSmall, evVars
    <3>2. slot[i] \in Events
      BY <2>5, PoppedEvent DEF FastTooSmall
    <3> QED
      BY <2>5, <3>1, <3>2 DEF FateInv, TypeOK, FastTooSmall, Freed, evVars, ioVars, unloadVars
  <2>6. CASE FastTooSmallComplete(i)
    <3>1. Reported' = Reported
      BY <2>6, ReportedKept DEF FastTooSmallComplete
    <3> QED
      BY <2>6, <3>1 DEF FateInv, TypeOK, FastTooSmallComplete
  <2>7. CASE DcPark(i)
    <3>1. Reported' = Reported
      BY <2>7, ReportedKept DEF DcPark
    <3> QED
      BY <2>7, <3>1 DEF FateInv, TypeOK, DcPark
  <2>8. CASE MarkPending(i)
    <3>1. Reported' = Reported
      BY <2>8, ReportedKept DEF MarkPending
    <3> QED
      BY <2>8, <3>1 DEF FateInv, TypeOK, MarkPending
  <2>9. CASE DcRefuse(i)
    <3>1. Reported' = Reported
      BY <2>9, ReportedKept DEF DcRefuse
    <3> QED
      BY <2>9, <3>1 DEF FateInv, TypeOK, DcRefuse
  <2>10. CASE RefuseComplete(i)
    <3>1. Reported' = Reported
      BY <2>10, ReportedKept DEF RefuseComplete
    <3> QED
      BY <2>10, <3>1 DEF FateInv, TypeOK, RefuseComplete
  <2> QED
    BY <1>10, <2>1, <2>2, <2>3, <2>4, <2>5, <2>6, <2>7, <2>8, <2>9, <2>10 DEF DispatchStep
<1>11. CASE UnloadStep
  <2>1. CASE UnloadDeregister
    <3>1. Reported' = Reported
      BY <2>1, ReportedKept DEF UnloadDeregister
    <3> QED
      BY <2>1, <3>1 DEF FateInv, TypeOK, UnloadDeregister
  <2>2. CASE UnloadSwap
    <3>1. Reported' = Reported
      BY <2>2, ReportedKept DEF UnloadSwap
    <3> QED
      BY <2>2, <3>1 DEF FateInv, TypeOK, UnloadSwap
  <2>3. CASE UnloadCancel
    <3>1. Reported' = Reported
      BY <2>3, ReportedKept DEF UnloadCancel
    <3> QED
      BY <2>3, <3>1 DEF FateInv, TypeOK, UnloadCancel
  <2>4. CASE UnloadAcquire
    <3>1. Reported' = Reported
      BY <2>4, ReportedKept DEF UnloadAcquire
    <3> QED
      BY <2>4, <3>1 DEF FateInv, TypeOK, UnloadAcquire
  <2>5. CASE UnloadPop
    BY <2>5 DEF FateInv, UnloadPop, unloadVars
  <2>6. CASE UnloadRelease
    <3>1. Reported' = Reported
      BY <2>6, ReportedKept DEF UnloadRelease
    <3> QED
      BY <2>6, <3>1 DEF FateInv, TypeOK, UnloadRelease
  <2> QED
    BY <1>11, <2>1, <2>2, <2>3, <2>4, <2>5, <2>6 DEF UnloadStep
<1>12. CASE UNCHANGED vars
  <2>1. Reported' = Reported
    BY <1>12, ReportedKept DEF vars
  <2> QED
    BY <1>12, <2>1 DEF FateInv, TypeOK, vars
<1> QED
  BY <1>1, <1>2, <1>3, <1>4, <1>5, <1>6, <1>7, <1>8, <1>9, <1>10, <1>11, <1>12
  DEF Next, Environment, Gone

----------------------------------------------------------------------------
(* The theorems. *)

\* The invariant holds initially ...
LEMMA LossInit == Init => LossInv
<1> SUFFICES ASSUME Init PROVE LossInv
  OBVIOUS
<1>1. IndInv
  BY InitInv
<1>2. Reported = {}
  BY DEF Init, Reported
<1>3. Cardinality({}) = 0
  BY FS_EmptySet
<1>4. HeaderInv
  BY <1>3 DEF Init, HeaderInv
<1>5. LostInv /\ CopyInv /\ StatusInv /\ FateInv
  BY <1>2 DEF Init, LostInv, CopyInv, StatusInv, FateInv
<1> QED
  BY <1>1, <1>4, <1>5 DEF LossInv

\* ... and every step keeps it.
LEMMA LossInductive == LossInv /\ [Next]_vars => LossInv'
<1> SUFFICES ASSUME LossInv, [Next]_vars PROVE LossInv'
  OBVIOUS
<1>1. IndInv'
  BY TypeStep, LockStep, WakeupStep, LocalStep, IrpStep, BufferStep, UnloadInvStep
  DEF LossInv, IndInv
<1>2. HeaderInv' /\ LostInv' /\ CopyInv' /\ StatusInv' /\ FateInv'
  BY HeaderStep, LostStep, CopyStep, StatusStep, FateStep
<1> QED
  BY <1>1, <1>2 DEF LossInv

\* It is an invariant.
LEMMA LossInvariant == Spec => []LossInv
BY LossInit, LossInductive, PTL DEF Spec

\* Every loss is counted by exactly one of DROP_COUNT and the headers, and no event
\* that is counted as lost is queued or reaches the agent.
THEOREM LossesAreCountedOnce == Spec => []LossesCountedOnce
<1>1. LossInv => LossesCountedOnce
  <2> SUFFICES ASSUME LossInv PROVE LossesCountedOnce
    OBVIOUS
  <2> USE DEF LossInv, IndInv
  <2>1. ASSUME NEW e \in Reported
        PROVE  /\ \A k \in DOMAIN queue : queue[k] # e
               /\ \A i \in Irps : sysbuf[i] # e
    <3>1. e \in Events /\ e # NULL /\ pool[e] # "live"
      BY <2>1, ThreadsAssumption DEF Reported, TypeOK, LostInv
    <3>2. e \notin Elements(queue)
      BY <3>1 DEF BufferInv, Owned, Owners
    <3> QED
      BY <2>1, <3>1, <3>2 DEF Elements, CopyInv
  <2> QED
    BY <2>1 DEF HeaderInv, LossesCountedOnce
<1> QED
  BY <1>1, LossInvariant, PTL

\* An event whose callback has returned is queued, in the hands of a request,
\* delivered, counted as lost, or was drained by driver_unload.
THEOREM NoEventVanishes == Spec => []NoSilentLoss
<1>1. LossInv => NoSilentLoss
  <2> SUFFICES ASSUME LossInv, NEW e \in Events, Returned(e)
               PROVE  \/ \E k \in DOMAIN queue : queue[k] = e
                      \/ \E i \in Irps : slot[i] = e /\ ipc[i] = "popped"
                      \/ \E i \in Irps : sysbuf[i] = e /\ io[i] = "done" /\ status[i] = "SUCCESS"
                      \/ e \in Reported
                      \/ upc \in {"draining", "unloaded"}
    BY DEF NoSilentLoss
  <2> USE DEF LossInv, IndInv
  <2>1. CASE epc[e] = "oom"
    BY <2>1 DEF LostInv
  <2>2. CASE epc[e] = "returned" /\ pool[e] = "freed"
    <3>1. ASSUME NEW i \in Irps, sysbuf[i] = e
          PROVE  io[i] = "done" /\ status[i] = "SUCCESS"
      BY <2>2, <3>1, ThreadsAssumption DEF CopyInv, Copied
    <3> QED
      BY <2>2, <3>1 DEF FateInv
  <2>3. CASE epc[e] = "returned" /\ pool[e] = "live"
    <3>1. PICK h \in Owners : Owned(h, e)
      BY <2>3 DEF BufferInv
    <3>2. ~CallbackOwns(e)
      BY <2>3 DEF CallbackOwns
    <3> QED
      BY <3>1, <3>2 DEF Owned, Elements, RequestOwns
  <2>4. epc[e] = "returned" => pool[e] \in {"live", "freed"}
    BY DEF TypeOK, BufferInv
  <2> QED
    BY <2>1, <2>2, <2>3, <2>4 DEF Returned
<1> QED
  BY <1>1, LossInvariant, PTL

\* What complete_irp tells the agent is right, on each of the paths that complete a
\* request, and no event is given to two requests.
THEOREM AnswersAreCorrect == Spec => []AnswersCorrect
<1>1. LossInv => AnswersCorrect
  <2> SUFFICES ASSUME LossInv PROVE AnswersCorrect
    OBVIOUS
  <2> USE DEF LossInv, IndInv
  <2>1. ASSUME NEW i \in Irps, io[i] = "done", sysbuf[i] # NULL
        PROVE  /\ status[i] = "SUCCESS" /\ info[i] = size[sysbuf[i]] /\ info[i] <= outlen[i]
    <3>1. PICK e \in Events : e = sysbuf[i] /\ Copied(i, e)
      BY <2>1 DEF CopyInv, TypeOK
    <3>2. ~(epc[e] = "delivering" /\ taken[e] = i)
      BY <2>1, <3>1, CallbackIrp
    <3>3. size[e] \in Nat /\ outlen[i] \in Nat
      BY LengthsNat
    <3> QED
      BY <3>1, <3>2, <3>3 DEF Copied, Fits
  <2> QED
    BY <2>1 DEF AnswersCorrect, StatusInv, CopyInv
<1> QED
  BY <1>1, LossInvariant, PTL
=============================================================================
