-------------------------------- MODULE Ring --------------------------------
(***************************************************************************)
(* The event ring of src/queue/ring.rs: a fixed array of slots with a head *)
(* index, a tail index and a length, pushed to and popped from by callers  *)
(* that hold QUEUE_LOCK, so that every operation below is one step.  The   *)
(* array starts uninitialised (MaybeUninit) and popped slots are never     *)
(* cleared: only the indices say which slots may be read.                  *)
(*                                                                         *)
(* A slot points at a pool buffer.  The pool recycles buffers, so the same *)
(* address comes back in later events while stale copies of it still sit   *)
(* in the array.  The pool records who owns each buffer: nobody ("free"),  *)
(* the callback that allocated it ("held"), the ring ("queued"), or the    *)
(* request that popped it ("popped"); freeing a free buffer corrupts it.   *)
(***************************************************************************)
EXTENDS Integers, Sequences

CONSTANTS
  Buffers,    \* the addresses ExAllocatePool2 can return
  Sizes,      \* the event sizes
  QUEUE_CAP,  \* slots in the array; 4096 in the driver
  DROP_MOD,   \* the counter's modulus; 2^32 in the driver
  None,       \* Option::None
  UNINIT      \* the content of a slot nobody has written

ASSUME CapAssumption == QUEUE_CAP \in Nat \ {0}
ASSUME ModAssumption == DROP_MOD \in Nat \ {0}

VARIABLES
  QUEUE_BUF,   \* the array, indexed from 0
  QUEUE_HEAD,  \* index of the oldest event
  QUEUE_TAIL,  \* index the next event is written to
  QUEUE_LEN,   \* how many events are queued
  DROP_COUNT,  \* losses not reported yet
  pool,        \* who owns each buffer
  result       \* what the last queue_pop_locked returned

vars == <<QUEUE_BUF, QUEUE_HEAD, QUEUE_TAIL, QUEUE_LEN, DROP_COUNT, pool, result>>

Slot == [data : Buffers, size : Sizes]

Index == 0 .. QUEUE_CAP - 1

Init ==
  /\ QUEUE_BUF = [i \in Index |-> UNINIT]
  /\ QUEUE_HEAD = 0
  /\ QUEUE_TAIL = 0
  /\ QUEUE_LEN = 0
  /\ DROP_COUNT = 0
  /\ pool = [b \in Buffers |-> "free"]
  /\ result = None

----------------------------------------------------------------------------
(* The operations. *)

\* Mutant: the index does not wrap.
SuccNoWrap(i) == i + 1

\* The index after i in the array.
Succ(i) == (i + 1) % QUEUE_CAP

\* fetch_add wraps.
Counted == (DROP_COUNT + 1) % DROP_MOD

\* ExFreePool: the buffer must be owned by somebody.
FreeFrom(p, b) == [p EXCEPT ![b] = IF @ = "free" THEN "corrupt" ELSE "free"]

\* alloc_event: the pool hands out a buffer nobody owns ...
AllocEvent(b) ==
  /\ pool[b] = "free"
  /\ pool' = [pool EXCEPT ![b] = "held"]
  /\ UNCHANGED <<QUEUE_BUF, QUEUE_HEAD, QUEUE_TAIL, QUEUE_LEN, DROP_COUNT, result>>

\* ... or it has none to give, and the event is counted as lost.
AllocFail ==
  /\ DROP_COUNT' = Counted
  /\ UNCHANGED <<QUEUE_BUF, QUEUE_HEAD, QUEUE_TAIL, QUEUE_LEN, pool, result>>

\* make_header: the counter is swapped with zero.
MakeHeader(b) ==
  /\ pool[b] = "held"
  /\ DROP_COUNT' = 0
  /\ UNCHANGED <<QUEUE_BUF, QUEUE_HEAD, QUEUE_TAIL, QUEUE_LEN, pool, result>>

\* Mutant: the head does not move.
EvictForgettingHead(s) ==
  LET old == QUEUE_BUF[QUEUE_HEAD]
      evicted == FreeFrom(pool, old.data)
  IN /\ QUEUE_HEAD' = QUEUE_HEAD
     /\ QUEUE_LEN' = QUEUE_LEN
     /\ DROP_COUNT' = Counted
     /\ pool' = [evicted EXCEPT ![s.data] = "queued"]

\* Mutant: the loss is not counted.
EvictUncounted(s) ==
  LET old == QUEUE_BUF[QUEUE_HEAD]
      evicted == FreeFrom(pool, old.data)
  IN /\ QUEUE_HEAD' = Succ(QUEUE_HEAD)
     /\ QUEUE_LEN' = QUEUE_LEN
     /\ DROP_COUNT' = DROP_COUNT
     /\ pool' = [evicted EXCEPT ![s.data] = "queued"]

\* The eviction of queue_push_locked: free the oldest event, advance the head.
EvictOldest(s) ==
  LET old == QUEUE_BUF[QUEUE_HEAD]
      evicted == FreeFrom(pool, old.data)
  IN /\ QUEUE_HEAD' = Succ(QUEUE_HEAD)
     /\ QUEUE_LEN' = (QUEUE_LEN - 1) + 1
     /\ DROP_COUNT' = Counted
     /\ pool' = [evicted EXCEPT ![s.data] = "queued"]

\* Mutant: the write lands one slot ahead.
WriteIndexAhead == Succ(QUEUE_TAIL)

\* Where the new event goes.
WriteIndex == QUEUE_TAIL

\* queue_push_locked: evict if full, then write at the tail and advance it.
queue_push_locked(s) ==
  /\ pool[s.data] = "held"
  /\ \/ /\ QUEUE_LEN = QUEUE_CAP
        /\ EvictOldest(s)
     \/ /\ QUEUE_LEN # QUEUE_CAP
        /\ QUEUE_LEN' = QUEUE_LEN + 1
        /\ pool' = [pool EXCEPT ![s.data] = "queued"]
        /\ UNCHANGED <<QUEUE_HEAD, DROP_COUNT>>
  /\ QUEUE_BUF' = [QUEUE_BUF EXCEPT ![WriteIndex] = s]
  /\ QUEUE_TAIL' = Succ(QUEUE_TAIL)
  /\ UNCHANGED result

PopEmpty ==
  /\ QUEUE_LEN = 0
  /\ result' = None
  /\ UNCHANGED <<QUEUE_BUF, QUEUE_HEAD, QUEUE_TAIL, QUEUE_LEN, DROP_COUNT, pool>>

\* The slot at the head now belongs to the caller.
PopTake ==
  LET s == QUEUE_BUF[QUEUE_HEAD]
  IN /\ QUEUE_LEN # 0
     /\ result' = s
     /\ pool' = [pool EXCEPT ![s.data] = "popped"]
     /\ QUEUE_HEAD' = Succ(QUEUE_HEAD)
     /\ QUEUE_LEN' = QUEUE_LEN - 1
     /\ UNCHANGED <<QUEUE_BUF, QUEUE_TAIL, DROP_COUNT>>

\* queue_pop_locked
queue_pop_locked == PopEmpty \/ PopTake

\* The request that popped the event frees it once it has copied it out.
FreePopped(b) ==
  /\ pool[b] = "popped"
  /\ pool' = FreeFrom(pool, b)
  /\ UNCHANGED <<QUEUE_BUF, QUEUE_HEAD, QUEUE_TAIL, QUEUE_LEN, DROP_COUNT, result>>

Next ==
  \/ \E b \in Buffers : AllocEvent(b) \/ MakeHeader(b) \/ FreePopped(b)
  \/ AllocFail
  \/ \E s \in Slot : queue_push_locked(s)
  \/ queue_pop_locked

Spec == Init /\ [][Next]_vars

----------------------------------------------------------------------------
(* Properties. *)

\* The index k slots after index h, and that of the k-th oldest event.
Pos(h, k) == (h + k) % QUEUE_CAP
At(k) == Pos(QUEUE_HEAD, k)

\* The type invariant: the three words stay in range, every slot holds a slot
\* or nothing, and no buffer is ever freed twice.
TypeOK ==
  /\ QUEUE_BUF \in [Index -> Slot \cup {UNINIT}]
  /\ QUEUE_HEAD \in Index
  /\ QUEUE_TAIL \in Index
  /\ QUEUE_LEN \in 0 .. QUEUE_CAP
  /\ DROP_COUNT \in 0 .. DROP_MOD - 1
  /\ pool \in [Buffers -> {"free", "held", "queued", "popped"}]
  /\ result \in Slot \cup {None}

\* The tail is always QUEUE_LEN slots after the head: the code keeps three words
\* where two would do, and push and pop each update them differently.
Window == QUEUE_TAIL = At(QUEUE_LEN)

\* The slots the indices select are exactly the queued buffers, each one once:
\* no event in the ring is uninitialised, freed, or in the ring twice, whatever
\* stale copies the rest of the array holds.
Ownership ==
  /\ \A k \in 0 .. QUEUE_LEN - 1 :
       /\ QUEUE_BUF[At(k)] \in Slot
       /\ pool[QUEUE_BUF[At(k)].data] = "queued"
  /\ \A j, k \in 0 .. QUEUE_LEN - 1 :
       QUEUE_BUF[At(j)].data = QUEUE_BUF[At(k)].data => j = k
  /\ \A b \in Buffers : pool[b] = "queued" =>
       \E k \in 0 .. QUEUE_LEN - 1 : QUEUE_BUF[At(k)].data = b

\* The events in the ring, oldest first.
Contents == [k \in 1 .. QUEUE_LEN |-> QUEUE_BUF[At(k - 1)]]

Abstract == INSTANCE EventQueue WITH
  Slots <- Slot, queue <- Contents, lost <- DROP_COUNT, popped <- result

\* The ring with its wrapping indices is the bounded drop-oldest FIFO of module
\* EventQueue: order, eviction, the loss count and what a pop returns.
ImplementsEventQueue == Abstract!Spec
=============================================================================
