----------------------------- MODULE EventQueue -----------------------------
(***************************************************************************)
(* What the event queue promises its callers, with no array and no         *)
(* indices: a bounded FIFO of event slots that never refuses an event.     *)
(* When it is full the oldest event makes room and the loss is counted.    *)
(* Module Ring implements this specification.                              *)
(***************************************************************************)
EXTENDS Naturals, Sequences

CONSTANTS
  Slots,      \* the event slots (buffer and size) a caller may push
  QUEUE_CAP,  \* the most events kept
  DROP_MOD,   \* the loss counter counts modulo this number
  None        \* what a pop of the empty queue returns

VARIABLES
  queue,      \* the events kept, oldest first
  lost,       \* losses since the last report, modulo DROP_MOD
  popped      \* what the last pop returned

vars == <<queue, lost, popped>>

Init ==
  /\ queue = << >>
  /\ lost = 0
  /\ popped = None

\* An event is kept; if there is no room, the oldest one goes and is counted.
Push(s) ==
  /\ IF Len(queue) = QUEUE_CAP
       THEN /\ queue' = Append(Tail(queue), s)
            /\ lost' = (lost + 1) % DROP_MOD
       ELSE /\ queue' = Append(queue, s)
            /\ UNCHANGED lost
  /\ UNCHANGED popped

\* The oldest event is handed over, or the caller learns there is none.
Pop ==
  /\ IF queue = << >>
       THEN /\ popped' = None
            /\ UNCHANGED queue
       ELSE /\ popped' = Head(queue)
            /\ queue' = Tail(queue)
  /\ UNCHANGED lost

\* An event is lost before it reaches the queue.
Lose ==
  /\ lost' = (lost + 1) % DROP_MOD
  /\ UNCHANGED <<queue, popped>>

\* The losses are read and the counter starts again from zero.
Report ==
  /\ lost' = 0
  /\ UNCHANGED <<queue, popped>>

Next ==
  \/ \E s \in Slots : Push(s)
  \/ Pop
  \/ Lose
  \/ Report

Spec == Init /\ [][Next]_vars
=============================================================================
