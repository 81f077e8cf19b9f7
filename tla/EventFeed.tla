------------------------------ MODULE EventFeed ------------------------------
(***************************************************************************)
(* What the driver promises the agent, with no lock, no buffers and no     *)
(* threads: a bounded feed of events, handed to requests in the order the  *)
(* events were published.  A request takes the oldest event; on an empty   *)
(* feed it waits, one request at a time, and the next event goes straight  *)
(* to it.  Every request gets at most one answer and every event goes to   *)
(* at most one request.                                                    *)
(***************************************************************************)
EXTENDS Naturals, Sequences

CONSTANTS
  Events,
  Requests,
  QUEUE_CAP,
  NoRequest

VARIABLES
  published,  \* the events published so far
  feed,       \* the events kept for later, oldest first
  waiting,    \* the request that waits, or NoRequest
  answer      \* request r: "none", an event, or why there is no event

vars == <<published, feed, waiting, answer>>

Init ==
  /\ published = {}
  /\ feed = << >>
  /\ waiting = NoRequest
  /\ answer = [r \in Requests |-> "none"]

\* A request that has neither been answered nor been left waiting.
Fresh(r) == answer[r] = "none" /\ waiting # r

\* The event, or "short" if the request has no room for it: then it is lost.
Give(r, e) == answer' = [answer EXCEPT ![r] = e] \/ answer' = [answer EXCEPT ![r] = "short"]

\* Nobody waits: the event is kept, and the oldest one makes room if need be.
Publish(e) ==
  /\ e \notin published
  /\ waiting = NoRequest
  /\ published' = published \cup {e}
  /\ feed' = Append(IF Len(feed) = QUEUE_CAP THEN Tail(feed) ELSE feed, e)
  /\ UNCHANGED <<waiting, answer>>

\* Somebody waits: the event goes to that request.
Serve(e) ==
  /\ e \notin published
  /\ waiting # NoRequest
  /\ published' = published \cup {e}
  /\ Give(waiting, e)
  /\ waiting' = NoRequest
  /\ UNCHANGED feed

Take(r) ==
  /\ Fresh(r)
  /\ feed # << >>
  /\ Give(r, Head(feed))
  /\ feed' = Tail(feed)
  /\ UNCHANGED <<published, waiting>>

Wait(r) ==
  /\ Fresh(r)
  /\ feed = << >>
  /\ waiting = NoRequest
  /\ waiting' = r
  /\ UNCHANGED <<published, feed, answer>>

\* Only one request may wait.
Refuse(r) ==
  /\ Fresh(r)
  /\ feed = << >>
  /\ waiting # NoRequest
  /\ answer' = [answer EXCEPT ![r] = "refused"]
  /\ UNCHANGED <<published, feed, waiting>>

Reject(r) ==
  /\ Fresh(r)
  /\ answer' = [answer EXCEPT ![r] = "invalid"]
  /\ UNCHANGED <<published, feed, waiting>>

Cancel ==
  /\ waiting # NoRequest
  /\ answer' = [answer EXCEPT ![waiting] = "cancelled"]
  /\ waiting' = NoRequest
  /\ UNCHANGED <<published, feed>>

\* The driver goes away with events nobody asked for.
Discard ==
  /\ feed # << >>
  /\ waiting = NoRequest
  /\ feed' = Tail(feed)
  /\ UNCHANGED <<published, waiting, answer>>

Next ==
  \/ \E e \in Events : Publish(e) \/ Serve(e)
  \/ \E r \in Requests : Take(r) \/ Wait(r) \/ Refuse(r) \/ Reject(r)
  \/ Cancel
  \/ Discard

Spec == Init /\ [][Next]_vars
=============================================================================
