------------------------------ MODULE EventFeed ------------------------------
(***************************************************************************)
(* The event feed: rows of domain_event, written inside the transactions   *)
(* of the services, and the websocket loop that sends them to one client   *)
(* in the order of their ids.                                              *)
(*                                                                         *)
(* A row takes its id when it is inserted and is seen when its transaction *)
(* commits, so ids do not become visible in order.                         *)
(***************************************************************************)
EXTENDS Naturals, Sequences, FiniteSets, FiniteSetsExt, SequencesExt

CONSTANTS
  MaxEvents,   \* bound on the ids that are allocated
  PageLimit    \* the LIMIT of events_after

ASSUME FeedAssumption == MaxEvents \in Nat /\ PageLimit \in Nat \ {0}

VARIABLES
  event,       \* by id: "none", "pending", "visible", or "hidden" from this
               \* client (rolled back, or for another audience)
  socket       \* the connection of the client and the loop that serves it

feedVars == <<event, socket>>

Ids == 1 .. MaxEvents
Visible == {e \in Ids : event[e] = "visible"}

\* sent is the loop's cursor and page what is left of its last query.
Closed == [state |-> "closed", sent |-> 0, page |-> <<>>]

FeedInit == event = [e \in Ids |-> "none"] /\ socket = Closed
-----------------------------------------------------------------------------
\* emit_event: bigserial gives the next id, in a transaction still open.
Emit ==
  \E e \in Ids :
    /\ event[e] = "none" /\ \A f \in 1 .. e - 1 : event[f] # "none"
    /\ event' = [event EXCEPT ![e] = "pending"]
    /\ UNCHANGED socket

\* The transaction that inserted e ends.
EndOf(e) ==
  /\ event[e] = "pending"
  /\ \E s \in {"visible", "hidden"} : event' = [event EXCEPT ![e] = s]
  /\ UNCHANGED socket

\* The client opens a socket: /ws?after=...
Opening(after) == [Closed EXCEPT !.state = "connecting", !.sent = after]

\* Mutant: events_after without its ORDER BY.
AfterUnordered(cursor) ==
  SetToSeqs({e \in Visible : e > cursor})

\* Mutant: the query begins after the next id.
AfterNext(cursor) == SetToSeqs({e \in Visible : e > cursor + 1})

\* events_after: the rows beyond the cursor, in order.
After(cursor) ==
  {rows \in SetToSeqs({e \in Visible : e > cursor}) :
     \A i, j \in DOMAIN rows : i < j => rows[i] < rows[j]}

\* The loop's query, when the last page has been sent.
Fetch ==
  /\ socket.state = "open" /\ socket.page = <<>>
  /\ \E rows \in After(socket.sent) :
       /\ rows # <<>>
       /\ socket' = [socket EXCEPT
            !.page = SubSeq(rows, 1, Min({PageLimit, Len(rows)}))]
  /\ UNCHANGED event

\* cursor = event["id"]; await websocket.send_json(...): the loop's side of a
\* message.  What is on the wire when a connection ends is as if never sent,
\* because the client then asks again from what it has received.
Sending(e) ==
  /\ socket.state = "open" /\ socket.page # <<>> /\ e = Head(socket.page)
  /\ socket' = [socket EXCEPT !.sent = e, !.page = Tail(@)]

\* What the loop has read or sent from e on leaves nothing out.
Settled(e) == \A f \in 1 .. e : event[f] \in {"visible", "hidden"}

ServerStep == Emit \/ Fetch \/ \E e \in Ids : EndOf(e)
=============================================================================
