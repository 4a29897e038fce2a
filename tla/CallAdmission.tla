--------------------------- MODULE CallAdmission ---------------------------
(***************************************************************************)
(* How a voice call gets in: POST /voice_followup/calls reserves a room    *)
(* under a one-time stream_id that lives PendingTTL ticks (calls.py), and  *)
(* the WebSocket handler `serve` (stream.py) checks a connecting bridge,   *)
(* consumes the reservation and takes one of MaxCalls slots.               *)
(*                                                                         *)
(* Everything runs on one asyncio loop, so each action below is the code   *)
(* between two awaits.  uuid4 values are members of Ids, each handed out   *)
(* at most once; the room of a reservation is named by its stream_id.      *)
(***************************************************************************)
EXTENDS Integers, FiniteSets

CONSTANTS
  Ids,          \* uuid4 values the run may draw
  Bridges,      \* WebSocket connections of the WhatsApp bridge
  Requests,     \* CallRequest bodies
  MaxPending,   \* _MAX_PENDING
  PendingTTL,   \* _PENDING_TTL, in clock ticks
  MaxCalls,     \* settings.voice_stream_max_calls
  MaxClock,     \* bound of the run: the clock stops here
  NoId          \* "no stream_id", "no room"

ASSUME AdmissionAssumption ==
  /\ IsFiniteSet(Bridges)
  /\ NoId \notin Ids
  /\ MaxPending \in Nat \ {0}
  /\ PendingTTL \in Nat \ {0}
  /\ MaxCalls \in Nat \ {0}
  /\ MaxClock \in Nat

VARIABLES
  clock,        \* time.monotonic()
  drawn,        \* uuid4 values already used
  pending,      \* _pending: records [id, expires, request]
  ready,        \* LLM, TTS and STT all pass the readiness checks of serve
  conn,         \* per bridge: a ConnState
  room,         \* per bridge: the room of its running call, or NoId
  active,       \* _active_calls
  \* observation only
  admitted,     \* records [room, reserved, request] of every call that ran
  asked         \* records [id, request] of every reservation ever made

vars == <<clock, drawn, pending, ready, conn, room, active, admitted, asked>>
bridgeVars == <<conn, room, active, admitted>>

\* Waiting for the start message, running a call, or closed: over or never started
\* ("closed"), an invalid start message (4422, "invalid"), busy or not ready (4429 and
\* 1013, "refused").
ConnState == {"opened", "running", "closed", "invalid", "refused"}

Reservation == [id : Ids, expires : Nat, request : Requests]
Running == {b \in Bridges : conn[b] = "running"}

TypeOK ==
  /\ clock \in Nat
  /\ drawn \subseteq Ids
  /\ pending \subseteq Reservation
  /\ ready \in BOOLEAN
  /\ conn \in [Bridges -> ConnState]
  /\ room \in [Bridges -> Ids \cup {NoId}]
  /\ active \in Nat
  /\ admitted \subseteq [room : Ids, reserved : BOOLEAN, request : Requests]
  /\ asked \subseteq [id : Ids, request : Requests]

Init ==
  /\ clock = 0
  /\ drawn = {}
  /\ pending = {}
  /\ ready \in BOOLEAN
  /\ conn = [b \in Bridges |-> "closed"]
  /\ room = [b \in Bridges |-> NoId]
  /\ active = 0
  /\ admitted = {}
  /\ asked = {}

-----------------------------------------------------------------------------
(* calls.py *)

LiveTooShort(reservations) ==  \* mutant: off by one tick
  {r \in reservations : r.expires > clock + 1}
\* _prune_pending: drop what has expired by now.
Live(reservations) == {r \in reservations : r.expires > clock}

TableFullLate == Cardinality(Live(pending)) > MaxPending  \* mutant: off by one
TableFull == Cardinality(Live(pending)) >= MaxPending

\* start_call with room for one more: prune, then reserve under a fresh id.
StartCall(id, request) ==
  /\ id \notin drawn
  /\ ~TableFull
  /\ drawn' = drawn \cup {id}
  /\ pending' = Live(pending) \cup
                  {[id |-> id, expires |-> clock + PendingTTL, request |-> request]}
  /\ asked' = asked \cup {[id |-> id, request |-> request]}
  /\ UNCHANGED <<clock, ready, bridgeVars>>

\* start_call at the limit: the prune stays, the caller gets a 502.
StartCallRefused ==
  /\ TableFull
  /\ pending' = Live(pending)
  /\ UNCHANGED <<clock, drawn, ready, asked, bridgeVars>>

MatchesId(r, id, request) == r.id = id  \* mutant: the body is not compared
\* The reservation consume_stream_id accepts for this start message.
Matches(r, id, request) == r.id = id /\ r.request = request

-----------------------------------------------------------------------------
(* serve *)

\* ws.accept() and a valid API key: the handler waits for the start message.
Open(b) ==
  /\ conn[b] \notin {"opened", "running"}
  /\ conn' = [conn EXCEPT ![b] = "opened"]
  /\ UNCHANGED <<clock, drawn, pending, ready, room, active, admitted, asked>>

\* Disconnect before start, the 15 s start timeout, or a start message that does
\* not validate before its stream_id is looked at.
OpenFails(b) ==
  /\ conn[b] = "opened"
  /\ \E state \in {"closed", "invalid"} : conn' = [conn EXCEPT ![b] = state]
  /\ UNCHANGED <<clock, drawn, pending, ready, room, active, admitted, asked>>

\* consume_stream_id raises: the prune stays, nothing else changes.
StreamIdRefused(b, id, request) ==
  /\ conn[b] = "opened"
  /\ ~\E r \in Live(pending) : Matches(r, id, request)
  /\ pending' = Live(pending)
  /\ conn' = [conn EXCEPT ![b] = "invalid"]
  /\ UNCHANGED <<clock, drawn, ready, room, active, admitted, asked>>

Keep(id) == Live(pending)  \* mutant: a reservation is not consumed
Without(id) == {r \in Live(pending) : r.id # id}

\* What the reservations become when the start message passes validation: with a
\* stream_id one is consumed, without one _pending is not touched.
Consume(id, request) ==
  IF id = NoId
  THEN pending' = pending
  ELSE /\ \E r \in Live(pending) : Matches(r, id, request)
       /\ pending' = Without(id)

HasSlotLate == active <= MaxCalls  \* mutant: off by one
HasSlot == active < MaxCalls

\* Mutant: the finally block that gives a slot back also covers the rejections.
RejectedReleases(b, id, request) ==
  /\ conn[b] = "opened"
  /\ Consume(id, request)
  /\ ~HasSlot \/ ~ready
  /\ conn' = [conn EXCEPT ![b] = "refused"]
  /\ active' = active - 1
  /\ UNCHANGED <<clock, drawn, ready, room, admitted, asked>>

\* Busy, or a model is not ready.  The reservation is already consumed.
Rejected(b, id, request) ==
  /\ conn[b] = "opened"
  /\ Consume(id, request)
  /\ ~HasSlot \/ ~ready
  /\ conn' = [conn EXCEPT ![b] = "refused"]
  /\ UNCHANGED <<clock, drawn, ready, room, active, admitted, asked>>

\* The slot is taken with no await after the check, and StreamCall gets the reserved
\* room or a fresh one.
Admit(b, id, request) ==
  /\ conn[b] = "opened"
  /\ Consume(id, request)
  /\ HasSlot /\ ready
  /\ active' = active + 1
  /\ conn' = [conn EXCEPT ![b] = "running"]
  /\ \E name \in Ids :
       /\ IF id = NoId THEN name \notin drawn ELSE name = id
       /\ drawn' = drawn \cup {name}
       /\ room' = [room EXCEPT ![b] = name]
       /\ admitted' = admitted \cup
            {[room |-> name, reserved |-> id # NoId, request |-> request]}
  /\ UNCHANGED <<clock, ready, asked>>

\* call.run() returned or raised: the finally block gives the slot back.
CallOver(b) ==
  /\ conn[b] = "running"
  /\ conn' = [conn EXCEPT ![b] = "closed"]
  /\ active' = active - 1
  /\ room' = [room EXCEPT ![b] = NoId]
  /\ UNCHANGED <<clock, drawn, pending, ready, admitted, asked>>

-----------------------------------------------------------------------------
(* environment *)

Tick ==
  /\ clock < MaxClock
  /\ clock' = clock + 1
  /\ UNCHANGED <<drawn, pending, ready, asked, bridgeVars>>

\* The engine's readiness poller or a model load changes what serve will see.
ReadinessFlips ==
  /\ ready' = ~ready
  /\ UNCHANGED <<clock, drawn, pending, asked, bridgeVars>>

Next ==
  \/ \E id \in Ids, q \in Requests : StartCall(id, q)
  \/ StartCallRefused
  \/ \E b \in Bridges : Open(b) \/ OpenFails(b) \/ CallOver(b)
  \/ \E b \in Bridges, id \in Ids, q \in Requests : StreamIdRefused(b, id, q)
  \/ \E b \in Bridges, id \in Ids \cup {NoId}, q \in Requests :
       Rejected(b, id, q) \/ Admit(b, id, q)
  \/ Tick
  \/ ReadinessFlips

Spec == Init /\ [][Next]_vars

-----------------------------------------------------------------------------
(* Properties *)

\* `_active_calls` counts the calls that are running, no more and no fewer: a leaked slot
\* would refuse calls forever, a slot returned twice would overload the GPU (stream.py
\* 921-930).
SlotsExact == active = Cardinality(Running)

\* The concurrency limit holds whatever bridges connect at the same time: no await sits
\* between the check and the increment (stream.py 896-921).
LimitHolds == Cardinality(Running) <= MaxCalls

\* No two calls ever write the same room's outcome: rooms of running calls differ.
RoomsExclusive ==
  \A b, c \in Running : room[b] = room[c] => b = c

\* A stream_id opens at most one call, with exactly the body it was reserved for: it is
\* never reused after a call, a rejection or its expiry (calls.py 17-23).
ReservedBodyRuns ==
  /\ \A a \in admitted : a.reserved => [id |-> a.room, request |-> a.request] \in asked
  /\ \A a, c \in admitted : a.room = c.room => a = c
  /\ \A a \in admitted, r \in pending : a.room # r.id

\* The table of reservations keeps its bound although it is pruned only when somebody
\* reserves or connects (calls.py 62-68).
PendingBounded == Cardinality(pending) <= MaxPending

\* A reservation disappears only because it expired, because it became a running call,
\* or because its bridge was turned away as busy or not ready; a start message with a
\* wrong stream_id or another body burns nothing (calls.py 17-23, stream.py 884-920).
ReservationsNotLost ==
  [][\A r \in pending \ pending' :
       \/ r.expires <= clock
       \/ \E b \in Bridges :
            /\ conn[b] = "opened"
            /\ conn'[b] = "refused" \/ (conn'[b] = "running" /\ room'[b] = r.id)]_vars
============================================================================
