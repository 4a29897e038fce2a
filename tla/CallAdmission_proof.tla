------------------------ MODULE CallAdmission_proof ------------------------
(***************************************************************************)
(* Proofs about CallAdmission, for any number of bridges, reservations and *)
(* slots and any finite or infinite set of uuid4 values.                   *)
(*                                                                         *)
(* TypeOK and SlotsExact are inductive together.  LimitHolds follows from  *)
(* them and the limit on the counter, which only Admit raises.  The rooms  *)
(* need RoomsInv: every id in use anywhere was drawn, and the three uses   *)
(* of an id (reserved, running, ever admitted) exclude each other.         *)
(***************************************************************************)
EXTENDS CallAdmission, FiniteSetTheorems, TLAPS

\* The variables keep their types: in particular the count of active calls never
\* becomes negative, because a slot is given back only by a call that has one (stream.py
\* 921-930).  The guard of CallOver alone does not say that, so SlotsExact is part of the
\* invariant.
CountInv == TypeOK /\ SlotsExact

LEMMA RunningFinite == ASSUME TypeOK PROVE IsFiniteSet(Running)
  BY AdmissionAssumption, FS_Subset DEF Running

\* Nobody's call starts or ends: the running calls stay the same.
LEMMA RunningUnchanged ==
  ASSUME NEW b \in Bridges, NEW state \in ConnState \ {"running"}, TypeOK,
         conn[b] # "running", conn' = [conn EXCEPT ![b] = state]
  PROVE  Running' = Running
  BY DEF Running, TypeOK, ConnState

LEMMA CountInit == Init => CountInv
<1> SUFFICES ASSUME Init PROVE CountInv
  OBVIOUS
<1>1. TypeOK
  BY DEF Init, TypeOK, ConnState, Reservation
<1>2. Running = {}
  BY DEF Init, Running
<1>3. SlotsExact
  BY <1>2, FS_EmptySet DEF Init, SlotsExact
<1> QED BY <1>1, <1>3 DEF CountInv

LEMMA CountStep == CountInv /\ [Next]_vars => CountInv'
<1> SUFFICES ASSUME TypeOK, SlotsExact, [Next]_vars PROVE TypeOK' /\ SlotsExact'
  BY DEF CountInv
<1> USE AdmissionAssumption
<1>1. ASSUME NEW id \in Ids, NEW q \in Requests, StartCall(id, q)
      PROVE  TypeOK' /\ SlotsExact'
  <2>1. [id |-> id, expires |-> clock + PendingTTL, request |-> q] \in Reservation
    BY DEF TypeOK, Reservation
  <2>2. TypeOK'
    BY <1>1, <2>1 DEF StartCall, TypeOK, Live, bridgeVars
  <2>3. Running' = Running /\ active' = active
    BY <1>1 DEF StartCall, Running, bridgeVars
  <2> QED BY <2>2, <2>3 DEF SlotsExact
<1>2. CASE StartCallRefused
  <2>1. TypeOK'
    BY <1>2 DEF StartCallRefused, TypeOK, Live, bridgeVars
  <2>2. Running' = Running /\ active' = active
    BY <1>2 DEF StartCallRefused, Running, bridgeVars
  <2> QED BY <2>1, <2>2 DEF SlotsExact
<1>3. ASSUME NEW b \in Bridges, Open(b) PROVE TypeOK' /\ SlotsExact'
  <2>1. TypeOK'
    BY <1>3 DEF Open, TypeOK, ConnState
  <2>2. Running' = Running
    BY <1>3, RunningUnchanged DEF Open, ConnState
  <2> QED BY <1>3, <2>1, <2>2 DEF Open, SlotsExact
<1>4. ASSUME NEW b \in Bridges, OpenFails(b) PROVE TypeOK' /\ SlotsExact'
  <2>1. TypeOK'
    BY <1>4 DEF OpenFails, TypeOK, ConnState
  <2>2. Running' = Running
    BY <1>4, RunningUnchanged DEF OpenFails, ConnState
  <2> QED BY <1>4, <2>1, <2>2 DEF OpenFails, SlotsExact
<1>5. ASSUME NEW b \in Bridges, CallOver(b) PROVE TypeOK' /\ SlotsExact'
  <2>1. Running' = Running \ {b} /\ b \in Running
    BY <1>5 DEF CallOver, Running, TypeOK
  <2>2. Cardinality(Running \ {b}) = Cardinality(Running) - 1
    BY <2>1, RunningFinite, FS_RemoveElement
  <2>3. SlotsExact' /\ active' \in Nat
    <3>1. Cardinality(Running') \in Nat
      BY <2>1, RunningFinite, FS_CardinalityType, FS_RemoveElement
    <3> QED BY <1>5, <2>1, <2>2, <3>1 DEF CallOver, SlotsExact
  <2>4. TypeOK'
    BY <1>5, <2>3 DEF CallOver, TypeOK, ConnState
  <2> QED BY <2>3, <2>4
<1>6. ASSUME NEW b \in Bridges, NEW id \in Ids, NEW q \in Requests,
             StreamIdRefused(b, id, q)
      PROVE  TypeOK' /\ SlotsExact'
  <2>1. TypeOK'
    BY <1>6 DEF StreamIdRefused, TypeOK, Live, ConnState
  <2>2. Running' = Running
    BY <1>6, RunningUnchanged DEF StreamIdRefused, ConnState
  <2> QED BY <1>6, <2>1, <2>2 DEF StreamIdRefused, SlotsExact
<1>7. ASSUME NEW b \in Bridges, NEW id \in Ids \cup {NoId}, NEW q \in Requests,
             Rejected(b, id, q)
      PROVE  TypeOK' /\ SlotsExact'
  <2>1. pending' \subseteq pending
    BY <1>7 DEF Rejected, Consume, Without, Live
  <2>2. TypeOK'
    BY <1>7, <2>1 DEF Rejected, TypeOK, ConnState
  <2>3. Running' = Running
    BY <1>7, RunningUnchanged DEF Rejected, ConnState
  <2> QED BY <1>7, <2>2, <2>3 DEF Rejected, SlotsExact
<1>8. ASSUME NEW b \in Bridges, NEW id \in Ids \cup {NoId}, NEW q \in Requests,
             Admit(b, id, q)
      PROVE  TypeOK' /\ SlotsExact'
  <2>1. pending' \subseteq pending
    BY <1>8 DEF Admit, Consume, Without, Live
  <2>2. TypeOK'
    <3>1. PICK name \in Ids :
             /\ drawn' = drawn \cup {name}
             /\ room' = [room EXCEPT ![b] = name]
             /\ admitted' = admitted \cup
                  {[room |-> name, reserved |-> id # NoId, request |-> q]}
      BY <1>8 DEF Admit
    <3>2. drawn' \subseteq Ids
      BY <3>1 DEF TypeOK
    <3>3. room' \in [Bridges -> Ids \cup {NoId}]
      BY <3>1 DEF TypeOK
    <3>4. admitted' \subseteq [room : Ids, reserved : BOOLEAN, request : Requests]
      <4>1. (id # NoId) \in BOOLEAN
        OBVIOUS
      <4>2. [room |-> name, reserved |-> id # NoId, request |-> q]
              \in [room : Ids, reserved : BOOLEAN, request : Requests]
        BY <4>1
      <4> QED BY <3>1, <4>2 DEF TypeOK
    <3>5. conn' \in [Bridges -> ConnState] /\ active' \in Nat
      BY <1>8 DEF Admit, TypeOK, ConnState
    <3> QED BY <1>8, <2>1, <3>2, <3>3, <3>4, <3>5 DEF Admit, TypeOK
  <2>3. Running' = Running \cup {b} /\ b \notin Running
    BY <1>8 DEF Admit, Running, TypeOK
  <2>4. Cardinality(Running \cup {b}) = Cardinality(Running) + 1
    BY <2>3, RunningFinite, FS_AddElement
  <2> QED BY <1>8, <2>2, <2>3, <2>4 DEF Admit, SlotsExact
<1>9. CASE Tick
  <2>1. TypeOK'
    BY <1>9 DEF Tick, TypeOK, bridgeVars
  <2>2. Running' = Running /\ active' = active
    BY <1>9 DEF Tick, Running, bridgeVars
  <2> QED BY <2>1, <2>2 DEF SlotsExact
<1>10. CASE ReadinessFlips
  <2>1. TypeOK'
    BY <1>10 DEF ReadinessFlips, TypeOK, bridgeVars
  <2>2. Running' = Running /\ active' = active
    BY <1>10 DEF ReadinessFlips, Running, bridgeVars
  <2> QED BY <2>1, <2>2 DEF SlotsExact
<1>11. CASE UNCHANGED vars
  <2>1. TypeOK'
    BY <1>11 DEF vars, TypeOK
  <2>2. Running' = Running /\ active' = active
    BY <1>11 DEF vars, Running
  <2> QED BY <2>1, <2>2 DEF SlotsExact
<1> QED BY <1>1, <1>2, <1>3, <1>4, <1>5, <1>6, <1>7, <1>8, <1>9, <1>10, <1>11 DEF Next

\* TypeOK and SlotsExact: the slot counter counts the running calls, whatever is
\* rejected, fails or ends (stream.py 896-930).
THEOREM SlotsExactCorrect == Spec => [](TypeOK /\ SlotsExact)
<1>1. Spec => []CountInv
  BY CountInit, CountStep, PTL DEF Spec
<1>2. CountInv => TypeOK /\ SlotsExact
  BY DEF CountInv
<1> QED BY <1>1, <1>2, PTL

\* Every state has the type; the count of active calls is never negative (stream.py 921-930).
THEOREM TypeCorrect == Spec => []TypeOK
<1>1. TypeOK /\ SlotsExact => TypeOK
  OBVIOUS
<1> QED BY <1>1, SlotsExactCorrect, PTL

\* The count never exceeds the limit: HasSlot and the increment are one step.
LimitInv == CountInv /\ active <= MaxCalls

LEMMA LimitStep == LimitInv /\ [Next]_vars => LimitInv'
<1> SUFFICES ASSUME TypeOK, SlotsExact, active <= MaxCalls, [Next]_vars
             PROVE  active' <= MaxCalls
  BY CountStep DEF LimitInv, CountInv
<1> USE AdmissionAssumption DEF TypeOK
<1>1. ASSUME NEW b \in Bridges, NEW id \in Ids \cup {NoId}, NEW q \in Requests,
             Admit(b, id, q)
      PROVE  active' <= MaxCalls
  BY <1>1 DEF Admit, HasSlot
<1>2. ASSUME NEW b \in Bridges, CallOver(b) PROVE active' <= MaxCalls
  BY <1>2 DEF CallOver
<1>3. CASE UNCHANGED active
  BY <1>3
<1>4. ASSUME NEW b \in Bridges, Open(b) \/ OpenFails(b) PROVE UNCHANGED active
  BY <1>4 DEF Open, OpenFails
<1>5. ASSUME NEW b \in Bridges, NEW id \in Ids \cup {NoId}, NEW q \in Requests,
             StreamIdRefused(b, id, q) \/ Rejected(b, id, q)
      PROVE  UNCHANGED active
  BY <1>5 DEF StreamIdRefused, Rejected
<1>6. ASSUME NEW id \in Ids, NEW q \in Requests, StartCall(id, q) PROVE UNCHANGED active
  BY <1>6 DEF StartCall, bridgeVars
<1>7. ASSUME StartCallRefused \/ Tick \/ ReadinessFlips \/ UNCHANGED vars
      PROVE  UNCHANGED active
  BY <1>7 DEF StartCallRefused, Tick, ReadinessFlips, vars, bridgeVars
<1> QED BY <1>1, <1>2, <1>3, <1>4, <1>5, <1>6, <1>7 DEF Next

\* No interleaving of connecting bridges runs more than MaxCalls calls (stream.py 896-921).
THEOREM LimitCorrect == Spec => []LimitHolds
<1>1. Init => LimitInv
  BY CountInit, AdmissionAssumption DEF LimitInv, Init
<1>2. LimitInv => LimitHolds
  BY DEF LimitInv, CountInv, LimitHolds, SlotsExact
<1> QED BY <1>1, <1>2, LimitStep, PTL DEF Spec

-----------------------------------------------------------------------------
(* Rooms *)

\* Whatever names a room was drawn, a pending id names one reservation, a running call was
\* admitted, and a reserved body is a body somebody asked for.
RoomsInv ==
  /\ \A r \in pending : r.id \in drawn /\ [id |-> r.id, request |-> r.request] \in asked
  /\ \A r, s \in pending : r.id = s.id => r = s
  /\ \A a \in admitted : a.room \in drawn
  /\ \A b \in Running : \E a \in admitted : a.room = room[b]
  /\ RoomsExclusive
  /\ ReservedBodyRuns

\* Dropping reservations, and changing which bridges wait, keeps RoomsInv.
LEMMA RoomsKept ==
  ASSUME TypeOK, RoomsInv, pending' \subseteq pending, Running' \subseteq Running,
         \A b \in Running' : room'[b] = room[b],
         UNCHANGED <<drawn, admitted, asked>>
  PROVE  RoomsInv'
  BY DEF RoomsInv, RoomsExclusive, ReservedBodyRuns, Running

LEMMA RoomsStep == TypeOK /\ RoomsInv /\ [Next]_vars => RoomsInv'
<1> SUFFICES ASSUME TypeOK, RoomsInv, [Next]_vars PROVE RoomsInv'
  OBVIOUS
<1> USE AdmissionAssumption
<1>1. ASSUME NEW id \in Ids, NEW q \in Requests, StartCall(id, q) PROVE RoomsInv'
  <2> DEFINE new == [id |-> id, expires |-> clock + PendingTTL, request |-> q]
  <2>1. /\ pending' \subseteq pending \cup {new}
        /\ drawn' = drawn \cup {id}
        /\ asked' = asked \cup {[id |-> id, request |-> q]}
        /\ id \notin drawn
        /\ new.id = id /\ new.request = q
    BY <1>1 DEF StartCall, Live
  <2>2. Running' = Running /\ room' = room /\ admitted' = admitted
    BY <1>1 DEF StartCall, bridgeVars, Running
  <2> HIDE DEF new
  <2>3. \A r \in pending' : r.id \in drawn' /\ [id |-> r.id, request |-> r.request] \in asked'
    BY <2>1 DEF RoomsInv
  <2>4. \A r, s \in pending' : r.id = s.id => r = s
    BY <2>1 DEF RoomsInv
  <2>5. \A a \in admitted' : a.room \in drawn'
    BY <2>1, <2>2 DEF RoomsInv
  <2>6. \A b \in Running' : \E a \in admitted' : a.room = room'[b]
    BY <2>2 DEF RoomsInv
  <2>7. RoomsExclusive'
    BY <2>2 DEF RoomsInv, RoomsExclusive
  <2>8. ReservedBodyRuns'
    BY <2>1, <2>2 DEF RoomsInv, ReservedBodyRuns
  <2> QED BY <2>3, <2>4, <2>5, <2>6, <2>7, <2>8 DEF RoomsInv
<1>2. ASSUME NEW b \in Bridges, NEW id \in Ids \cup {NoId}, NEW q \in Requests,
             Admit(b, id, q)
      PROVE  RoomsInv'
  <2>1. PICK name \in Ids :
           /\ IF id = NoId THEN name \notin drawn ELSE name = id
           /\ drawn' = drawn \cup {name}
           /\ room' = [room EXCEPT ![b] = name]
           /\ admitted' = admitted \cup
                {[room |-> name, reserved |-> id # NoId, request |-> q]}
    BY <1>2 DEF Admit
  <2> DEFINE new == [room |-> name, reserved |-> id # NoId, request |-> q]
  <2>2. Running' = Running \cup {b} /\ b \notin Running /\ asked' = asked
    BY <1>2 DEF Admit, Running, TypeOK
  <2>3. pending' \subseteq pending
    BY <1>2 DEF Admit, Consume, Without, Live
  <2>4. \A a \in admitted : a.room # name
    <3>1. CASE id = NoId
      BY <2>1, <3>1 DEF RoomsInv
    <3>2. CASE id # NoId
      <4>1. \E r \in pending : r.id = id
        BY <1>2, <3>2 DEF Admit, Consume, Matches, Live
      <4> QED BY <2>1, <3>2, <4>1 DEF RoomsInv, ReservedBodyRuns
    <3> QED BY <3>1, <3>2
  <2>5. \A r \in pending' : r.id # name
    <3>1. CASE id = NoId
      BY <2>1, <2>3, <3>1 DEF RoomsInv
    <3>2. CASE id # NoId
      BY <1>2, <2>1, <3>2 DEF Admit, Consume, Without
    <3> QED BY <3>1, <3>2
  <2>6. new.reserved => [id |-> new.room, request |-> new.request] \in asked
    <3> SUFFICES ASSUME id # NoId PROVE [id |-> id, request |-> q] \in asked
      BY <2>1
    <3>1. PICK r \in pending : r.id = id /\ r.request = q
      BY <1>2 DEF Admit, Consume, Matches, Live
    <3> QED BY <3>1 DEF RoomsInv
  <2>7. new.room = name
    OBVIOUS
  <2>8. admitted' = admitted \cup {new}
    BY <2>1
  <2> HIDE DEF new
  <2>9. room'[b] = name /\ \A c \in Running : room'[c] = room[c]
    BY <2>1, <2>2 DEF TypeOK, Running
  <2>10. \A r \in pending' : r.id \in drawn' /\ [id |-> r.id, request |-> r.request] \in asked'
    BY <2>1, <2>2, <2>3 DEF RoomsInv
  <2>11. \A r, s \in pending' : r.id = s.id => r = s
    BY <2>3 DEF RoomsInv
  <2>12. \A a \in admitted' : a.room \in drawn'
    BY <2>1, <2>7, <2>8 DEF RoomsInv
  <2>13. \A c \in Running' : \E a \in admitted' : a.room = room'[c]
    BY <2>2, <2>7, <2>8, <2>9 DEF RoomsInv
  <2>14. RoomsExclusive'
    <3>1. \A c \in Running : room'[c] # name
      BY <2>4, <2>9 DEF RoomsInv
    <3> QED BY <2>2, <2>9, <3>1 DEF RoomsInv, RoomsExclusive
  <2>15. ReservedBodyRuns'
    BY <2>2, <2>3, <2>4, <2>5, <2>6, <2>7, <2>8 DEF RoomsInv, ReservedBodyRuns
  <2> QED BY <2>10, <2>11, <2>12, <2>13, <2>14, <2>15 DEF RoomsInv
<1>3. ASSUME NEW b \in Bridges, Open(b) \/ OpenFails(b) PROVE RoomsInv'
  BY <1>3, RunningUnchanged, RoomsKept DEF Open, OpenFails, ConnState
<1>4. ASSUME NEW b \in Bridges, CallOver(b) PROVE RoomsInv'
  <2>1. Running' \subseteq Running \ {b}
    BY <1>4 DEF CallOver, Running, TypeOK
  <2>2. \A c \in Running' : room'[c] = room[c]
    BY <1>4, <2>1 DEF CallOver, TypeOK, Running
  <2> QED BY <1>4, <2>1, <2>2, RoomsKept DEF CallOver
<1>5. ASSUME NEW b \in Bridges, NEW id \in Ids, NEW q \in Requests,
             StreamIdRefused(b, id, q)
      PROVE  RoomsInv'
  BY <1>5, RunningUnchanged, RoomsKept DEF StreamIdRefused, ConnState, Live
<1>6. ASSUME NEW b \in Bridges, NEW id \in Ids \cup {NoId}, NEW q \in Requests,
             Rejected(b, id, q)
      PROVE  RoomsInv'
  <2>1. pending' \subseteq pending
    BY <1>6 DEF Rejected, Consume, Without, Live
  <2> QED BY <1>6, <2>1, RunningUnchanged, RoomsKept DEF Rejected, ConnState
<1>7. CASE StartCallRefused \/ Tick \/ ReadinessFlips \/ UNCHANGED vars
  <2>1. pending' \subseteq pending /\ UNCHANGED <<conn, room, drawn, admitted, asked>>
    BY <1>7 DEF StartCallRefused, Tick, ReadinessFlips, vars, bridgeVars, Live
  <2>2. Running' = Running
    BY <2>1 DEF Running
  <2> QED BY <2>1, <2>2, RoomsKept
<1> QED BY <1>1, <1>2, <1>3, <1>4, <1>5, <1>6, <1>7 DEF Next

LEMMA RoomsCorrect == Spec => []RoomsInv
<1>1. Init => RoomsInv
  BY DEF Init, RoomsInv, RoomsExclusive, ReservedBodyRuns, Running
<1> QED BY <1>1, RoomsStep, SlotsExactCorrect, PTL DEF Spec

\* Running calls never share a room, and so never each other's outcome file (calls.py
\* 33-36, stream.py 921-926).
THEOREM RoomsExclusiveCorrect == Spec => []RoomsExclusive
<1>1. RoomsInv => RoomsExclusive
  BY DEF RoomsInv
<1> QED BY <1>1, RoomsCorrect, PTL

\* A stream_id is worth one call with the body it was reserved for (calls.py 17-23).
THEOREM ReservedBodyCorrect == Spec => []ReservedBodyRuns
<1>1. RoomsInv => ReservedBodyRuns
  BY DEF RoomsInv
<1> QED BY <1>1, RoomsCorrect, PTL

-----------------------------------------------------------------------------
(* Reservations *)

\* _pending is a finite table within its bound.
BoundInv == IsFiniteSet(pending) /\ PendingBounded

LEMMA SmallerTable ==
  ASSUME NEW table, IsFiniteSet(table), Cardinality(table) <= MaxPending,
         NEW part, part \subseteq table
  PROVE  IsFiniteSet(part) /\ Cardinality(part) <= MaxPending
  BY FS_Subset, FS_CardinalityType, AdmissionAssumption

LEMMA BoundStep == BoundInv /\ [Next]_vars => BoundInv'
<1> SUFFICES ASSUME IsFiniteSet(pending), Cardinality(pending) <= MaxPending, [Next]_vars
             PROVE  IsFiniteSet(pending') /\ Cardinality(pending') <= MaxPending
  BY DEF BoundInv, PendingBounded
<1>1. ASSUME NEW id \in Ids, NEW q \in Requests, StartCall(id, q)
      PROVE  IsFiniteSet(pending') /\ Cardinality(pending') <= MaxPending
  <2> DEFINE new == [id |-> id, expires |-> clock + PendingTTL, request |-> q]
  <2>1. IsFiniteSet(Live(pending)) /\ Cardinality(Live(pending)) \in Nat
    BY FS_Subset, FS_CardinalityType DEF Live
  <2>2. Cardinality(Live(pending)) < MaxPending
    BY <1>1, <2>1, AdmissionAssumption DEF StartCall, TableFull
  <2>3. pending' = Live(pending) \cup {new}
    BY <1>1 DEF StartCall
  <2>4. /\ IsFiniteSet(pending')
        /\ \/ Cardinality(pending') = Cardinality(Live(pending))
           \/ Cardinality(pending') = Cardinality(Live(pending)) + 1
    BY <2>1, <2>3, FS_AddElement
  <2> QED BY <2>1, <2>2, <2>4, AdmissionAssumption
<1>2. CASE pending' \subseteq pending
  BY <1>2, SmallerTable
<1>3. ASSUME NEW b \in Bridges, Open(b) \/ OpenFails(b) \/ CallOver(b)
      PROVE  pending' \subseteq pending
  BY <1>3 DEF Open, OpenFails, CallOver
<1>4. ASSUME NEW b \in Bridges, NEW id \in Ids, NEW q \in Requests, StreamIdRefused(b, id, q)
      PROVE  pending' \subseteq pending
  BY <1>4 DEF StreamIdRefused, Live
<1>5. ASSUME NEW b \in Bridges, NEW id \in Ids \cup {NoId}, NEW q \in Requests,
             Rejected(b, id, q) \/ Admit(b, id, q)
      PROVE  pending' \subseteq pending
  BY <1>5 DEF Rejected, Admit, Consume, Without, Live
<1>6. ASSUME StartCallRefused \/ Tick \/ ReadinessFlips \/ UNCHANGED vars
      PROVE  pending' \subseteq pending
  BY <1>6 DEF StartCallRefused, Tick, ReadinessFlips, vars, bridgeVars, Live
<1> QED BY <1>1, <1>2, <1>3, <1>4, <1>5, <1>6 DEF Next

\* The table never outgrows MaxPending although nothing prunes it between requests
\* (calls.py 62-68).
THEOREM PendingBoundedCorrect == Spec => []PendingBounded
<1>1. Init => BoundInv
  BY FS_EmptySet, AdmissionAssumption DEF Init, BoundInv, PendingBounded
<1>2. BoundInv => PendingBounded
  BY DEF BoundInv
<1> QED BY <1>1, <1>2, BoundStep, PTL DEF Spec

\* What a step may do to one reservation that it removes.
Accounted(r) ==
  \/ r.expires <= clock
  \/ \E b \in Bridges :
       /\ conn[b] = "opened"
       /\ conn'[b] = "refused" \/ (conn'[b] = "running" /\ room'[b] = r.id)

LEMMA AccountedStep ==
  ASSUME TypeOK, [Next]_vars
  PROVE  \A r \in pending \ pending' : Accounted(r)
<1> SUFFICES ASSUME NEW r \in pending, r \notin pending' PROVE Accounted(r)
  OBVIOUS
<1>1. r.expires \in Nat /\ clock \in Nat
  BY DEF TypeOK, Reservation
<1>2. CASE r \notin Live(pending)
  BY <1>1, <1>2 DEF Live, Accounted
<1>3. ASSUME NEW b \in Bridges, NEW id \in Ids \cup {NoId}, NEW q \in Requests,
             Rejected(b, id, q)
      PROVE  Accounted(r)
  BY <1>3 DEF Rejected, Accounted, TypeOK
<1>4. ASSUME NEW b \in Bridges, NEW id \in Ids \cup {NoId}, NEW q \in Requests,
             Admit(b, id, q), r \in Live(pending)
      PROVE  Accounted(r)
  <2>1. id # NoId /\ r.id = id
    BY <1>4 DEF Admit, Consume, Without
  <2>2. room'[b] = id /\ conn'[b] = "running" /\ conn[b] = "opened"
    BY <1>4, <2>1 DEF Admit, TypeOK
  <2> QED BY <2>1, <2>2 DEF Accounted
<1>5. ASSUME NEW id \in Ids, NEW q \in Requests, StartCall(id, q)
      PROVE  r \notin Live(pending)
  BY <1>5 DEF StartCall
<1>6. ASSUME NEW b \in Bridges, NEW id \in Ids, NEW q \in Requests, StreamIdRefused(b, id, q)
      PROVE  r \notin Live(pending)
  BY <1>6 DEF StreamIdRefused
<1>7. CASE StartCallRefused
  BY <1>2, <1>7 DEF StartCallRefused
<1>8. ASSUME NEW b \in Bridges, Open(b) \/ OpenFails(b) \/ CallOver(b) PROVE FALSE
  BY <1>8 DEF Open, OpenFails, CallOver
<1>9. ASSUME Tick \/ ReadinessFlips \/ UNCHANGED vars PROVE FALSE
  BY <1>9 DEF Tick, ReadinessFlips, vars
<1> QED BY <1>2, <1>3, <1>4, <1>5, <1>6, <1>7, <1>8, <1>9 DEF Next

\* No step loses a reservation that is still good (calls.py 17-23, stream.py 884-920).
THEOREM ReservationsNotLostCorrect == Spec => ReservationsNotLost
<1>1. TypeOK /\ [Next]_vars => [\A r \in pending \ pending' : Accounted(r)]_vars
  BY AccountedStep
<1> QED BY <1>1, SlotsExactCorrect, PTL DEF Spec, ReservationsNotLost, Accounted
=============================================================================
