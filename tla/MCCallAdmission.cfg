CONSTANTS
  Ids = {i1, i2, i3}
  Bridges = {b1, b2, b3}
  Requests = {q1, q2}
  MaxPending = 2
  PendingTTL = 1
  MaxCalls = 2
  MaxClock = 2
  NoId = NoId
SYMMETRY Symmetry
SPECIFICATION Spec
INVARIANTS
  TypeOK
  SlotsExact
  LimitHolds
  RoomsExclusive
  ReservedBodyRuns
  PendingBounded
PROPERTY ReservationsNotLost
