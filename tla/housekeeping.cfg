SPECIFICATION Spec
CONSTANTS
  r1 = r1
  w1 = w1
  w2 = w2
  m1 = m1
  j1 = j1
  j2 = j2
  Nobody = Nobody
  Rooms = {r1}
  Attendants = {w1, w2}
  Supervisors = {m1}
  Jobs = {j1, j2}
  RaisedByHand = {"DEPARTURE"}
SYMMETRY Symmetry
INVARIANTS
  TypeOK
  GuestRoomsStayOccupied
  UnfitStaysUnsold
PROPERTIES
  ClaimedWorkIsKept
  BoardMissesNobody
CHECK_DEADLOCK FALSE
