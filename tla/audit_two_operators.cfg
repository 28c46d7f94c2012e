SPECIFICATION Spec
CONSTANTS
  l1 = l1 l2 = l2 o1 = o1 o2 = o2
  Lines = {l1}
  Arrival <- OneArrival
  Departure <- OneDeparture
  LastDate = 3
  Operators = {o1, o2}
  MaxFaults = 1
  MaxChanges = 1
  MaxExtra = 0
  Unpriced = {}
  DeskDuringAudit = TRUE
SYMMETRY OperatorSymmetry
INVARIANTS
  TypeOK
  OneRoomChargePerNight
  ClosedDaysAreClosed
  RecordedStepsHappened
  NeverWedged
PROPERTIES
  DateMovesByOne
CHECK_DEADLOCK FALSE
