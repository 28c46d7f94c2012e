SPECIFICATION Spec
CONSTANTS
  l1 = l1 l2 = l2 o1 = o1 o2 = o2
  Lines = {l1, l2}
  Arrival <- Arrivals
  Departure <- Departures
  LastDate = 3
  Operators = {o1, o2}
  MaxFaults = 1
  MaxChanges = 0
  MaxExtra = 1
  Unpriced = {}
  DeskDuringAudit = FALSE
SYMMETRY OperatorSymmetry
INVARIANTS
  SnapshotAgreesWithLedger
PROPERTIES
  NightsCharged
CHECK_DEADLOCK FALSE
