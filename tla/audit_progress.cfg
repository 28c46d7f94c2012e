SPECIFICATION FairSpec
CONSTANTS
  l1 = l1 l2 = l2 o1 = o1 o2 = o2
  Lines = {l1}
  Arrival <- OneArrival
  Departure <- OneDeparture
  LastDate = 3
  Operators = {o1}
  MaxFaults = 2
  MaxChanges = 2
  MaxExtra = 0
  Unpriced = {1}
  DeskDuringAudit = TRUE
PROPERTIES
  FrozenSnapshot
  EveryDayCloses
CHECK_DEADLOCK FALSE
