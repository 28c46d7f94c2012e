SPECIFICATION Spec
CONSTANTS
  f1 = f1 f2 = f2 k1 = k1 k2 = k2 o1 = o1 s1 = s1 s2 = s2 NoRef = NoRef
  Folios = {f1, f2}
  Rooms = {k1, k2}
  RoomOf <- Bookings
  Departure <- Departing
  Price <- Grid
  Rates = {17}
  TaxTables <- TwoTables
  Amounts = {10}
  Sessions = {s1, s2}
  LastDate = 2
  MaxPostings = 3
  Orders = {o1}
  Prices = {5}
  Quantities = {3}
  MaxLines = 1
SYMMETRY SessionSymmetry
INVARIANTS
  TypeOK
  VoidsAreWhole
  OrderBilledOnce
  BillFollowsQuote
CHECK_DEADLOCK FALSE
