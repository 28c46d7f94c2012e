SPECIFICATION Spec
CONSTANTS
  r1 = r1 r2 = r2 l1 = l1 l2 = l2 l3 = l3 k1 = k1 k2 = k2 k3 = k3
  std = std dlx = dlx s1 = s1 s2 = s2 NoRoom = NoRoom
  Reservations = {r1, r2}
  Lines = {l1, l2}
  ReservationOf <- PairOwner
  LineType <- PairType
  RoomTypes = {std}
  Rooms = {k1, k2}
  RoomType <- OneRoomType
  Sessions = {s1, s2}
  LastDate = 3
  Amounts = {1}
  MaxBalance = 0
  BoardStatuses = {}
  Overlaps <- Everything
  MoveInHouse = TRUE
  JoinOccupied = TRUE
SYMMETRY PairSymmetry
INVARIANTS
  TypeOK
  NoDoubleBooking
CHECK_DEADLOCK FALSE
