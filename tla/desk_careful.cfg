SPECIFICATION Spec
CONSTANTS
  r1 = r1 r2 = r2 l1 = l1 l2 = l2 l3 = l3 k1 = k1 k2 = k2 k3 = k3
  std = std dlx = dlx s1 = s1 s2 = s2 NoRoom = NoRoom
  Reservations = {r1, r2}
  Lines = {l1, l2, l3}
  ReservationOf <- PartyOwner
  LineType <- OneType
  RoomTypes = {std}
  Rooms = {k1, k2, k3}
  RoomType <- ThreeRooms
  Sessions = {s1, s2}
  LastDate = 3
  Amounts = {}
  MaxBalance = 0
  BoardStatuses = {"VACANT_CLEAN", "VACANT_DIRTY", "OOO"}
  Overlaps <- DeskInTurn
  MoveInHouse = FALSE
  JoinOccupied = FALSE
SYMMETRY RoomSymmetry
INVARIANTS
  RoomBoardAgrees
PROPERTIES
  KeepsRoomNights
CHECK_DEADLOCK FALSE
