SPECIFICATION Spec
CONSTANTS
  r1 = r1 r2 = r2 l1 = l1 l2 = l2 l3 = l3 k1 = k1 k2 = k2 k3 = k3
  std = std dlx = dlx s1 = s1 s2 = s2 NoRoom = NoRoom
  Reservations = {r1, r2}
  Lines = {l1, l2, l3}
  ReservationOf <- PartyOwner
  LineType <- TwoTypes
  RoomTypes = {std, dlx}
  Rooms = {k1, k2}
  RoomType <- TwoRoomTypes
  Sessions = {s1, s2}
  LastDate = 3
  Amounts = {1}
  MaxBalance = 1
  BoardStatuses = {"VACANT_CLEAN", "OOO"}
  Overlaps <- AuditAlone
  MoveInHouse = TRUE
  JoinOccupied = TRUE
SYMMETRY SessionSymmetry
INVARIANTS
  SoldMatchesHeld
  NeverOversold
  FolioFollowsStay
  SettledAtZero
CHECK_DEADLOCK FALSE
