SPECIFICATION FairSpec
CONSTANTS
  t1 = t1 c1 = c1 x1 = x1 x2 = x2 b1 = b1 b2 = b2 d1 = d1
  q1 = q1 q2 = q2 s1 = s1 s2 = s2 p1 = p1 p2 = p2 NoRef = NoRef NoCode = NoCode
  RoomTypes = {t1}
  Capacity <- OneRoom
  Bookings = {b1}
  TypeOf <- OneType
  LastNight = 2
  Relays = {q1}
  BatchSize = 1
  MaxChanges = 2
  MaxFaults = 1
  Channels = {c1}
  Codes = {x1}
  Syncers = {s1}
  SyncBatch = 2
  Horizon = {1}
  MaxConfig = 1
  Refs = {d1}
  RefOf <- Deliveries
  Calls = {}
PROPERTIES
  ChannelsCatchUp
CHECK_DEADLOCK FALSE
