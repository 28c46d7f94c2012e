SPECIFICATION Spec
CONSTANTS
  u1 = u1
  t1 = t1
  t2 = t2
  c1 = c1
  c2 = c2
  Nobody = Nobody
  Users = {u1}
  Tabs = {t1, t2}
  Calls = {c1, c2}
  MaxTokens = 3
  MaxFaults = 1
SYMMETRY Symmetry
INVARIANTS
  TypeOK
  TokenSpentOnce
  FreshAuthority
  AppNeverLogsItselfOut
  LogOutReachesAll
CHECK_DEADLOCK FALSE
