SPECIFICATION Spec
CONSTANTS
  ann = ann bob = bob alpha = alpha beta = beta g1 = g1 r1 = r1 r2 = r2
  Users = {ann, bob}
  Properties = {alpha, beta}
  Requests = {r1, r2}
  InitialGrants <- Staff
  Lifetime = 1
  MaxClock = 2
  MaxRevoked = 1
  Guests = {g1}
  PropertyOf <- Homes
SYMMETRY RequestSymmetry
INVARIANTS
  TouchesAreGranted
  ErasureHolds
CHECK_DEADLOCK FALSE
