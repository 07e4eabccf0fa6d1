CONSTANTS
  Keys = {k1}
  Admins = {a1, a2}
  Requests = {}
  Missing = Missing
  Nobody = Nobody
  Plans <- TwoPlans
  Backends = {"file", "postgres"}
  Found <- NoKeys
  Expiries = {2}
  MaxClock = 2
  MaxChanges = 3
  MaxFaults = 0
  MaxBatch = 1
  Cores = 1
  Skews = {0}
  MaxBack = 0
SPECIFICATION Spec
INVARIANTS
  RevocationIsPermanent
CHECK_DEADLOCK FALSE
