CONSTANTS
  Keys = {k1}
  Admins = {a1}
  Requests = {}
  Missing = Missing
  Nobody = Nobody
  Plans <- TwoPlans
  Backends = {"file"}
  Found <- KeysInUse
  Expiries = {2}
  MaxClock = 2
  MaxChanges = 1
  MaxFaults = 2
  MaxBatch = 1
  Cores = 1
  Skews = {0}
  MaxBack = 0
SPECIFICATION Spec
PROPERTIES
  RestartKeepsAcked
CHECK_DEADLOCK FALSE
