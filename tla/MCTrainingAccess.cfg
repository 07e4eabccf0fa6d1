CONSTANTS
  Keys = {k1}
  Admins = {a1}
  Requests = {r1}
  Missing = Missing
  Nobody = Nobody
  Plans <- TwoPlans
  Backends = {"postgres"}
  Found <- KeysInUse
  Expiries = {2}
  MaxClock = 3
  MaxChanges = 2
  MaxFaults = 1
  MaxBatch = 3
  Cores = 2
  Skews = {0, 1}
  MaxBack = 1
SPECIFICATION Spec
INVARIANTS
  QuotaKept
  RetryAfterSuffices
  BatchComplete
CHECK_DEADLOCK FALSE
