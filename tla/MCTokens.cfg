CONSTANTS
  Servers = {s1, s2}
  Secrets = {x1, x2}
  Rotated = {v1, v2}
  Local = local
  Missing = Missing
  Torn = Torn
  Nobody = Nobody
  Requests = {r1}
  MaxRevision = 1
  MaxStops = 3
  MaxShown = 3
SPECIFICATION Spec
SYMMETRY TokenSymmetry
INVARIANTS
  TokensOpen
  RetriesAgree
CHECK_DEADLOCK FALSE
