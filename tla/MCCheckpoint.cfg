CONSTANTS
  Tabs = {t1, t2}
  Commands = {c1, c2}
  MaxRequests = 3
  MaxLength = 2
  MaxFaults = 1
SPECIFICATION Spec
SYMMETRY TabSymmetry
INVARIANTS
  PendingIsCurrent
  LogReplays
  NothingShownIsForeign
  SavedIsRecorded
  CountsAreExact
PROPERTIES
  PendingEndsByItself
  ImplementsArchive
CHECK_DEADLOCK FALSE
