\* The clock of the real game; scores 0..2 stand for below 8000, from 8000,
\* and from 28000.
CONSTANTS
  PotionTurns = 8
  SchemeTurns = 3
  PotionBudget = 3
  MaxPet = 2
  LowThreshold = 1
  HighThreshold = 2
  Scores = {0, 1, 2}
SPECIFICATION FairSpec
INVARIANTS
  TypeOK
  FlowAccounting
  RevisionNamesOffer
  NoRewardLeftLocked
  GameLength
PROPERTIES
  ClaimsOnlyAdvance
  ImplementsPlan
  GameEnds
CHECK_DEADLOCK FALSE
