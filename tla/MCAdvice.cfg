CONSTANTS
  PotionTurns = 2
  SchemeTurns = 1
  PotionBudget = 1
  MaxPet = 1
  LowThreshold = 1
  HighThreshold = 2
  Scores = {0, 1, 2}
  Slots = {1, 2, 3, 4}
  Empty = Empty
  Boards <- TwoBoards
  FirstBoards <- FullBoards
  Instruments = {"unknown_six", "unknown_bones"}
  Potions = {"insect_powder", "mutation", "lure", "box_3"}
  Boxes = {"box_3"}
  Schemes = {"scheme_0", "scheme_1", "scheme_2"}
  Tools = {"liver", "growth", "frontal_lobe", "marrow"}
  CoreTools = {"liver", "growth", "frontal_lobe", "marrow"}
  Targets <- SomeTargets
  EarlyPotions = 1
SPECIFICATION SpecAdvice
INVARIANTS
  ViewAccepted
  MaskComplete
  OpeningSought
  GuideRanks
PROPERTIES
  FuturesFollowPlan
CHECK_DEADLOCK FALSE
