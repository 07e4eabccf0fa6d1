CONSTANTS
  SlotCount = 6
  Cards <- LongCards
  Handlers = {"pupa"}
  MaxTools = 3
  Checkpoints <- MCCheckpoints
  MaxInt = 100000
  StepLimit = 512
  FamilyDraws = {"INSECT"}
  RarityDraws = {1}
  MaxCommands = 1
SPECIFICATION Spec
INVARIANTS
  NeverLimited
PROPERTIES
  ValuesKept
CHECK_DEADLOCK FALSE
