CONSTANTS
  SlotCount = 3
  Cards <- EveryCard
  Handlers = {"pupa"}
  MaxTools = 3
  Checkpoints <- MCCheckpoints
  MaxInt = 1000000
  StepLimit = 512
  FamilyDraws = {"FIEND", "INSECT"}
  RarityDraws = {1, 4}
  MaxCommands = 1
SPECIFICATION Spec
INVARIANTS
  IdsUnique
  NothingMissed
  ReactsToOwnRemoval
  NeverEmptied
CHECK_DEADLOCK FALSE
