SPECIFICATION Spec
CONSTANTS
  NumKeys = 3
  Updates <- Values
  NumLevels = 3
  MaxMemLevel = 2
  L0Trigger = 4
  ManualRanges <- WholeRange
  OneClient = FALSE
  MayFail = FALSE
  MaxWrites = 4
  MaxSnapshots = 0
INVARIANT LevelsDisjoint
CHECK_DEADLOCK FALSE
