SPECIFICATION Spec
CONSTANTS
  NumKeys = 3
  Updates <- Values
  NumLevels = 3
  MaxMemLevel = 2
  L0Trigger = 2
  ManualRanges <- TwoRanges
  OneClient = TRUE
  MayFail = FALSE
  MaxWrites = 4
  MaxSnapshots = 0
INVARIANTS LevelsDisjoint NewerFirst ManualCovers
CHECK_DEADLOCK FALSE
