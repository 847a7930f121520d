SPECIFICATION Spec
CONSTANTS
  NumKeys = 2
  Updates <- Deletions
  NumLevels = 3
  MaxMemLevel = 1
  L0Trigger = 1
  ManualRanges <- WholeRange
  OneClient = TRUE
  MayFail = TRUE
  MaxWrites = 3
  MaxSnapshots = 1
INVARIANTS TypeOK NewerFirst ReadsAreCurrent
CHECK_DEADLOCK FALSE
