SPECIFICATION Spec
CONSTANTS
  BlockSize = 5
  HeaderSize = 2
  Sizes = {4}
  EditSize = 2
  ReuseLogs = {FALSE}
  Losses = {"cut", "zeros"}
  MaxWrites = 2
  MaxFaults = 2
INVARIANTS TypeOK SyncedSurvives NoGapsInALog NothingInvented SequencesUnique OpensAgain
CHECK_DEADLOCK FALSE
