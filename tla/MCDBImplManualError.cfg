SPECIFICATION Spec
CONSTANTS
  T1 = T1
  T2 = T2
  T3 = T3
  NoThread = NoThread
  BG = BG
  Null = Null
  Threads = {T1, T2}
  Requests <- Writes
  MaxCalls = 2
  MaxManual = 1
  WriteBuffer = 1
  CompactionTrigger = 1
  SlowdownTrigger = 1
  StopTrigger = 2
  Failures = {"sync"}
SYMMETRY ThreadSymmetry
INVARIANT RequestOutlivesCompaction
