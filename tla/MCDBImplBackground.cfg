SPECIFICATION FairSpec
CONSTANTS
  T1 = T1
  T2 = T2
  T3 = T3
  NoThread = NoThread
  BG = BG
  Null = Null
  Threads = {T1, T2}
  Requests <- SmallFlush
  MaxCalls = 3
  MaxManual = 2
  WriteBuffer = 1
  CompactionTrigger = 1
  SlowdownTrigger = 1
  StopTrigger = 2
  Failures = {"compaction"}
INVARIANTS NoLostWakeup ManualInScope ClosedIsQuiet
PROPERTY CallsReturn
