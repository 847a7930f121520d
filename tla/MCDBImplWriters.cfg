SPECIFICATION Spec
CONSTANTS
  T1 = T1
  T2 = T2
  T3 = T3
  NoThread = NoThread
  BG = BG
  Null = Null
  Threads = {T1, T2, T3}
  Requests <- Writes
  MaxCalls = 4
  MaxManual = 0
  WriteBuffer = 0
  CompactionTrigger = 1
  SlowdownTrigger = 1
  StopTrigger = 2
  Failures = {"append", "sync", "newlog", "close", "table", "manifest"}
SYMMETRY ThreadSymmetry
INVARIANTS TypeOK OneLogger NoLostWakeup NoWriteAfterError SyncedWhenAcknowledged StoreIsLogged WholeBatches
PROPERTY BatchesAreAtomic
