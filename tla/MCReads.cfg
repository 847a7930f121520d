SPECIFICATION ReadSpec
CONSTANTS
    Keys = {1, 2}
    MaxUpdates = 5
    Flushed = 3
    BlockEntries = 2
    RestartInterval = 1
    Snapshots = {2, 4}
    MaxKey = 3
    MaxHeight = 2
    Readers = {r1}
    MaxFile = 3
    Capacity = 1
INVARIANTS TypeOK CursorCorrect GapsReported NoWildRead SearchIsAtomic
INVARIANTS CacheConsistent NoTableMissing RemovalSucceeds
CHECK_DEADLOCK FALSE
