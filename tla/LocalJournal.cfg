SPECIFICATION FairSpec
CONSTANTS
    MaxIndex = 2
    MaxAttempts = 3
    MaxCaptures = 2
    MaxFaults = 2
    SnapshotInterval = 2
    Chunk = 1
    Legacy = 1
INVARIANTS
    JournalOpens
    ServesCommitted
PROPERTIES
    HistoryOnlyGrows
    TasksEnd
