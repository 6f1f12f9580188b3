SPECIFICATION Spec
CONSTANTS
    MaxTurns = 2
    MaxDiffs = 1
    MaxReverts = 1
    MaxFaults = 1
INVARIANTS
    TypeOK
    TableCountsAreUnique
    CapturesAreRestorable
    TableCapturesAreInMemory
PROPERTY MemoryKeepsCaptures
CHECK_DEADLOCK FALSE
