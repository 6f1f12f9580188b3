SPECIFICATION FairSpec
CONSTANTS
    N = 1
    Callers = {"rpc"}
    Repositories = {1}
    MaxTime = 1
    MaxThreads = 2
    MaxEdits = 1
    MaxFaults = 2
INVARIANTS
    TypeOK
    EditsAreKept
    RunsDoNotOverlap
    OneTurnPerDueTime
PROPERTY DueIsServed
CHECK_DEADLOCK FALSE
