SPECIFICATION FairSpec
CONSTANTS
    Callers = {c1, c2, c3}
    NoCaller = NoCaller
    Capacity = 1
INVARIANTS
    TypeOK
    RunsOnce
PROPERTY NoCallerIsStranded
CHECK_DEADLOCK FALSE
