SPECIFICATION FairSpec
CONSTANTS
    MaxLog = 3
    BufferCapacity = 1
    ReplayLimit = 1
    MaxItems = 2
    MaxFailures = 1
    MaxDisconnects = 1
    DerivedStateFails = TRUE
INVARIANTS
    TypeOK
    AtRestIsCurrent
PROPERTY SeenIsApplied
CHECK_DEADLOCK FALSE
