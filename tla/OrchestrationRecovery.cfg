SPECIFICATION Spec
CONSTANTS
    MaxLog = 4
    BufferCapacity = 2
    ReplayLimit = 2
    MaxItems = 2
    MaxFailures = 2
    MaxDisconnects = 1
    DerivedStateFails = FALSE
INVARIANT StoreIsPrefix
PROPERTY StoreNeverGoesBack
CHECK_DEADLOCK FALSE
