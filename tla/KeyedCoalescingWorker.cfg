SPECIFICATION FairSpec
CONSTANTS
    Keys = {t1, t2}
    NoKey = NoKey
    MaxValues = 4
INVARIANTS
    TypeOK
    NothingStranded
    DrainMeansDone
PROPERTIES
    ImplementsCoalescingQueue
    DrainResolves
CHECK_DEADLOCK FALSE
