SPECIFICATION FairSpec
CONSTANTS
    Commands = {c1, c2}
    Requests = {r1, r2, r3}
    NoCommand = NoCommand
    NoRequest = NoRequest
    Projectors = {threads, kanban}
    NewProjectors = {kanban}
    OldEvents = 2
    ReplayLimit = 2
    MaxEvents = 2
    MaxCrashes = 1
INVARIANTS
    TypeOK
    ReceiptMatchesLog
    ReadModelIsFold
    PublishedInOrder
    AcceptedIsVisible
PROPERTIES
    ImplementsCommandLog
    EveryDispatchAnswered
CHECK_DEADLOCK FALSE
