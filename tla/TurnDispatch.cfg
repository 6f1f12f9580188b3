SPECIFICATION FairSpec
CONSTANTS
    MaxMessages = 2
    MaxTurns = 4
    MaxFaults = 1
INVARIANTS
    TypeOK
    SentOnce
    UnsentIsDurable
    TurnOwnsItsMessage
PROPERTY EveryStartSettles
CHECK_DEADLOCK FALSE
