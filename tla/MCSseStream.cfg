CONSTANTS
    c1 = c1
    c2 = c2
    Closer <- TwoClosers
    MaxEvents = 2
    MaxAsks = 4
SPECIFICATION FairSpec
INVARIANTS
    TypeOK
    ReleasedOnce
    ReleaseBeforeEnd
    FailureHeard
    
PROPERTIES
    CloseUnblocks
CHECK_DEADLOCK FALSE
