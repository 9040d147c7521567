CONSTANTS
    c1 = c1
    c2 = c2
    e1 = e1
    NoError = NoError
    NoCall = NoCall
    Call <- OneCall
    Resendable <- OneCall
    SharedError <- NoSharedError
    Retryable <- NoSharedError
    MaxAttempts = 3
    Budget = 4
    Chunk = 2
    Hint <- MCHint
    Override <- MCOverride
    Backoff <- MCBackoff
    MaxClock = 7
SPECIFICATION FairSpec
INVARIANTS
    TypeOK
    ResponseAccounted
PROPERTIES
    PacingHonoured
    AbortEndsWait
CHECK_DEADLOCK FALSE
