CONSTANTS
    c1 = c1
    c2 = c2
    e1 = e1
    NoError = NoError
    NoCall = NoCall
    Call <- TwoCalls
    Resendable <- OneCall
    SharedError <- MCSharedError
    Retryable <- MCSharedError
    MaxAttempts = 3
    Budget = 0
    Chunk = 1
    Hint <- NoDelay
    Override <- NoDelay
    Backoff <- NoBackoff
    MaxClock = 0
SPECIFICATION Spec
INVARIANTS
    TrailIsTheCalls
CHECK_DEADLOCK FALSE
