CONSTANTS
    c1 = c1
    c2 = c2
    Closer <- OneCloser
    MaxEvents = 1
    MaxAsks = 2
SPECIFICATION Spec
INVARIANT CallerFailureNotReported
CHECK_DEADLOCK FALSE
