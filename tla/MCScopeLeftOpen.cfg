CONSTANTS
    LogCalls = {"c1"}
    MaxDrives = 2
    TapCap = 1
    MaxChunks = 2
SPECIFICATION LoggingSpec
INVARIANTS CallerContextRestored
CHECK_DEADLOCK FALSE
