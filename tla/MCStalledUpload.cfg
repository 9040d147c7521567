CONSTANTS
    Clients = {"fetch", "undici"}
    SourceMayStall = TRUE
SPECIFICATION TransportFairSpec
PROPERTIES AbortSettlesSend
CHECK_DEADLOCK FALSE
