CONSTANTS
    c1 = c1
    c2 = c2
    tShort = tShort
    tLong = tLong
    NoToken = NoToken
    Caller <- MCCaller
    Token <- MCTokenLive
    ExpiresAt <- MCExpiresAtLive
    Margin = 1
    MaxFetch = 3
    MaxClock = 1
SPECIFICATION FairSpec
PROPERTIES
    AbortedCallerLeaves
    EveryWaiterResumes
CHECK_DEADLOCK FALSE
