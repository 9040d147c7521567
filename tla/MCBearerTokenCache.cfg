CONSTANTS
    c1 = c1
    c2 = c2
    tShort = tShort
    tLong = tLong
    NoToken = NoToken
    Caller <- MCCaller
    Token <- MCToken
    ExpiresAt <- MCExpiresAt
    Margin = 1
    MaxFetch = 3
    MaxClock = 2
SPECIFICATION Spec
SYMMETRY CallerSymmetry
INVARIANTS
    TypeOK
    OneCurrentFetch
    PostEvictionNeverSuperseded
PROPERTIES
    ReplayIsNewer
    PublishedInOrder
    ImplementsSingleFlight
CHECK_DEADLOCK FALSE
