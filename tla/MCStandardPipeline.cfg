CONSTANTS
    home = home
    homeToo = homeToo
    homePlain = homePlain
    away = away
    awayToo = awayToo
    NoUrl = NoUrl
    Url <- MCUrl
    Seed <- MCSeed
    Origin <- MCOrigin
    Plaintext <- MCPlaintext
    MaxHops = 2
    MaxAttempts = 2
SPECIFICATION FairSpec
INVARIANTS
    TypeOK
    ResponseOwned
    CredentialsStayHome
    NoPlaintextCredential
    
    OneShotSentOnce
    SendsBounded
PROPERTIES
    NothingSentAfterAbort
    EveryCallEnds
CHECK_DEADLOCK FALSE
