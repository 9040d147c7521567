CONSTANTS
    c1 = c1
    c2 = c2
    c3 = c3
    k1 = k1
    k2 = k2
    NoCall = NoCall
    Calls = {c1, c2, c3}
    Keys = {k1, k2}
    KeyOf <- CallKeys
    ParentOf <- CallParents
    MaxEntries = 2
    StageOrder <- BuilderStages
    PillarStages = {"RETRY", "AUTH"}
    StepTypes = {"a", "b"}
    MaxSteps = 3
    Clients = {"fetch", "undici"}
    SourceMayStall = TRUE
    BodyReaders = {"r1", "r2"}
    Cap = 2
    MaxBody = 5
    MaxChunk = 2
    PageCap = 3
    PageBound = 4
    Root = "root"
    PeekViews = {"view"}
    MaxStream = 3
    MaxRead = 2
    RequestSteps = 1
    ResponseSteps = 2
    RecoverySteps = 2
    MaxResponses = 3
    MaxValues = 2
    MaxQueued = 5
    MaxPiece = 3
    LogCalls = {c1}
    MaxDrives = 2
    TapCap = 1
    MaxChunks = 2
    Answerers = {"r1", "r2"}
    Challenges <- OfferedChallenges
    Preference <- Algorithms
    CountLimit = 1
    CountWrap = 4
    MaxStamps = 4
    Pieces <- StreamPieces
    MaxPieces = 4
    MaxLineBytes = 5
    SafeDigits = 2
    Writes = {"w1", "w2"}
    SimpleParts <- BodyParts
    MaxParts = 2
    Consumers = {"r1", "r2"}
    ReadOperations = {"bytes", "decode", "success", "httpError", "value", "stream"}
    ErrorCap = 1
    MaxResponse = 2
    Writers = {"w1", "w2"}
    QueueBytes = 2
    TapLimit = 1
    MaxPushes = 2
INIT Init
NEXT Next
INVARIANTS
    StoreMirrorsRunningCalls
    ObservabilityIsTransparent
    BuildsAreDrivable
    RejectedSendIsClean
    BodiesAreWhole
    TeardownReleases
    BytesInPlace
    ResponsesReleased
    EventsAreTheStreams
    ChallengesAnswered
    
PROPERTIES
    DeliveryIsFinal
CHECK_DEADLOCK FALSE
