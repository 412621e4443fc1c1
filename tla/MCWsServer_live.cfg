SPECIFICATION FairSpec
INVARIANTS
    NoStaleProjection
    AnsweredOnce
PROPERTIES
    RevokedSocketsClose
    RequestsSettle
CONSTANTS
    Conns = {c1}
    Credentials = {k1}
    Ids = {i1}
    BufferSize = 2
    SoftLimit = 1
    HardLimit = 2
    InOrder = TRUE
    MayFail = TRUE
    MayBlock = TRUE
    MayStop = TRUE
    MaxEvents = 1
    MaxBeats = 0
    MaxAuths = 1
    MaxFaults = 1
    MaxVersion = 2
    MaxLookups = 1
    None = None
CHECK_DEADLOCK FALSE
