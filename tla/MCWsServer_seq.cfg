SPECIFICATION Spec
INVARIANT SeqRisesOnConnection
CONSTANTS
    Conns = {c1, c2}
    Credentials = {k1}
    Ids = {}
    BufferSize = 2
    SoftLimit = 1
    HardLimit = 2
    InOrder = FALSE
    MayFail = FALSE
    MayBlock = FALSE
    MayStop = FALSE
    MaxEvents = 2
    MaxBeats = 0
    MaxAuths = 2
    MaxFaults = 1
    MaxVersion = 0
    MaxLookups = 1
    None = None
SYMMETRY ConnSymmetry
CHECK_DEADLOCK FALSE
