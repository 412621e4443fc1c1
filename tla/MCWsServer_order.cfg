SPECIFICATION Spec
INVARIANT LiveFramesInOrder
INVARIANT ResumeIsComplete
CONSTANTS
    Conns = {c1, c2}
    Credentials = {k1}
    Ids = {}
    BufferSize = 2
    SoftLimit = 1
    HardLimit = 2
    InOrder = FALSE
    MayFail = FALSE
    MayBlock = FALSE
    MayStop = FALSE
    MaxEvents = 3
    MaxBeats = 1
    MaxAuths = 2
    MaxFaults = 0
    MaxVersion = 2
    MaxLookups = 2
    None = None
SYMMETRY ConnSymmetry
CHECK_DEADLOCK FALSE
