CONSTANTS
    Credentials = {k1}
    Chats = {g1}
    Inputs = {i1, i2}
    MayFail = TRUE
    Callers = {c1, c2}
    MaxStarts = 4
    MaxSeals = 3
SPECIFICATION Spec
SYMMETRY CallerSymmetry
CHECK_DEADLOCK FALSE
INVARIANTS
    ChatTellsTheChain
