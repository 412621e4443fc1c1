CONSTANTS
    Credentials = {k1}
    Chats = {g1, g2}
    Inputs = {i1, i2}
    MayFail = TRUE
    Callers = {c1}
    MaxStarts = 4
    MaxSeals = 3
SPECIFICATION FairSpec
CHECK_DEADLOCK FALSE
PROPERTIES
    ImplementsSealChain
    
