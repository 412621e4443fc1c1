\* The three clients; the buffer of one frame makes the signet announce a gap.
SPECIFICATION ClientsSpec
CONSTANTS
    Sockets = {s1, s2}
    Requests = {r1}
    NoSocket = NoSocket
    BufferSize = 1
    MaxAttempts = 2
    MaxSeq = 3
    MaxDrops = 1
    Conns = {c1, c2}
    NoConn = NoConn
    Torn = Torn
    ReplaySize = 2
    MaxRetries = 1
    QuickRestart = FALSE
    MaxEvents = 3
    MaxFaults = 2
    MaxRequests = 2
INVARIANTS
    
    DeliveredOnce
    OkMeansDone
PROPERTIES
    ReconnectSettles
    
CHECK_DEADLOCK FALSE
