CONSTANTS
    s1 = s1
    s2 = s2
    Operators = {op1}
    NoOperator = NoOperator
    Chats = {c1}
    Scopes <- MCScopes
    ScopeSets <- MCScopeSets
    Ttls = {2}
    RevealEnds = {1}
    MaxConcurrent = 1
    RenewalWindow = 1
    HeartbeatLimit = 1
    MaxCredentials = 2
    MaxTime = 2
    MaxWaiting = 1
SPECIFICATION Spec
INVARIANTS
    ActiveWithinLimit
    HashMatchesPolicy
    CopiesAreFreshOrStale
    RevocationsReported
PROPERTIES
    NeverReactivated
