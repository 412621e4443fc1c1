SPECIFICATION PolicySpec
CONSTANTS
  Scopes = {"send", "react", "reply"}
  ChatMessages <- Messages
  Grants <- ReadGrants
  ScopedChats = {"g1", "g2"}
  MaxReveals = 2
  MaxClock = 2
  Requesters = {"r1"}
  MaxRequests = 2
  Window = 2
  MaxTime = 6
  SealCallers = {"c1", "c2"}
  MaxSignings = 3
  ClockSkew = 1
  TokenTtls = {1, 3}
  MaxDrift = 2
  MaxSeconds = 6
  OperatorIds = {"o1", "o2"}
  PolicyIds = {"p1"}
  CredentialIds = {"k1"}
  Labels = {"alpha", "beta"}
  Inboxes <- KnownInboxes
  Mappings <- KnownMappings
  Callers = {a1, a2}
  MaxActions = 2
SYMMETRY CallerSymmetry
INVARIANTS
  EscalationIsExact
  DeltaIsComplete
  OverlapsAreSafe
  ContradictionsAreRejected
  ShownWasAllowed
  AnswersFitTheClocks
  NamesReachTheirBearer
CHECK_DEADLOCK FALSE
