SPECIFICATION RuntimeSpec
CONSTANTS
  Procs = {m1, m2}
  Networked = TRUE
  Overlap = FALSE
  MaxFaults = 2
  Ids = {i1, i2}
  Stored = {i1}
  Groups = {"g1"}
  Tasks = {m1, m2}
  MaxDrops = 1
  Sessions = {m1, m2}
  Requests = {n1, n2}
  Seals = {1, 2}
  Ttl = 2
  MaxTime = 4
  MaxErrors = 1
  Calls = {m1, m2}
  MaxGen = 4
  MaxCrashes = 2
  RTasks = {m1, m2}
  Wallets = {w1}
  Objects = {n1, n2}
  None = None
  Gated = {"operationalKeyRotation"}
  MaxKeys = 3
  MaxAccounts = 2
  ApiIds = {"k1"}
  MaxTokens = 2
SYMMETRY Interchangeable
INVARIANTS
  RunningIsReachable
  
  LiveOrGone
  
  VaultIsReadable
  
  DerivedIsKept
  
CHECK_DEADLOCK FALSE
