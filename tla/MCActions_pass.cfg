SPECIFICATION ActionsSpec
CONSTANTS
  Creds = {"c1"}
  HCalls = {1, 2}
  Held = {"a1"}
  MaxEffects = 2
  Joiners = {"j1"}
  MaxTags = 2
  MaxPolls = 2
  MaxScans = 2
  MaxRestarts = 1
  Inboxes = {"i1", "i2"}
  Operators = {"o1", "o2"}
  ITasks = {1}
  Overlapping = FALSE
  g1 = g1
  g2 = g2
  t1 = t1
  t2 = t2
  Chats = {g1, g2}
  ChTasks = {t1, t2}
  MaxLocal = 2
  MaxWrites = 1
SYMMETRY Interchangeable
INVARIANTS
  
  
  JoinOutcome
  LinksAreSound
  ReadsAreCovered
  PurgedIsRevoked
CHECK_DEADLOCK FALSE
