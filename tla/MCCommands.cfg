SPECIFICATION Spec
CONSTANTS
  DB = {0, 1}
  STR = STR
  NULL = NULL
  c1 = c1
  c2 = c2
  c3 = c3
  s1 = s1
  s2 = s2
  Client = {c1, c2, c3}
  Slave = {s1, s2}
  Name <- Names
  Configs <- Scenarios
SYMMETRY Symmetry
INVARIANTS
  BlockedClients
  StreamRebuildsData
PROPERTIES
  WatchIsolation
  WaitIsTrue
CHECK_DEADLOCK FALSE
