CONSTANTS
  Configs <- Scenarios
SPECIFICATION Spec
INVARIANTS
  ConnectionsServed
  ClientsKept
  CopiesAgree
PROPERTIES
  KeysSpared
CHECK_DEADLOCK FALSE
