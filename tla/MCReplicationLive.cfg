CONSTANTS
  Node = {a, b, c}
  NULL = NULL
  DB = {0}
  BacklogSize = 4
  MaxId = 8
  Budget <- LiveBudget
SPECIFICATION LiveSpec
CHECK_DEADLOCK FALSE
PROPERTY EventuallySynced
