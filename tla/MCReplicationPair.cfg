CONSTANTS
  Node = {a, b}
  NULL = NULL
  DB = {0, 1}
  BacklogSize = 4
  MaxId = 5
  Budget <- PairBudget
SPECIFICATION PairSpec
CONSTRAINT PairConstraint
SYMMETRY Symmetry
CHECK_DEADLOCK FALSE
INVARIANTS
  BacklogWindow MasterObjectAgrees SameHistory
