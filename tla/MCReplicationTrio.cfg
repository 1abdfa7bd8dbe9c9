CONSTANTS
  Node = {a, b, c}
  NULL = NULL
  DB = {0}
  BacklogSize = 4
  MaxId = 6
  Budget <- TrioBudget
SPECIFICATION TrioSpec
CONSTRAINT TrioConstraint
SYMMETRY Symmetry
CHECK_DEADLOCK FALSE
INVARIANTS
  SecondHistory FeedIsComplete
