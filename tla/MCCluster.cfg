SPECIFICATION Spec
CONSTANTS
  Node <- MCNode
  Slot <- MCSlot
  Configs <- Scenarios
  MaxEpoch = 6
  MaxOffset = 3
INVARIANTS
  EpochsBounded
  OneVote
  ElectedOnce
  SlavesKept
  FailByMajority
  SettledAgree
  KeysServed
PROPERTY ManualNoLoss
CHECK_DEADLOCK FALSE
