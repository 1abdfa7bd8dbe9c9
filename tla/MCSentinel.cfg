CONSTANTS
  NULL = 0
  Sentinel <- MCSentinels
  Instance <- MCInstance
  Host <- MCHost
  MaxEpoch = 2
  Configs <- Scenarios
SPECIFICATION Spec
CHECK_DEADLOCK FALSE
INVARIANTS
  OneVote
  OneLeader
  EpochsOrdered
  FailoverState
PROPERTIES
  MasterKept
  ConfigEpochGrows
