SPECIFICATION FairSpec
CONSTANTS
  DB <- MCDB
  NULL = NULL
  Configs <- Scenarios
INVARIANTS
  LogsRebuildData
  PostponedTwoSeconds
  AckedIsDurable
PROPERTIES
  FirstRewriteDone
CHECK_DEADLOCK FALSE
