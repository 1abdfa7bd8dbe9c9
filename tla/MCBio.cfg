CONSTANTS
  Ops = {"lazyfree"}
  Callers <- MCCallers
  Job = {j1, j2}
  MaxJobs = 2
SPECIFICATION FairSpec
INVARIANTS
  ExactlyOnceInOrder
  PendingZeroIsQuiescent
PROPERTIES
  EveryJobRuns
