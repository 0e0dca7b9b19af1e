SPECIFICATION FairSpec
CONSTANTS
  MaxThreads = 4
  MaxJobs = 4
  Tags = {"flush", "none"}
INVARIANTS
  WorkersAwake
PROPERTIES
  JobsRun
  JoinReturns
CHECK_DEADLOCK FALSE
