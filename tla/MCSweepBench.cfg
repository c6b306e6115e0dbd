SPECIFICATION ArmedSpec
CONSTANTS
  EventCapacity = 1
  DriveTimeout = 1
  LinkTimeout = 1
  CalLinkTimeout = 1
  ArmingDuration = 1
  SetpointMaxAge = 1
  NoiseTicks = 1
  RequestQueueLen = 1
  ActionQueueLen = 3
  MaxRuns = 1
  Sessions <- MCSessions
  PreemptAt <- MCPreemptAt
INVARIANTS
  SweepExcludesBench
