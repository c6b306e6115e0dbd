SPECIFICATION FairSpec
CONSTANTS
  EventCapacity = 1
  DriveTimeout = 1
  LinkTimeout = 1
  CalLinkTimeout = 1
  ArmingDuration = 1
  SetpointMaxAge = 1
  NoiseTicks = 0
  RequestQueueLen = 1
  ActionQueueLen = 3
  MaxRuns = 0
  Sessions <- MCSessions
  PreemptAt <- MCPreemptAt
INVARIANTS
  TypeOK
  EscFollowsSequence
  ActionNeverDropped
  CompassNeverArmed
PROPERTIES
  DisarmDelivered
  ArmingResolves
  ImplementsArming
