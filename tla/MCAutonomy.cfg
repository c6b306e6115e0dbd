SPECIFICATION FairSpec
CONSTANTS
  SetpointMaxAge = 0
  MaxRuns = 2
  MaxStops = 1
  MaxRequests = 2
  HomeFixes = 3
  ArriveFixes = 1
  FrozenFixes = 1
  JumpAcceptFixes = 1
  RecordCapacity = 2
  ActivePeriod = 1
  IdlePeriod = 2
  Settings <- MCSettings
  Situations <- MCSituations
  PreemptAt <- MCPreemptAt
  ControlInputs <- MCControlInputs
INVARIANTS
  AutonomyTypeOK
  RecordIsOneRun
  RecordingGoesOn
PROPERTIES
  StoppedRunNeverDrives
  BufferNotShared
  ImplementsMissionRuns
  EndReported
