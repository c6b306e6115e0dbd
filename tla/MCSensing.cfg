SPECIFICATION MCSpec
CONSTANTS
  Word <- MCWord
  Sequence = "sequence"
  Observer = {"Snapshot"}
  MaxSequence = 3
  FailLimit = 3
  RecoverEvery = 4
  FreezeLimit = 3
  StillLimit = 3
  First = "A"
  Second = "B"
  Part <- MCPart
  Available <- MCTof
  MaxTime = 5
  RingSize = 4
  EventQueueLen = 3
  MaxCalRuns = 3
INVARIANTS
  SensingTypeOK
  SamplesWhole
  SampleReadable
  ImuReported
  FramesWhole
  ReadNeverWaits
  CalibrationKept
PROPERTIES
  FramesProcessed
CHECK_DEADLOCK FALSE
