SPECIFICATION FairSpec
CONSTANTS
  MaxReinitAttempts = 3
  RxDepth = 1
  TxQueueDepth = 1
  Sizes <- MCSizes
  ReassemblyCap = 4
  MaxLosses = 1
INVARIANTS
  RadioTypeOK
  RxThreadNotBehindSend
  TeardownsBounded
PROPERTIES
  DeliveredWhole
  Healing
