SPECIFICATION ChainFairSpec
CONSTANTS
  Word <- MCWord
  Sequence = "sequence"
  Observer = {}
  MaxSequence = 3
PROPERTIES ControlReadEnds
CHECK_DEADLOCK FALSE
