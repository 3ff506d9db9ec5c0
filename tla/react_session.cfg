SPECIFICATION FairSpec
CONSTANTS
  MaxStep = 3
  Carryover <- NoneToTwo
  MaxMessages = 1
  MaxDeltas = 2
  PipeSize = 2
  None = None
INVARIANTS
  StreamIsLegal
  SuccessIsWitnessed
  RecentObservationsStay
PROPERTIES
  EverySessionEnds
CHECK_DEADLOCK FALSE
