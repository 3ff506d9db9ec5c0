SPECIFICATION Spec
CONSTANTS
  w1 = w1
  w2 = w2
  w3 = w3
  Nobody = Nobody
  Seed = Seed
  Tool = Tool
  o1 = o1
  o2 = o2
  p1 = p1
  p2 = p2
  here = here
  Legacy = Legacy
  a1 = a1
  a2 = a2
  a3 = a3
  d1 = d1
  d2 = d2
INVARIANTS
  ConflictWritesNothing
PROPERTIES
  EveryRunEnds
  RaceHasWinner
  DeadDoNotBlock
  PhasesTakeTurns
CHECK_DEADLOCK FALSE
