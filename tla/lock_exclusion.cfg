SPECIFICATION Spec
CONSTANTS
  o1 = o1
  o2 = o2
  o3 = o3
  p1 = p1
  p2 = p2
  p3 = p3
  here = here
  there = there
  Operation = {o1, o2, o3}
  Process = {p1, p2, p3}
  Host = {here, there}
  ProcessOf <- OneEach
  HostOf <- TwoHosts
  MaxAttempts = 2
  Faults = TRUE
  Legacy = Legacy
INVARIANTS
  MutualExclusion
PROPERTIES
  OnlyDeadLocksAreRemoved
CHECK_DEADLOCK FALSE
SYMMETRY Swap
