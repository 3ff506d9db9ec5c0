SPECIFICATION ExecSpec
CONSTANTS
  c1 = c1
  c2 = c2
  c3 = c3
  Earlier = Earlier
  Partial = Partial
  Nobody = Nobody
  Client = {c1, c2, c3}
  Overwriting = {c3}
  Faults = TRUE
INVARIANTS
  NoOverlap
PROPERTIES
  NoReplay
CHECK_DEADLOCK FALSE
