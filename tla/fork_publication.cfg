SPECIFICATION Spec
CONSTANTS
  f1 = f1
  f2 = f2
  a1 = a1
  a2 = a2
  a3 = a3
  Nobody = Nobody
  Fork = {f1, f2}
  Artifact = {a1, a2, a3}
  Selected = {a1, a2}
  Touched = {a1, a2, a3}
  Changes = 2
  Squatters = TRUE
  Faults = TRUE
SYMMETRY Symmetric
INVARIANTS
  ForkExclusion
PROPERTIES
  ImplementsCopy
CHECK_DEADLOCK FALSE
