SPECIFICATION Spec
CONSTANTS
  w1 = w1
  w2 = w2
  w3 = w3
  Writer = {w1, w2, w3}
  Op <- ThreeOps
  Mode <- ThreeModes
  Shapes <- FewShapes
  MaxIndex = 2
  Faults = TRUE
  ToolRuns = TRUE
  Nobody = Nobody
  Seed = Seed
  Tool = Tool
INVARIANTS
  ClaimExclusion
  ReplyFollowsOwnUser
  PromptIsPrefix
PROPERTIES
  NoOverwrite
  ImplementsLog
CHECK_DEADLOCK FALSE
