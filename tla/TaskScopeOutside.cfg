SPECIFICATION Spec

CONSTANTS
  Children = {"c1", "c2", "c3"}
  Parent = "parent"
  MaxAwaits = 1

INVARIANTS
  StopLoopOutlived

CHECK_DEADLOCK FALSE
