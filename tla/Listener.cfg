SPECIFICATION FairSpec

CONSTANTS
  Tasks = {"t1", "t2", "t3"}
  None = "none"
  MaxAwaits = 3

INVARIANTS
  NoUseAfterClose
  ChildrenAccounted

PROPERTIES
  OperationsEnd

CHECK_DEADLOCK FALSE
