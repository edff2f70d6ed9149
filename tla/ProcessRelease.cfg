SPECIFICATION Spec

CONSTANTS
  Families = {"process"}
  ReleasedInCompletion = {"process"}
  Tasks = {"t1", "t2"}
  None = "none"
  MaxAwaits = 2
  MaxEvents = 1

INVARIANTS
  NoUseAfterDelete

CHECK_DEADLOCK FALSE
