SPECIFICATION FairSpec

CONSTANTS
  Families = {"signal", "poll", "fs_event", "process"}
  ReleasedInCompletion = {"signal", "poll", "fs_event"}
  Tasks = {"t1", "t2"}
  None = "none"
  MaxAwaits = 2
  MaxEvents = 3

INVARIANTS
  UnseenIsPending
  SlotAccounted
  ArmedWhenUseful
  NoUseAfterDelete

PROPERTIES
  CloseCompletes

CHECK_DEADLOCK FALSE
