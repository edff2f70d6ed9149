SPECIFICATION FairSpec

CONSTANTS
  Tasks = {"t1", "t2"}
  None = "none"
  MaxOwned = 2

INVARIANTS
  DescriptorUsedWhileOpen
  RequestInSuspendedFrame
  ReleasedAfterClose

PROPERTIES
  FinishAttempts
  OperationsEnd

CHECK_DEADLOCK FALSE
