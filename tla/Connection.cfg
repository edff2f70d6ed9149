SPECIFICATION FairSpec

CONSTANTS
  Families = {"tcp", "pipe", "udp"}
  Tasks = {"t1", "t2", "t3"}
  None = "none"
  MaxAwaits = 2

INVARIANTS
  NoOperationWhileClosing
  SlotsAccounted
  FailureIsClosedFirst
  NoUseAfterDelete

PROPERTIES
  OperationsEnd

CHECK_DEADLOCK FALSE
