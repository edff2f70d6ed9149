SPECIFICATION FairSpec

CONSTANTS
  Children = {"c1", "c2", "c3"}
  Parent = "parent"
  MaxAwaits = 2

INVARIANTS
  NoFrameDestroyedInUse
  RegistrationsLive

PROPERTIES
  JoinOutcome
  StopUnblocksJoin

CHECK_DEADLOCK FALSE
