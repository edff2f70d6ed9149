SPECIFICATION FairSpec

CONSTANTS
  Roots = {"r1", "r2"}
  Joiners = {"j1", "j2"}
  MaxAwaits = 1

INVARIANTS
  OneDestination
  NoFailureLost
  StateLivesAsNeeded

PROPERTIES
  JoinersResume
  AbandonedRootEnds

CHECK_DEADLOCK FALSE
