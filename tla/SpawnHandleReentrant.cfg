SPECIFICATION Spec
CONSTANTS
  Roots = {"r1", "r2"}
  Joiners = {"j1"}
  MaxAwaits = 1
INVARIANTS
  HandlerIsReentrant
CHECK_DEADLOCK FALSE
