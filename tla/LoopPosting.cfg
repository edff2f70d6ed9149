SPECIFICATION FairSpec

CONSTANTS
  Producers = {"producer", "loop"}
  LoopThread = "loop"
  Waiters = {"w1", "w2"}
  Capacity = 3
  DrainBudget = 2
  Handlers = {"h1", "h2"}
  NoHandler = "none"
  MaxPosts = 3

INVARIANTS
  ExactlyOnceInOrder
  CloseAfterDrain
  NoLostWakeup
  HandlerIsLastInstalled

PROPERTIES
  NoSendAfterClose
  KeepsLivePromise

CHECK_DEADLOCK FALSE
