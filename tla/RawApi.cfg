SPECIFICATION FairSpec
CONSTANTS
  Kinds = {"timer", "signal", "poll", "fs_event", "fs_poll", "loop_watcher", "async", "listener", "stream", "udp", "process"}
  MaxStarts = 4
  MaxGeneration = 7
  Families = {"stream", "pool", "work", "fs", "owned"}
  MaxSubmits = 3
  MaxThreads = 3
INVARIANTS
  DeliversCurrentSubscription
  CapturesReleased
  LoansPaired
  CallableMatchesFlight
  ResultsOwned
  ThreadStateFreedOnce
PROPERTIES
  SubmissionsComplete
CHECK_DEADLOCK FALSE
