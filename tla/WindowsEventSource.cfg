SPECIFICATION FairSpec
CONSTANTS
  MaxStarts = 2
  MaxRaws = 3
  QueueMax = 2
  MaxFailures = 2
  MaxInterrupts = 1
INVARIANT StopReachesWatcher
INVARIANT NothingLeftBehind
INVARIANT RunningUntilStop
INVARIANT OnlyOverflowDrops
PROPERTY StopEndsWatcher
PROPERTY IsAnEventSource
CHECK_DEADLOCK FALSE
