SPECIFICATION FairSpec
CONSTANTS
  MaxStarts = 1
  MaxRaws = 1
  QueueMax = 2
  MaxFailures = 0
  MaxInterrupts = 1
PROPERTY CtrlCEndsWatcher
CHECK_DEADLOCK FALSE
