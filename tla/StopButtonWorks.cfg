\* Start right after Stop
CONSTANTS
  MaxStarts = 2
  MaxQueued = 2
SPECIFICATION WindowSpec
INVARIANT StopButtonWorks
CHECK_DEADLOCK FALSE
