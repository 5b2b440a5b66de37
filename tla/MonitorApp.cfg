\* one window, three starts
CONSTANTS
  MaxStarts = 3
  MaxQueued = 2
SPECIFICATION FairWindowSpec
INVARIANTS NeverLockedOut
PROPERTIES StopIsHeard
CHECK_DEADLOCK FALSE
