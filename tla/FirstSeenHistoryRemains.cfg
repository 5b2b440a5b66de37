\* one monitor and its window, nothing fails
CONSTANTS
  Device = {"d1", "d2"}
  Instance = {"monitor"}
  Thread = {"worker", "window"}
  Worker = {"worker"}
  Uses <- MCUses
  MaxChanges = 4
  MaxMishaps = 0
SPECIFICATION Spec
INVARIANT FirstSeenHistoryRemains
CHECK_DEADLOCK FALSE
