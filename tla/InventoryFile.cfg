\* the monitor, its window and the trust command, with mishaps
CONSTANTS
  Device = {"d1", "d2"}
  Instance = {"monitor", "command"}
  Thread = {"worker", "window", "command"}
  Worker = {"worker"}
  Uses <- MCUses
  MaxChanges = 4
  MaxMishaps = 2
SPECIFICATION Spec
INVARIANT FileCatchesUp
PROPERTIES HistoryRemains TrustIsTheOperators
CHECK_DEADLOCK FALSE
