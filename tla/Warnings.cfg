\* three devices, times in any order, windows and a cooldown that end at different times
CONSTANTS
  Device = {d1, d2, d3}
  Unknown = unknown
  Host = host
  ConnectWindow = 1
  EventWindow = 2
  NewWindow = 2
  MinConnects = 2
  MinEvents = 3
  MinNew = 2
  FactSet <- MCFactSet
  Cooldown = 2
  MaxTime = 4
  MaxEvents = 3
  MaxFailures = 1
SYMMETRY MCSwap
SPECIFICATION WarningsSpec
INVARIANTS WindowsAreExact CriticalTakesBehaviour AlertsHaveCause NothingSlips
CHECK_DEADLOCK FALSE
