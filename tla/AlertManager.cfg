\* consider() with event timestamps in any order
CONSTANTS
  d1 = d1
  unknown = unknown
  host = host
  Device <- MCDevice
  Unknown = unknown
  Host = host
  Assessment <- MCAssessment
  Cooldown = 2
  MaxTime = 3
  MaxConsidered = 4
SPECIFICATION Spec
INVARIANTS CooldownHolds SilenceIsJustified
CHECK_DEADLOCK FALSE
