\* two sticks of one model
CONSTANTS
  none = none
  None = none
  Event <- MCEvent
  Level = {"HIGH"}
  MaxObserved = 4
SPECIFICATION Spec
CONSTRAINT OneAssessed
INVARIANTS TypeOK EveryConnectCountedOnce FirstSeenOnce SerialsStaySeparate TrustIsKept AccusedForCause
CHECK_DEADLOCK FALSE
