\* the coalescer on the notifications of two sticks
CONSTANTS
  none = none
  None = none
  Raw <- MCRaw
  UsbPath <- MCUsbPath
  Casefold <- MCCasefold
  Quiet = 2
  MaxWait = 3
  MaxTime = 3
  MaxRaws = 4
SPECIFICATION Spec
INVARIANTS NoMixedEvents EachRawOnce BurstsWithinWindows
PROPERTIES IsACoalescer
