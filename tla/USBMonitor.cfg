\* the pipeline with failures and Ctrl+C, and what its worker owes
CONSTANTS
  MaxRaws = 3
  Connects <- MCPlugAndDisk
  Noise <- MCDisk
  MaxFailures = 1
  MaxInterrupts = 1
SPECIFICATION FairSpec
INVARIANTS EachRawOnce CleanShutdown DerivedFollowsConnect StoreFollowsStream
PROPERTIES StopEnds EveryRawReported UsesACoalescer UsesASource
CHECK_DEADLOCK FALSE
