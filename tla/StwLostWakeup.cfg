\* The stress of abi.rs: two workers, one collection, no panic.
SPECIFICATION FairSpec
CONSTANTS
  NumThreads = 2
  Iterations = 1
  Endless <- NoThread
  MaxGcs = 1
  MaxPanics = 0
PROPERTY StressReturns
CHECK_DEADLOCK FALSE
