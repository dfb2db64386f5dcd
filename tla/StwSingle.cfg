\* The one mutator of a program built by run_path: it always finishes.
SPECIFICATION FairSpec
CONSTANTS
  NumThreads = 1
  Iterations = 3
  Endless <- NoThread
  MaxGcs = 3
  MaxPanics = 0
PROPERTY StressReturns
CHECK_DEADLOCK FALSE
