\* The same with two collections and a condition variable that never keeps a
\* sleeper for ever.
SPECIFICATION WakingSpec
CONSTANTS
  NumThreads = 2
  Iterations = 1
  Endless <- NoThread
  MaxGcs = 2
  MaxPanics = 0
PROPERTY StressReturns
CHECK_DEADLOCK FALSE
