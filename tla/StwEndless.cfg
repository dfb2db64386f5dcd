\* Two mutators that stay bound, one collection: it ends and both go on.
SPECIFICATION FairSpec
CONSTANTS
  NumThreads = 2
  Iterations = 1
  Endless <- EveryThread
  MaxGcs = 1
  MaxPanics = 0
PROPERTIES
  PauseEnds
  ParkedMutatorsResume
CHECK_DEADLOCK FALSE
