\* Three mutators, two collections, one panic, spurious wake-ups.
SPECIFICATION Spec
CONSTANTS
  NumThreads = 3
  Iterations = 1
  Endless <- NoThread
  MaxGcs = 2
  MaxPanics = 1
INVARIANTS
  TypeOK
  CaptivesStayBlocked
  EveryCaptiveScanned
  NoSleepAfterResume
  RegisteredContextsLive
PROPERTY ImplementsStopTheWorld
CHECK_DEADLOCK FALSE
