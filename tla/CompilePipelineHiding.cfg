SPECIFICATION Spec
CONSTANTS
  Depth = 6
  Programs <- HidingPrograms
CHECK_DEADLOCK FALSE
INVARIANT MeaningKept
