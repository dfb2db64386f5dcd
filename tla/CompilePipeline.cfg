SPECIFICATION Spec
CONSTANTS
  Depth = 6
  Programs <- SoundPrograms
CHECK_DEADLOCK FALSE
INVARIANTS
  TypeOK
  LoweringKeepsMeaning
  MeaningKept
  ShapesTrue
  NamesResolved
