\* Every list of up to three inputs, every outcome, every order of the workers.
SPECIFICATION FairSpec
CONSTANTS
  InputLists <- MCInputLists
  Alphanumeric <- MCAlphanumeric
  Torn = Torn
INVARIANTS
  TypeOK
  UnitsInInputOrder
  FirstFailureReported
  NoFileOfPartialCompilation
  LastOfNameSurvives
  FailedWriteStopsThere
PROPERTY Returns
CHECK_DEADLOCK FALSE
