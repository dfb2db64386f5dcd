\* Two processes over two texts of one file and the example.
SPECIFICATION FairSpec
CONSTANTS
  r1 = r1
  r2 = r2
  old = old
  new = new
  example = example
  a = a
  e = e
  Runs = {r1, r2}
  Programs = {old, new, example}
  Modules = {a, e}
  ModuleOf <- MCModuleOf
  Example = example
  Absent = Absent
  Torn = Torn
  Libraries = {1, 2}
  CurrentName = 1
  MaxEdits = 1
  MaxKills = 1
INVARIANTS
  TypeOK
  RunShowsOwnProgram
  FailureHasCause
  ModulesIsolated
  RuntimeUpToDate
PROPERTY Returns
CHECK_DEADLOCK FALSE
