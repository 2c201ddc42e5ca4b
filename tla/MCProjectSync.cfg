SPECIFICATION FairSpec
CONSTANTS
  Procs = {p1, p2}
  N = 3
  Stamp = 1
  Retired = {3}
  MaxVersion = 3
  MaxEdits = 2
  MaxFaults = 1
INVARIANTS
  UncutNoFalseUpgrade
PROPERTIES
  EditsSurvive
  RollbackRestores
  GetsInstalled
CHECK_DEADLOCK FALSE
