CONSTANTS
  Targets = {t1}
  MaxCommits = 4
  Reserve = 1
  MaxEdits = 3
  MaxFaults = 0
  MaxDevelops = 0
  MaxChanges = 3
SPECIFICATION Spec
INVARIANT ConflictsStayLocal
CHECK_DEADLOCK FALSE
