CONSTANTS
  Paths = {p1, p2}
  Early = {p1}
  Record = Record
  MaxRounds = 2
  MaxRenders = 3
  MaxEdits = 0
  MaxCommits = 0
  MaxFaults = 2
SPECIFICATION Spec
INVARIANT LedgerMatches
CHECK_DEADLOCK FALSE
