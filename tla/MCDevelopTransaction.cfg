CONSTANTS
  Paths = {p1, p2}
  Early = {}
  Record = Record
  MaxRounds = 2
  MaxRenders = 3
  MaxEdits = 1
  MaxCommits = 1
  MaxFaults = 2
SPECIFICATION AllSpec
INVARIANT LedgerMatches
PROPERTY EditsSurvive
PROPERTY RecoverySettles
PROPERTY SyncSettles
CHECK_DEADLOCK FALSE
