SPECIFICATION AllSpec
CONSTANTS
  MaxSnapshots = 4
  MaxFaults = 5
  w1 = w1
  c1 = c1
  c2 = c2
  r1 = r1
  r2 = r2
  p1 = p1
  p2 = p2
  s1 = s1
  s2 = s2
  f1 = f1
  k1 = k1
  Writers = {w1}
  MaxRuns = 2
  ReplaceEdits = 3
  ReplaceFaults = 1
  Commands = {c1, c2}
  Remotes = {r1}
  MaxDecisions = 1
  MigrationFaults = 2
  Repositories = {r1, r2}
  MaxSetups = 2
  ConfigEdits = 1
  ConfigFaults = 1
  Reporters = {p1, p2}
  Sessions = {s1, s2}
  Failures = {f1}
  Conflicts = {k1}
  MaxReports = 3
  MaxAcks = 1
INVARIANTS
  Recoverable
  NoEditLost
  MigratesOnce
  AuthorizedIsSetUp
  ShownOnce
PROPERTIES
  BaselineKeepsReconciling
  MigrationEnds
  FailureIsTold
CHECK_DEADLOCK FALSE
