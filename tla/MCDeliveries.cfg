SPECIFICATION AllSpec
CONSTANTS
  p1 = p1
  p2 = p2
  w1 = w1
  w2 = w2
  f1 = f1
  t1 = t1
  l1 = l1
  Contracts = {1, 2}
  Assets = {1}
  Input <- InputOf
  Procs = {p1, p2}
  Keep = 1
  KeepReceipts = 0
  Builds = {1, 2, 3, 4, 5, 6}
  MaxUpgrades = 2
  MaxFaults = 1
  Workers = {w1, w2}
  Outputs = {f1}
  MaxWrites = 4
  CleanupFaults = 1
  Generated = {t1}
  Legacy = {l1}
  MaxEdits = 2
  InstallFaults = 2
INVARIANTS OneBuild LocksExclude OnlyPlannedGoes LegacyKept
PROPERTIES PublicStaysReadable GetsPrepared
CHECK_DEADLOCK FALSE
