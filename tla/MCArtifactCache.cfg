SPECIFICATION FairSpec
CONSTANTS
  p1 = p1
  p2 = p2
  Procs = {p1, p2}
  Keys = {1, 2, 4}
  Id <- AssetOf
  Keep = 1
  MaxUnits = 2
  Nonces = {1, 2}
  MaxUses = 4
  MaxFaults = 1
INVARIANT BoundHolds
PROPERTIES EvictsOldest GetsClean
CHECK_DEADLOCK FALSE
