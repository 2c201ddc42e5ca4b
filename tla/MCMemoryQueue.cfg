CONSTANTS
  Hooks = {h1, h2}
  Workers = {w1, w2}
  Syncers = {s1}
  Resolvers = {r1}
  None = None
  DrainLimit = 2
  MaxEdits = 1
  MaxFaults = 1
SPECIFICATION Spec
SYMMETRY Symmetry
INVARIANT SingleDrainer
INVARIANT NoLostTrigger
CHECK_DEADLOCK FALSE
