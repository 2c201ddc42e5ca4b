CONSTANTS
  Hooks = {h1, h2}
  Workers = {w1, w2}
  Syncers = {}
  Resolvers = {}
  None = None
  DrainLimit = 2
  MaxEdits = 2
  MaxFaults = 1
SPECIFICATION FairSpec
PROPERTY TailDemandHandled
PROPERTY ReservationYields
CHECK_DEADLOCK FALSE
