CONSTANTS
  Machines = {m1, m2}
  Paths = {p1, p2}
  Values = {a}
  Absent = Absent
  None = None
  Missing = Missing
  MaxEdits = 2
  MaxCrashes = 1
  MaxDamage = 1
SPECIFICATION FairSpec
PROPERTY RestoreKeepsEdits
PROPERTY RecordsWhatIsHere
PROPERTY ImplementsLog
PROPERTY Converges
CHECK_DEADLOCK FALSE
