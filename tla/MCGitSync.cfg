CONSTANTS
  Targets = {t1}
  MaxCommits = 5
  Reserve = 2
  MaxEdits = 2
  MaxFaults = 2
  MaxDevelops = 1
  MaxChanges = 2
SPECIFICATION Spec
INVARIANT OnlyVerifiedPushed
INVARIANT SyncedIsPublished
PROPERTY TargetEditsSurvive
CHECK_DEADLOCK FALSE
