CONSTANTS
  Instances = {1, 2}
  LastDay = 2
  MaxGap = 0
  Retention = 2
  MaxRuns = 3
  MaxUpdates = 2
SPECIFICATION Spec
INVARIANTS CopiesInTimeAreServed BreachIsNotALag
PROPERTY ServedBackupsStay
CHECK_DEADLOCK FALSE
