CONSTANTS
  Instances = {a, b}
  AuxTables = {"plan_snapshot"}
  LastDay = 2
  Window = 1
  Retries <- OneRetry
  MaxRuns = 2
  MaxRefreshes = 1
SPECIFICATION Spec
INVARIANT HeartbeatMeansServed
PROPERTIES OnlyRefreshShrinksDays PublishedOnlyByWholeDay
SYMMETRY SameInstances
CHECK_DEADLOCK FALSE
