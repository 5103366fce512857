CONSTANTS
  Tables = {"plan_snapshot", "wait_event_snapshot"}
  Instances = {1}
  Rows = {1, 2}
  LastDay = 1
  Jobs = {"offload_aux", "cli"}
  DimJobs = {"offload_aux"}
  JobTables <- RivalWalk
  Retries <- TaskRetries
  Retention <- KeptADay
  SourceDays = {0}
  MaxRuns = 2
SPECIFICATION Spec
INVARIANT VanishedOnlyMidRewrite
PROPERTY NoDeleteWithoutRows
CHECK_DEADLOCK FALSE
