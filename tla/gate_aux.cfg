CONSTANTS
  Tables = {"plan_snapshot", "wait_event_snapshot"}
  Instances = {1}
  Rows = {1, 2}
  LastDay = 1
  Jobs = {"offload_aux", "cli"}
  DimJobs = {}
  JobTables <- AuxWalk
  Retries <- NoRetries
  Retention <- KeptForGate
  SourceDays = {0}
  MaxRuns = 2
  FreshnessWarnHours = 3
  FreshnessFailHours = 12
  GateJob = "offload_aux"
  Profile <- TableProfiles
  Gap <- RowGaps
  Schemas <- NoDrift
  Expected <- Contract
SPECIFICATION GateSpec
INVARIANTS GateTypeOK EqualCountsMeanSameRows
CHECK_DEADLOCK FALSE
