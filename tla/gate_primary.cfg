CONSTANTS
  Tables = {"query_snapshot"}
  Instances = {1, 2}
  Rows = {1, 2}
  LastDay = 1
  Jobs = {"offload"}
  DimJobs = {}
  JobTables <- PrimaryTables
  Retries <- OneRetry
  Retention <- KeptTwoDays
  SourceDays = {0}
  MaxRuns = 2
  FreshnessWarnHours = 3
  FreshnessFailHours = 12
  GateJob = "offload"
  Profile <- TableProfiles
  Gap <- RowGaps
  Schemas <- SourceSchemas
  Expected <- Contract
SPECIFICATION GateSpec
INVARIANTS DoneMeansArchived PassedDayIsArchived NoEmptyDayPasses
PROPERTY WindowedRerunKeepsRows
CHECK_DEADLOCK FALSE
