CONSTANTS
  LastDay = 5
  Plans = {"A", "B"}
  Latencies = {1, 3}
  DayCalls = 60
  Sizes = {1, 2, 4, 45}
  PlanWindow = 2
  RegressRatio = 130
  MinCalls = 100
  ChangeDay = 1
  ImpactWindow = 1
  ImpactRatio = 130
  MaxGap = 2
  SizeWindow = 3
  MinSizeDays = 3
  Threshold = 40
SPECIFICATION MartSpec
INVARIANTS SlowerIsNotImproved FlagMatchesDays
PROPERTIES VerdictsBecomeFinal BackupIsNotThePipeline
CHECK_DEADLOCK FALSE
