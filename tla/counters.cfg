CONSTANTS
  Series = {"a", "b"}
  Unique = {"b"}
  NDays = 3
  HoursPerDay = 2
  PerHour = 2
  MaxCalls = 2
  MaxRestarts = 1
  MaxGaps = 1
  WindowDays = 2
  MinObsDays = 1
SPECIFICATION Spec
INVARIANTS TypeOK DayNeverOvercounts HoursFitInDay IndexVerdictIsJustified
CHECK_DEADLOCK FALSE
