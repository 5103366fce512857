CONSTANTS
  Instances = {"a", "b"}
  AuxTables = {}
  LastDay = 2
  Window = 1
  Retries <- NoRetries
  MaxRuns = 2
  MaxRefreshes = 0
SPECIFICATION Spec
INVARIANT NoMartOnHalfDay
CHECK_DEADLOCK FALSE
