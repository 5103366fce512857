CONSTANTS
  Writers = {"task", "zombie", "cli"}
  Size <- Filled
  Initial = 0
  MaxRuns = 3
SPECIFICATION Spec
PROPERTY ImplementsBaseline
CHECK_DEADLOCK FALSE
