CONSTANTS
  Operators = {"host", "laptop"}
  Sections <- TwoScreens
  Polls = 1
  MaxRuns = 2
  MaxCode = 2
  MaxLate = 1
SPECIFICATION Spec
INVARIANTS TypeOK BoardsAreEmptyOrWhole NothingIsMadeTwice RunLeavesItsScreens
CHECK_DEADLOCK FALSE
