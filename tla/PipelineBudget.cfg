SPECIFICATION Spec
CONSTANTS
  Requests <- OverBoth
  MaxRow = 2
  MaxAttempts = 1
  MaxFaults = 0
INVARIANT BudgetIsOfPaths
CHECK_DEADLOCK FALSE
