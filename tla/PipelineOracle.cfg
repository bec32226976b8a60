SPECIFICATION Spec
CONSTANTS
  Requests <- OneTable
  MaxRow = 2
  MaxAttempts = 2
  MaxFaults = 0
INVARIANTS
  OracleLoads
CHECK_DEADLOCK FALSE
