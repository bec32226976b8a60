SPECIFICATION Spec
CONSTANTS
  Loads <- LimitedBatch
  MaxFailures = 0
  MaxCrashes = 0
INVARIANTS
  MaxRowsAfterFilter
