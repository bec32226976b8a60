SPECIFICATION PartsSpec
CONSTANTS
  Word = 32
  MaxRows = 15
  Columns <- SmallColumns
  I64 = 8
  NaN = 99
  K = 2
  Specs <- SmallSpecs
  Validations <- SmallValidations
  Profiles <- SmallProfiles
  Detections <- SmallDetections
  IdxSize = 8
  Trips <- SmallTrips
  Requests <- AllRequests
  MaxRow = 2
  MaxAttempts = 3
  MaxFaults = 2
  Threads = {t1, t2}
  MaxRuns = 2
  Chunks = 2
  RowsEach = 2
INVARIANTS
  ReturnsTheChunks
  ReduceIsExact
  FirstBestRow
  SpecIsApplied
  VerdictsHold
  QuantilesAreOwn
  OutliersAreFew
  InterchangeKeepsCells
  AnswerIsTrue
  SinksAreSound
  PostgresAndMssqlLoad
  PeakIsRecorded
  UntornSnapshot
CHECK_DEADLOCK FALSE
