SPECIFICATION Spec
CONSTANTS
  Sources <- AllSources
  Records <- SomeRecords
  Components = {1, 2, 3, 4}
  HiveNames = {3, 4}
  Trees <- SomeTrees
  MaxListed = 3
  c1 = c1
  c2 = c2
  c3 = c3
  Calls = {c1, c2, c3}
  Requests <- SomeRequests
  Stamps = {1, 2}
  MaxParts = 2
  j1 = j1
  j2 = j2
  JvmThreads = {j1, j2}
  Invocations <- SmallInvocations
  Clock = {1, 2}
  DefaultCap = 2
SYMMETRY AnyThread
INVARIANTS
  RowsAreTheFiles
  ErrorIsFirst
  InferredSchemaReads
  ReadsBackWords
  OneSequence
  AnswersAreOwn
  LeftoversAreFailures
  NothingLeaks
  JvmAnswerIsTrue
  SparkGetsItsRows
CHECK_DEADLOCK FALSE
