SPECIFICATION OneSpec
CONSTANTS
  Runs = {r1, r2}
  Setups <- AllSetups
  MaxThreads = 3
  Word = 4
  Nestings <- SmallNestings
  p1 = p1
  p2 = p2
  PyCalls = {p1, p2}
  Pythons <- SmallPythons
  Threads = {t1, t2, t3}
INVARIANTS
  PermitsAccountedFor
  OutputIsSequential
  ReportIsExact
  NestedHangIsBuried
  PythonAnswerIsTrue
PROPERTIES
  EndsUnlessExhausted
  PythonCallsEnd
CHECK_DEADLOCK FALSE
