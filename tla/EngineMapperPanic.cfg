SPECIFICATION OneSpec
CONSTANTS
  Runs = {r1}
  Setups <- PanickingMapper
  MaxThreads = 2
  Word = 4
  Nestings = {}
  p1 = p1
  p2 = p2
  PyCalls = {p1, p2}
  Pythons = {}
  Threads = {t1}
PROPERTIES
  MapperPanicReachesCaller
CHECK_DEADLOCK FALSE
