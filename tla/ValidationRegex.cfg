SPECIFICATION AlgorithmsSpec
CONSTANTS
  Word = 32
  MaxRows = 0
  Columns = {}
  I64 = 8
  NaN = 99
  K = 2
  Specs = {}
  Validations <- LenientRegex
  Profiles = {}
  Detections = {}
  IdxSize = 8
  Trips = {}
INVARIANT InvalidRegexFails
CHECK_DEADLOCK FALSE
