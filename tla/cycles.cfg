SPECIFICATION Spec
CONSTANTS
  Word = 3
  MAX_RESULTS = 2
  MaxHi = 2
  MaxCalls = 4
INVARIANTS
  ReadsOneMoment
PROPERTIES
  ResultMeasures
  ResultsKept
