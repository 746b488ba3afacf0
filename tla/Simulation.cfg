CONSTANTS
  None = None
  NaN = NaN
  Exact = 1024
  Infinity = 1000000
  Files <- MCFiles
  MaxRuns = 2
SPECIFICATION Spec
INVARIANTS
  TypeOK
  ExpectedOutcome
  WordingIsTrue
  OnlyOwnRows
  LoadedIsSafe
  GoodValuesKept
  FailureIsExplained
\* The bound on the runs stops the model.
CHECK_DEADLOCK FALSE
