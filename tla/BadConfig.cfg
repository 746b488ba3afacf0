CONSTANTS
  None = None
  NoValue = NoValue
  NaN = NaN
  Exact = 1024
  Infinity = 1000000
  Openers <- MCOpeners
  Statements <- MCStatements
  Tables <- MCTables
  Limit = 1
  BeforeMargin = 1
  AfterMargin = 0
  MaxFaults = 0
  Files <- BadFiles
  MaxClock = 3
  MaxBoots = 2
  MaxStarts = 2
  MaxOpens = 0
  MaxRows = 2
SPECIFICATION Spec
INVARIANT BadConfigNeverStops
\* The bounds stop the model.
CHECK_DEADLOCK FALSE
