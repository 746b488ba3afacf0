CONSTANTS
  None = None
  NoValue = NoValue
  NaN = NaN
  Exact = 1024
  Infinity = 1000000
  Openers <- MCOpeners
  Statements <- MCStatements
  Tables <- MCTables
  Limit = 1
  BeforeMargin = 1
  AfterMargin = 0
  MaxFaults = 1
  Files <- MCFiles
  MaxClock = 3
  MaxBoots = 2
  MaxStarts = 2
  MaxOpens = 1
  MaxRows = 3
SPECIFICATION FairSpec
INVARIANTS
  TypeOK
  SchemaComplete
  EvidenceKept
PROPERTIES
  PrunesOnlyExpired
  ExpiredRowsGo
\* The bounds stop the model.
CHECK_DEADLOCK FALSE
