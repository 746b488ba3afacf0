\* One tick is 60 s; three boots in a row.
CONSTANTS
  None = None
  MaxClock = 3
  MaxBoots = 3
  MaxStarts = 4
  MaxSamples = 1
  BootTolerance = 1
  BootMargin = 2
  IncidentTolerance = 0
  BootTimeReadable = TRUE
  MaxDrift = 0
  MinBootGap = 1
  MinOffTime = 1
  BugcheckDelay = 1
  CollectionInterval = 1
  RetentionPeriod = 1000
SPECIFICATION Spec
INVARIANTS
  TypeOK
  SessionChain
  OneIncidentPerBoot
  IncidentBlamesLastSession
  NoMissedCrash
\* The bounds on clock, boots and starts stop the model.
CHECK_DEADLOCK FALSE
