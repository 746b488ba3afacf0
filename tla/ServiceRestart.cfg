\* One tick is 60 s.
CONSTANTS
  None = None
  MaxClock = 3
  MaxBoots = 3
  MaxStarts = 3
  MaxSamples = 0
  BootTolerance = 1
  BootMargin = 2
  IncidentTolerance = 0
  BootTimeReadable = TRUE
  MaxDrift = 0
  MinBootGap = 1
  MinOffTime = 1
  BugcheckDelay = 2
  CollectionInterval = 1
  RetentionPeriod = 1000
SPECIFICATION Spec
PROPERTIES
  RestartAddsNoIncident
\* The bounds on clock, boots and starts stop the model.
CHECK_DEADLOCK FALSE
