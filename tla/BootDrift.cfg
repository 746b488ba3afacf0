\* The boot time is off by up to one tick either way or cannot be read, and every
\* tolerance is as small as the theorems allow for the drift.
CONSTANTS
  None = None
  MaxClock = 8
  MaxBoots = 2
  MaxStarts = 3
  MaxSamples = 0
  BootTolerance = 3
  BootMargin = 1
  IncidentTolerance = 2
  BootTimeReadable = FALSE
  MaxDrift = 1
  MinBootGap = 5
  MinOffTime = 2
  BugcheckDelay = 0
  CollectionInterval = 1
  RetentionPeriod = 1000
SPECIFICATION Spec
INVARIANTS
  OneSessionPerBoot
  OneIncidentPerBoot
\* The bounds on clock, boots and starts stop the model.
CHECK_DEADLOCK FALSE
