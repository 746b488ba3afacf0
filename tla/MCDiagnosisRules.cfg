CONSTANTS
  None = None
  TransitionRows <- MCTransitionRows
  WindowRows <- MCWindowRows
  LastActivity <- MCLastActivity
  Interval = 30
  Reboot = 300
  Readings <- MCReadings
  Warning = 90
SPECIFICATION Spec
INVARIANTS
  TypeOK
  TypeMatchesFindings
  LongerSilenceIsStronger
  FindingsScopedToWindow
  OnlyBugcheckOverrulesClean
\* The rules run once and stop.
CHECK_DEADLOCK FALSE
