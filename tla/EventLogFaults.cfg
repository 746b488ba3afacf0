\* One thread; two passes cut short, the log cleared, failing reads and rows, a cap.
CONSTANTS
  Collectors = {c1}
  MAX_EVENTS_PER_RUN = 2
  MaxBatch = 2
  MaxSetback = 0
  MaxRecords = 4
  MaxTime = 2
  MaxAborts = 2
  MaxReadErrors = 1
  MaxRowErrors = 1
  MaxClears = 1
SPECIFICATION Spec
INVARIANTS
  StoredOncePerAttempt
  LossIsExplained
PROPERTIES
  CursorAdvances
