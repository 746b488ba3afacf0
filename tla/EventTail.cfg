\* Two overlapping passes, one of them cut short; nothing is cleared or unreadable.
CONSTANTS
  Collectors = {c1, c2}
  MAX_EVENTS_PER_RUN = 4
  MaxBatch = 2
  MaxSetback = 1
  MaxRecords = 3
  MaxTime = 2
  MaxAborts = 1
  MaxReadErrors = 0
  MaxRowErrors = 0
  MaxClears = 0
SPECIFICATION FairSpec
INVARIANTS
  TypeOK
PROPERTIES
  StoresPrefix
  CatchesUp
