\* Time in ticks: a heartbeat is stale after 2, the back-off is 2.
CONSTANTS
  None = None
  MAX_RESTARTS = 2
  STALE_AFTER = 1
  BACKOFF = 2
  RESTART_JOIN = 2
  STOP_JOIN = 1
SPECIFICATION FairSpec
PROPERTIES
  CrashedSchedulerRecovers
