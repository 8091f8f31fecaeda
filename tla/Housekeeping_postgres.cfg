SPECIFICATION Spec
CONSTANTS
  expire = expire
  purge = purge
  Timers = {t1}
  Posts = {p1}
  Jobs = {expire}
  Registry <- OneJob
  Interval <- Intervals
  StaleLock = 2
  RowsReported = 0
  MaxTime = 5
  MaxCrashes = 0
CHECK_DEADLOCK FALSE
INVARIANTS ClaimedMeansRunning
