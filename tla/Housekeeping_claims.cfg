SPECIFICATION FairSpec
CONSTANTS
  expire = expire
  purge = purge
  Timers = {t1}
  Posts = {p1}
  Jobs = {expire, purge}
  Registry <- TwoJobs
  Interval <- Intervals
  StaleLock = 2
  RowsReported = 1
  MaxTime = 4
  MaxCrashes = 1
CHECK_DEADLOCK FALSE
INVARIANTS OverlapNeedsStaleLock ClaimedMeansRunning
PROPERTIES NoEarlyRerun EveryJobStarts
