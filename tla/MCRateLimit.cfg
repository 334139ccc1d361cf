SPECIFICATION LinkSpec
CONSTANTS
  CommandTimeout = 2
  WatchdogPeriod = 1
  TimerSlack = 0
  MaxRevision = 1
  SendPeriod = 2
  AllowFire = TRUE
PROPERTY ReleaseIsForwarded
CHECK_DEADLOCK FALSE
