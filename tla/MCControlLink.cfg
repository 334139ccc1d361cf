SPECIFICATION LinkSpec
CONSTANTS
  CommandTimeout = 2
  WatchdogPeriod = 1
  TimerSlack = 0
  MaxRevision = 2
  SendPeriod = 2
  AllowFire = TRUE
INVARIANTS
  NoUnattendedRobot
  
CHECK_DEADLOCK FALSE
