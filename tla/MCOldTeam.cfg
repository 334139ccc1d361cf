SPECIFICATION Spec
CONSTANTS
  CommandTimeout = 1
  WatchdogPeriod = 1
  TimerSlack = 1
  MaxRevision = 2
PROPERTY OldTeamNeverControls
