SPECIFICATION Spec
CONSTANTS
  CommandTimeout = 2
  WatchdogPeriod = 1
  TimerSlack = 1
  MaxRevision = 3
INVARIANTS
  RevokedStaysRevoked
  AimsAtTheEnemy
  NoUnattendedCommand
PROPERTIES
  ImplementsRevocation
  RevocationHappens
