SPECIFICATION Spec
CONSTANTS
  NumIds = 3
  Policies <- BrokerPolicies
  None = None
  MaxStarts = 2
INVARIANTS
  ConnectedMeansAccepted
  NothingCallsBackLate
  LossIsKnownFirst
PROPERTIES
  StopReturns
  FindsAcceptedId
