SPECIFICATION Spec
CONSTANTS
  None = None
  SyncTolerance = 1
  SyncWait = 1
  CommandTimeout = 2
  UpstreamLatency = 1
  MaxFrameAge = 3
  KeepBehind = 1
  MaxImu = 4
  MaxDelay = 1
  MaxTime = 4
INVARIANTS
  FrameIsSynchronous
  NoImageSkipped
PROPERTIES
  UnmatchedMeansNoSample
CHECK_DEADLOCK FALSE
