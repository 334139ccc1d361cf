SPECIFICATION Spec
CONSTANTS
  Stream <- MixedStream
  SequenceSpaces = {2, 3}
  Slots = 2
  Timeout = 1
  ReceiveTimeout = 1
  QueueSize = 1
  MaxDelay = 1
  MaxPackets = 8
INVARIANTS
  FramesAreWhole
  CodecFlushedForLosses
  PacketsAccountedFor
  AssembliesExpire
  AssembliesAreDistinct
CHECK_DEADLOCK FALSE
