SPECIFICATION Spec
CONSTANTS
  QueueSize = 2
  MaxFrames = 4
INVARIANTS
  NothingLeftAfterStop
  FramesAccountedFor
PROPERTIES
  StopReturns
  QueuedIsDecoded
  PictureIsConverted
