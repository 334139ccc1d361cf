SPECIFICATION Spec
CONSTANTS
  Drivers = {"usb", "mindvision", "hikrobot", "socketcan"}
  GiveUpAfter = 2
  Devices = {"imu", "gimbal"}
  QueueSize = 2
  MaxSamples = 5
  Kinds <- MCKinds
  Priority <- MCPriority
  MinDetect = 3
  MaxLost = 2
  MaxSwitch = 4
  Nothing = "nothing"
  DetectorQueue = 2
  MaxImages = 2
  Cameras = {c1, c2}
  PerceptronQueue = 2
  RuneMaxLoss = 1
  MaxMistakes = 1
  FireGap = 2
INVARIANTS
  ThreadsAreSound
  Brackets
  AimIsCurrent
PROPERTIES
  NothingHangs
CHECK_DEADLOCK FALSE
