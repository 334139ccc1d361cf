SPECIFICATION AutoSpec
CONSTANTS
  Kinds = {"hero", "outpost"}
  Outpost = "outpost"
  Priority <- MCPriority
  MinDetect = 3
  MaxLost = 1
  OutpostMaxLost = 2
  MaxGap = 1
  Gaps = {1, 2}
  NoTarget = NoTarget
  Plates <- MCPlates
  Turn = 24
  Reach = 4
  Coming = 4
  OutpostComing = 5
  Leaving = 2
  OutpostLeaving = 2
  MaxIterations = 1
  Yaws = {0, 3}
  Tolerances = {1, 2}
  AutoFire = TRUE
INVARIANTS
  TargetIsUsable
  TrackingIsConfirmed
  UnseenIsBounded
  OutpostPlateIsKnown
PROPERTIES
  LockHolds
  FiresOnTarget
