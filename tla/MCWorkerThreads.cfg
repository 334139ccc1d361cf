SPECIFICATION Spec
CONSTANTS
  MaxPictures = 2
  MaxFrames = 3
  Workers = {w1, w2}
INVARIANTS
  NothingAfterStop
  InOrder
PROPERTIES
  StopsReturn
  ImplementMailbox
  PicturesComeOut
CHECK_DEADLOCK FALSE
