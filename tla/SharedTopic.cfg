SPECIFICATION Spec
CONSTANTS
  p1 = p1
  p2 = p2
  t1 = t1
  t2 = t2
  Publishers = {p1, p2}
  Threads = {t1, t2}
  Contents <- MCAllContents
  Common <- MCCommon
  MaxPublish = 1
  LongList = 50
  None = None
CONSTRAINT Bounds
SYMMETRY Symmetry
INVARIANTS
  WholeMessage
  RoomEnough
  OneBlock
CHECK_DEADLOCK FALSE
