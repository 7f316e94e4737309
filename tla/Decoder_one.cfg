SPECIFICATION FairSpec
CONSTANTS
  Instances = {d1}
  None = None
  Frames = {f1, f2}
  Packets <- AnyPackets
  RingSize = 8
  Gbu = 2
  Grain = 2
  ImpatientLock = FALSE
  Vc1Films = TRUE
  SlowVpu = FALSE
INVARIANTS
  UnreadIsKept
  KnowsItsCommand
  PicturesGoBack
PROPERTIES
  EofCloses
CHECK_DEADLOCK FALSE
