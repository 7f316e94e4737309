SPECIFICATION Spec
CONSTANTS
  Instances = {d1, d2}
  None = None
  Frames = {}
  Packets <- OnePacket
  RingSize = 4
  Gbu = 1
  Grain = 1
  ImpatientLock = TRUE
  Vc1Films = FALSE
  SlowVpu = TRUE
SYMMETRY AnySlot
INVARIANTS
  LockGuardsCommand
PROPERTIES
  CommandsExclusive
CHECK_DEADLOCK FALSE
