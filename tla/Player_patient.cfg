\* The user only acts when mpv has settled, files may fail to load.
CONSTANTS
  Urls = {u1, u2, u3}
  None = None
  u1 = u1
  u2 = u2
  u3 = u3
  LoadMayFail = TRUE
  MaxEvents = 4
  Modes = {"OrderPlay", "ShufflePlay", "SinglePlay", "SingleLoop", "ListLoop"}
  Patient = TRUE
  UserOps = {"next", "prev", "select", "remove", "clear", "append", "mode", "pause", "play"}
SPECIFICATION FairSpec
PROPERTIES
  IsJukebox
  AdvanceOnlyAtLastEnd
  LoopPlaysEveryItem
INVARIANTS
  OneFileInFlight
  CurrentInfoIsThere
CHECK_DEADLOCK FALSE
