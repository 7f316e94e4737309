\* The user acts at any moment, files may fail to load.
CONSTANTS
  Urls = {u1, u2}
  None = None
  u1 = u1
  u2 = u2
  LoadMayFail = TRUE
  MaxEvents = 5
  Modes = {"OrderPlay", "ShufflePlay", "SinglePlay", "SingleLoop", "ListLoop"}
  Patient = FALSE
  UserOps = {"next", "prev", "select", "remove", "clear", "append", "mode", "pause", "play"}
SPECIFICATION Spec
SYMMETRY UrlSymmetry
INVARIANTS
  TypeOK
  EndWillCome
  SettledStateIsTrue
  ShuffleOrderFitsList
CHECK_DEADLOCK FALSE
