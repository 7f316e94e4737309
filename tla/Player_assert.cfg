\* A user who adds, plays and clears; the assertion in currentInfo().
CONSTANTS
  Urls = {u1, u2}
  None = None
  u1 = u1
  u2 = u2
  LoadMayFail = FALSE
  MaxEvents = 4
  Modes = {}
  Patient = FALSE
  UserOps = {"append", "play", "clear"}
SPECIFICATION Spec
INVARIANTS
  CurrentInfoAsserted
CHECK_DEADLOCK FALSE
