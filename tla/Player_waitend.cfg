\* A user who goes to the next item twice.
CONSTANTS
  Urls = {u1, u2}
  None = None
  u1 = u1
  u2 = u2
  LoadMayFail = FALSE
  MaxEvents = 4
  Modes = {}
  Patient = FALSE
  UserOps = {"play", "next"}
SPECIFICATION Spec
INVARIANTS
  OneFileInFlight
CHECK_DEADLOCK FALSE
