\* Hiding, showing and bursts at any moment.
CONSTANTS
  Urls = {u1, u2}
  None = None
  u1 = u1
  u2 = u2
  LoadMayFail = TRUE
  MaxEvents = 3
  Modes = {"ListLoop"}
  Patient = FALSE
  UserOps = {"next", "pause", "play", "mode"}
  PauseOnMinimize = TRUE
  Shots = 2
SPECIFICATION FairWindowSpec
INVARIANTS
  PlaysAsAsked
  RemembersWhileHidden
PROPERTIES
  BurstEnds
  PollReturns
CHECK_DEADLOCK FALSE
