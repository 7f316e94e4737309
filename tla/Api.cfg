\* Two users, two instances, everything fails that may fail, one crash.
SPECIFICATION FairSpec
CONSTANTS
  Clients = {c1, c2}
  MaxInstances = 2
  None = None
  Failures = {"driver", "memory", "firmware", "violation", "tiledMap", "timeout"}
  MaxCrashes = 1
INVARIANTS
  OneOwner
  HandleWorks
  PendingIsLocked
PROPERTIES
  CommandsInOrder
  LockComesFree
CHECK_DEADLOCK FALSE
