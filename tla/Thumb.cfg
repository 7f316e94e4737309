\* The worker and Qt are fair, the cache fills and is cleaned, the film may end.
CONSTANTS
  Urls = {u1, u2}
  None = None
  u1 = u1
  u2 = u2
  Secs = {1, 2}
  Sizes = {0, 1, 2}
  Threshold = 1
  MaxHovers = 3
  MayEnd = TRUE
SPECIFICATION FairSpec
INVARIANTS
  CacheIsBounded
PROPERTIES
  PreviewsInOrder
  MissingOnlyIfOutdated
  LastHoverIsPreviewed
  QuitEnds
CHECK_DEADLOCK FALSE
