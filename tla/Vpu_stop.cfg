\* The user seeks and stops.
SPECIFICATION FairSpec
CONSTANTS
  AudioCapacity = 1
  VideoCapacity = 1
  FramesCapacity = 1
  MaxSeeks = 1
  FilmLength = 1
  MayStop = TRUE
  FilmEnds = FALSE
  DecodersFail = FALSE
INVARIANTS
  QueuesBounded
PROPERTIES
  EofEndsDecoders
CHECK_DEADLOCK FALSE
