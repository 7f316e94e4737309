\* The user seeks; decoders fail and the film ends.
SPECIFICATION FairSpec
CONSTANTS
  AudioCapacity = 1
  VideoCapacity = 1
  FramesCapacity = 1
  MaxSeeks = 1
  FilmLength = 3
  MayStop = FALSE
  FilmEnds = TRUE
  DecodersFail = TRUE
INVARIANTS
  OneStaleFrame
  SleepsOnlyAfterSeek
PROPERTIES
  DecodedInOrder
  DecodersCatchUp
CHECK_DEADLOCK FALSE
