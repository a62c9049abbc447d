CONSTANTS
  Lines <- MCLines
  Frames <- MCFrames
  Clients = {gui}
  RawCap = 2
  ChanCap = 1
  ViewMax = 3
  ViewKeep = 2
  Window = 2
  PruneAbove = 1
  MaxLines = 4
SPECIFICATION Spec
INVARIANTS NoGap OneReading
PROPERTIES DedupExact LinesHandled
