CONSTANTS
  Sensors = {lacrosse, keeloq}
  Ignored = {keeloq}
  Callbacks = {up1}
  Loop = Loop
  TTL = 1
  MaxMsgs = 3
  MaxTime = 2
SPECIFICATION Spec
INVARIANTS NoEventReplay LatestSurvivesUnlessRaced
PROPERTIES OnlyFlushGoesBack FlushEnds
