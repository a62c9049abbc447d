CONSTANTS
  Sensors = {lacrosse}
  Ignored = {}
  Callbacks = {up1}
  Loop = Loop
  TTL = 1
  MaxMsgs = 3
  MaxTime = 2
SPECIFICATION Spec
INVARIANT LatestSurvives
