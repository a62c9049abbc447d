CONSTANTS
  Threshold = 2
  Dedup = TRUE
  QueueCap = 2
  InboxCap = 1
  PingIds = 4
SPECIFICATION PingSpec
INVARIANT CountsOnlyMissed
