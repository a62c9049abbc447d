CONSTANTS
  Threshold = 2
  Dedup = TRUE
  QueueCap = 1
  InboxCap = 1
  PingIds = 2
SPECIFICATION PingSpec
INVARIANTS PingsAccounted VerdictJustified
PROPERTIES DetectsSilence RecoversFromSilence
