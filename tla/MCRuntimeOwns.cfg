CONSTANTS
  Handlers = {1, 2}
  Names = {"ha", "cli"}
  EnvTokens <- MCEnvTokens
  Keys = {"names"}
  Values = {7}
  Absent = absent
  BackupCount = 2
  Edits <- MCEdits
  MaxWrites = 3
  MaxFaults = 0
SPECIFICATION Spec
PROPERTY RuntimeOwnsTokens
CHECK_DEADLOCK FALSE
