CONSTANTS
  Handlers = {1, 2}
  Names = {"ha", "cli"}
  EnvTokens <- MCEnvTokens
  Keys = {"names"}
  Values = {7}
  Absent = absent
  BackupCount = 2
  Edits <- MCEdits
  MaxWrites = 3
  MaxFaults = 1
SPECIFICATION Spec
INVARIANTS OptionsFollowOverlay FilesAreHistory NoMissedUpdate TokenNamesDistinct
PROPERTIES ImplementsStore Converges
CHECK_DEADLOCK FALSE
