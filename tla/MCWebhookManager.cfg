CONSTANTS
  door = door
  tap = tap
  Polls = {door}
  Pushes = {tap}
  Requests = {1}
  Watcher = 3
  EnvList <- MCEnvList
  Edits <- MCEdits
  Backups <- MCBackups
  MaxWebhooks = 1
  MaxPush = 1
  MaxChanges = 2
SPECIFICATION Spec
INVARIANTS TypeOK PollersMatchHooks LastChangeLoaded AnsweredChangesStay StopsPollers
PROPERTY ReloadsEnd
CHECK_DEADLOCK FALSE
