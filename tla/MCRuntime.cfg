\* The server and a CLI command start together; two requests; two days of three minutes.
CONSTANTS
  Proc = {"server", "cli"}
  Server = "server"
  Tables <- MCTables
  Columns <- MCColumns
  OldSchemas <- MCOldSchemas
  Config <- MCConfig
  Request = {"r1", "r2"}
  Asked <- MCAsked
  DayLength = 3
  MaxClock = 4
SPECIFICATION LiveRSpec
INVARIANTS
  RTypeOK
  MigratedBeforeUse
  SettingsAreOneRequest
  JobFollowsSetting
  OncePerMinute
PROPERTY ServerComesUp
CHECK_DEADLOCK FALSE
