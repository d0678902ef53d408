\* The server alone: the daily job, the summary job beside it, crashes and lost answers.
CONSTANTS
  Group = {1}
  Message = {"a1", "a2"}
  GroupOf <- MCGroupOf
  SentAt <- MCSentAt
  Noise = {}
  Key = {"k"}
  Text = {"u"}
  InitialType <- AllCourse
  MaxRows = 2
  Proc = {"server"}
  Worker = {"job", "digest"}
  ProcOf <- MCProcOf
  Forced = {"digest"}
  MaxMessages <- OnePerPass
  Poison = {}
  MaxCandidates = 1
  Subscriptions <- NoSubscriptions
  Catalogues = {}
  Cutoffs = {2}
  Deliverer = {"digest"}
  MaxUnacked = 1
  MaxTime = 8
SPECIFICATION LiveDSpec
INVARIANTS
  DTypeOK
  SentWasMailed
  SentNoteWasMailed
  SentWasShown
  RepeatedOnlyIfUnacknowledged
  WindowsJoinUp
PROPERTIES
  CursorFollowsMail
  OutcomesAreFinal
  UpdatesAreAnnounced
  KeepsPromise
  EventuallySent
CHECK_DEADLOCK FALSE
