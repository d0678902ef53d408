\* send-digest of the CLI while the daily job is at work.
CONSTANTS
  Group = {1}
  Message = {"a1", "a2"}
  GroupOf <- MCGroupOf
  SentAt <- MCSentAt
  Noise = {}
  Key = {}
  Text = {}
  InitialType <- AllCasual
  MaxRows = 2
  Proc = {"server", "cli"}
  Worker = {"digest", "cli"}
  ProcOf <- MCProcOf
  Forced = {"digest", "cli"}
  MaxMessages <- OnePerPass
  Poison = {}
  MaxCandidates = 0
  Subscriptions <- NoSubscriptions
  Catalogues = {}
  Cutoffs = {}
  Deliverer = {"digest", "cli"}
  MaxUnacked = 1
  MaxTime = 3
SPECIFICATION DSpec
PROPERTY CursorFollowsMail
CHECK_DEADLOCK FALSE
