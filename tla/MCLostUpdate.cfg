\* An update that arrives while the mail is being sent.
CONSTANTS
  Group = {1}
  Message = {"a1", "a2"}
  GroupOf <- MCGroupOf
  SentAt <- MCSentAt
  Noise = {}
  Key = {"k"}
  Text = {"u"}
  InitialType <- AllCourse
  MaxRows = 2
  Proc = {"server"}
  Worker = {"job", "digest"}
  ProcOf <- MCProcOf
  Forced = {"digest"}
  MaxMessages <- OnePerPass
  Poison = {}
  MaxCandidates = 1
  Subscriptions <- NoSubscriptions
  Catalogues = {}
  Cutoffs = {}
  Deliverer = {"digest"}
  MaxUnacked = 1
  MaxTime = 8
SPECIFICATION DSpec
INVARIANT UpdateWasMailed
CHECK_DEADLOCK FALSE
