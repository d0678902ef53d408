\* A group changes its type between its summary and the digest.
CONSTANTS
  Group = {1}
  Message = {"a1", "a2"}
  GroupOf <- MCGroupOf
  SentAt <- MCSentAt
  Noise = {}
  Key = {}
  Text = {}
  InitialType <- AllCasual
  MaxRows = 2
  Proc = {"server"}
  Worker = {"job", "digest"}
  ProcOf <- MCProcOf
  Forced = {"digest"}
  MaxMessages <- OnePerPass
  Poison = {}
  MaxCandidates = 0
  Subscriptions <- Retype
  Catalogues = {}
  Cutoffs = {}
  Deliverer = {"digest"}
  MaxUnacked = 1
  MaxTime = 8
SPECIFICATION DSpec
INVARIANT SentWasShown
CHECK_DEADLOCK FALSE
