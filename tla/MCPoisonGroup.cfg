\* The model never answers usably for group 1: what happens to group 2?
CONSTANTS
  Group = {1, 2}
  Message = {"a1", "b1"}
  GroupOf <- MCGroupOf
  SentAt <- MCSentAt
  Noise = {}
  Key = {}
  Text = {}
  InitialType <- AllCasual
  MaxRows = 2
  Proc = {"server", "cli"}
  Worker = {"job", "cli"}
  ProcOf <- MCProcOf
  Forced = {"cli"}
  MaxMessages <- TwoPerPass
  Poison = {1}
  MaxCandidates = 0
  Subscriptions <- DropGroup1
  Catalogues = {}
  Cutoffs = {}
SPECIFICATION LiveSpec
PROPERTY EventuallySummarised
CHECK_DEADLOCK FALSE
