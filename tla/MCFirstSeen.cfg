\* Two course groups announce the same thing, the second one first.
CONSTANTS
  Group = {1, 2}
  Message = {"a1", "b1"}
  GroupOf <- MCGroupOf
  SentAt <- MCSentAt
  Noise = {}
  Key = {"k"}
  Text = {"u"}
  InitialType <- AllCourse
  MaxRows = 3
  Proc = {"server"}
  Worker = {"job"}
  ProcOf <- MCProcOf
  Forced = {}
  MaxMessages <- TwoPerPass
  Poison = {}
  MaxCandidates = 1
  Subscriptions <- NoSubscriptions
  Catalogues = {}
  Cutoffs = {}
SPECIFICATION Spec
INVARIANT FirstSeenIsEarliest
CHECK_DEADLOCK FALSE
