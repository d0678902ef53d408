\* Notifications of two course groups, subscriptions and catalogue changing.
CONSTANTS
  Group = {1, 2}
  Message = {"a1", "b1"}
  GroupOf <- MCGroupOf
  SentAt <- MCSentAt
  Noise = {}
  Key = {"k"}
  Text = {"u"}
  InitialType <- AllCourse
  MaxRows = 3
  Proc = {"server"}
  Worker = {"job"}
  ProcOf <- MCProcOf
  Forced = {}
  MaxMessages <- TwoPerPass
  Poison = {}
  MaxCandidates = 2
  Subscriptions <- MCSubscriptions
  Catalogues <- MCCatalogues
  Cutoffs = {2}
SPECIFICATION Spec
INVARIANTS
  TypeOK
  OneNotificationPerKey
PROPERTY UpdatesAreAnnounced
CHECK_DEADLOCK FALSE
