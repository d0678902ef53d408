\* One message of a group, two overlapping group lists, lost and late requests.
CONSTANTS
  Group = {1, 2}
  Message = {"a1"}
  GroupOf <- MCGroupOf
  SentAt <- MCSentAt
  Noise = {}
  Key = {}
  Text = {}
  InitialType <- AllCasual
  MaxRows = 2
  Retries = 1
  Sync = {"s1", "s2"}
  Pages <- TwoPages
  Subscriptions <- MCSubscriptions
  MaxMoves = 1
SPECIFICATION LiveForwarderSpec
INVARIANTS
  ForwarderTypeOK
  ContentOnlyIfSelected
  OutcomeIsTrue
PROPERTIES
  ImplementsEnvironment
  CatalogueConverges
CHECK_DEADLOCK FALSE
