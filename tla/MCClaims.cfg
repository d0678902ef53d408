\* Who claims which message: a scheduled and a forced run in the server and a
\* forced run of the CLI, one group, two messages of which one is
\* delivered again after it was cleaned up.
CONSTANTS
  Group = {1}
  Message = {"a1", "a2"}
  GroupOf <- MCGroupOf
  SentAt <- MCSentAt
  Noise = {}
  Key = {}
  Text = {}
  InitialType <- AllCourse
  MaxRows = 3
  Proc = {"server", "cli"}
  Worker = {"job", "api", "cli"}
  ProcOf <- MCProcOf
  Forced = {"api", "cli"}
  MaxMessages <- TwoPerPass
  Poison = {}
  MaxCandidates = 0
  Subscriptions <- NoSubscriptions
  Catalogues = {}
  Cutoffs = {2}
SPECIFICATION LiveSpec
INVARIANTS
  ClaimsMatchSummaries
  SummarisedOnce
  StaleOnlyAcrossProcesses
PROPERTIES
  PendingOnlyLeavesBySummary
  EventuallySummarised
CHECK_DEADLOCK FALSE
