\* The clock and the providers: the scheduler's job, two groups, a primary and a fallback.
CONSTANTS
  Group = {1, 2}
  Message = {"a1", "a2", "b1"}
  GroupOf <- MCGroupOf
  SentAt <- MCSentAt
  Noise = {}
  Key = {}
  Text = {}
  InitialType <- MCTypes
  MaxRows = 3
  Proc = {"server"}
  Worker = {"job"}
  ProcOf <- MCProcOf
  Forced = {}
  MaxMessages <- TwoPerPass
  Poison = {}
  MaxCandidates = 0
  Subscriptions <- DropGroup1
  Catalogues = {}
  Cutoffs = {}
  Idle <- MCIdle
  Window <- MCWindow
  Retries <- MCRetries
  Usable <- MCUsable
  MaxClock = 2
SPECIFICATION LiveTimedSpec
INVARIANTS
  OnlyWhenDue
  AttemptsTellProvider
  GivenUpAfterAll
PROPERTIES
  ImplementsSummarizer
  EventuallySummarised
  JobFindsDue
CHECK_DEADLOCK FALSE
