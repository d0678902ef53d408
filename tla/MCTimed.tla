-------------------------------- MODULE MCTimed --------------------------------
(* Small instances of TimedSummarizer. *)
EXTENDS TimedSummarizer

MCGroupOf == [m \in Message |-> IF m \in {"a1", "a2"} THEN 1 ELSE 2]
MCSentAt  == [m \in Message |-> IF m = "a2" THEN 1 ELSE 0]
MCProcOf  == [w \in Worker |-> IF w = "cli" THEN "cli" ELSE "server"]

MCTypes    == [g \in Group |-> IF g = 1 THEN "casual" ELSE "academic"]
TwoPerPass == [t \in GroupType |-> 2]

(* A casual group is due when it is idle; the window is shorter than the   *)
(* idle time for an academic one.                                          *)
MCIdle    == [t \in GroupType |-> IF t = "academic" THEN 4 ELSE 1]
MCWindow  == [t \in GroupType |-> 2]
MCRetries == <<1, 0>>

(* The primary never answers usably for group 2. *)
MCUsable == [g \in Group |-> IF g = 1 THEN {1, 2} ELSE {2}]

DropGroup1 == {2 :> "academic"}
MCCatalogues == {{1}, {1, 2}}

LiveTimedSpec == TimedSpec /\ TimedFairness("job")

JobFindsDue == DueIsFair("job")
=============================================================================
