----------------------------- MODULE MCSummarizer -----------------------------
(* Small instances of Summarizer: the server and the CLI on one database.   *)
EXTENDS Summarizer

MCGroupOf == [m \in Message |-> IF m \in {"a1", "a2"} THEN 1 ELSE 2]
MCSentAt  == [m \in Message |-> IF m = "a1" THEN 2 ELSE 1]
MCProcOf  == [w \in Worker |-> IF w = "cli" THEN "cli" ELSE "server"]

AllCasual    == [g \in Group |-> "casual"]
AllCourse    == [g \in Group |-> "course"]
TwoPerPass   == [t \in GroupType |-> 2]

(* Group 2 may be dropped, group 1 may change its type. *)
MCSubscriptions == {AllCourse, 1 :> "casual"}
NoSubscriptions == {}
MCCatalogues    == {{1}, {1, 2}}

DropGroup1 == {2 :> "casual"}

(* The scheduler's job of the server runs for ever; the CLI may stop anywhere. *)
LiveSpec == Spec /\ Fairness("job")
=============================================================================
