------------------------------- MODULE MCDigest -------------------------------
(* Small instances of Digest. *)
EXTENDS Digest

MCGroupOf == [m \in Message |-> IF m \in {"a1", "a2"} THEN 1 ELSE 2]
MCSentAt  == [m \in Message |-> IF m = "a1" THEN 2 ELSE 1]
MCProcOf  == [w \in Worker |-> IF w = "cli" THEN "cli" ELSE "server"]

AllCasual  == [g \in Group |-> "casual"]
AllCourse  == [g \in Group |-> "course"]
OnePerPass == [t \in GroupType |-> 1]

NoSubscriptions == {}

(* The user changes the type of the group. *)
Retype == {1 :> "casual", 1 :> "academic"}

(* The server's daily job goes on for ever; the other callers need not.    *)
LiveDSpec == DSpec /\ DFairness("digest")
=============================================================================
