------------------------------ MODULE MCForwarder ------------------------------
(* Small instances of Forwarder. *)
EXTENDS Forwarder

MCGroupOf == [m \in Message |-> IF m \in {"a1", "a2"} THEN 1 ELSE 2]
MCSentAt  == [m \in Message |-> 1]
AllCasual == [g \in Group |-> "casual"]

(* Group 1 is selected, or nothing. *)
MCSubscriptions == {1 :> "casual", <<>>}

OnePage  == <<{1, 2}>>
TwoPages == <<{1}, {2}>>

LiveForwarderSpec == ForwarderSpec /\ ForwarderFairness
=============================================================================
