------------------------------- MODULE MCQQLogin -------------------------------
(* Small instances of QQLogin. *)
EXTENDS QQLogin

LiveQSpec == QSpec /\ QFairness
=============================================================================
