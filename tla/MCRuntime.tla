------------------------------- MODULE MCRuntime -------------------------------
(* Small instances of Runtime. *)
EXTENDS Runtime

MCTables  == <<"groups", "settings">>
MCColumns == <<"last_message_at", "available">>

(* A new file, a database from before the columns, and an upgrade that was *)
(* cut off.                                                                *)
MCOldSchemas == {{}, {"groups", "settings"}, {"groups", "settings", "last_message_at"}}

MCConfig == [email |-> "owner", time |-> 1]
MCAsked  == [r \in Request |-> IF r = "r1" THEN [email |-> "a", time |-> 1]
                                           ELSE [email |-> "b", time |-> 2]]

LiveRSpec == RSpec /\ RFairness
=============================================================================
