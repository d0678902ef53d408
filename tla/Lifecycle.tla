------------------------------- MODULE Lifecycle -------------------------------
(***************************************************************************)
(* What the pipeline promises for every stored message, whatever fails,    *)
(* crashes or overlaps: it waits until it is in a summary, it is ticked    *)
(* off only after the provider accepted a mail made from that summary, and *)
(* it never goes back.  Deletion of old messages does not show here: only  *)
(* what has a summary may be deleted.                                      *)
(*                                                                         *)
(* It says nothing of groups, processes, locks, models, retries or the     *)
(* order of anything; Digest is shown to implement it.                     *)
(***************************************************************************)
CONSTANT Id     \* the ids a stored message may get

VARIABLES
  waiting,      \* the stored messages without a summary
  summarised,   \* those of a summary that waits for the digest
  sent,         \* those of a summary that is ticked off
  mailed        \* those of a summary some accepted mail was made from

lvars == <<waiting, summarised, sent, mailed>>

LInit == waiting = {} /\ summarised = {} /\ sent = {} /\ mailed = {}

Receive(m) ==
  /\ m \notin waiting \cup summarised \cup sent
  /\ waiting' = waiting \cup {m}
  /\ UNCHANGED <<summarised, sent, mailed>>

Summarise(S) ==
  /\ S \subseteq waiting
  /\ waiting' = waiting \ S
  /\ summarised' = summarised \cup S
  /\ UNCHANGED <<sent, mailed>>

(* The same content may be mailed twice. *)
Mail(S) ==
  /\ S \subseteq summarised \cup sent
  /\ mailed' = mailed \cup S
  /\ UNCHANGED <<waiting, summarised, sent>>

TickOff(S) ==
  /\ S \subseteq summarised \cap mailed
  /\ summarised' = summarised \ S
  /\ sent' = sent \cup S
  /\ UNCHANGED <<waiting, mailed>>

LNext ==
  \/ \E m \in Id : Receive(m)
  \/ \E S \in SUBSET waiting : Summarise(S)
  \/ \E S \in SUBSET (summarised \cup sent) : Mail(S)
  \/ \E S \in SUBSET summarised : TickOff(S)

LSpec == LInit /\ [][LNext]_lvars

-----------------------------------------------------------------------------
(* What the promise comes to: a message is in one state at a time, only    *)
(* what is summarised is mailed, and nothing is ticked off unmailed.       *)
LifecycleOK ==
  /\ waiting \cap summarised = {}
  /\ waiting \cap sent = {}
  /\ summarised \cap sent = {}
  /\ sent \subseteq mailed
  /\ mailed \subseteq summarised \cup sent
=============================================================================
