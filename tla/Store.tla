-------------------------------- MODULE Store --------------------------------
(***************************************************************************)
(* The SQLite tables of app/storage/database.py that the summariser and    *)
(* the daily digest share, and the transactions on them.  Every write of   *)
(* the class Database runs under BEGIN IMMEDIATE (lines 31-42), so each    *)
(* one is a single atomic action here; a transaction that raises leaves    *)
(* the tables as they were and is therefore not an action.                 *)
(*                                                                         *)
(* A row id is drawn by AUTOINCREMENT (lines 49-139): it is never reused.  *)
(***************************************************************************)
EXTENDS Integers, Sequences, FiniteSets, SequencesExt

CONSTANTS
  Group,          \* ids of the rows of table groups (lines 52-63)
  Message,        \* QQ messages: one per (group, qq_message_id)
  GroupOf,        \* the group a message was posted in
  SentAt,         \* its sent_at
  Noise,          \* the messages ingestion classifies as noise
  Key,            \* dedup keys, after casefold and whitespace folding
  Text,           \* non-empty update texts a model may write
  InitialType,    \* the type of each group at the start
  MaxRows         \* bound on the rows ever inserted in table messages

ASSUME GroupAssumption   == Group \subseteq Nat \ {0}
ASSUME MessageAssumption == /\ GroupOf \in [Message -> Group]
                            /\ SentAt \in [Message -> Nat]
                            /\ Noise \subseteq Message
ASSUME MaxRowsAssumption == MaxRows \in Nat

VARIABLES
  groups,         \* groups: type, enabled, available
  messages,       \* messages: a row for every id still stored
  lastMessageId,  \* sqlite_sequence of table messages
  batches,        \* summary_batches: row id = position, rows are never deleted
  notifications   \* notifications: row id = position, rows are never deleted

storeVars == <<groups, messages, lastMessageId, batches, notifications>>

NULL  == 0        \* a NULL reference (summary_batch_id, delivery_id, ...)
NONE  == "none"   \* update_text: None
EMPTY == ""       \* update_text: the empty string, which the schema accepts

GroupType == {"course", "academic", "casual"}
Update    == Text \cup {NONE, EMPTY}

ASSUME TypeAssumption == InitialType \in [Group -> GroupType]

(* A subscription row.  A group the account never reported has no row in   *)
(* the code; here it has one with available and enabled both false, which  *)
(* every query below treats in the same way.                               *)
GroupRow == [type: GroupType, enabled: BOOLEAN, available: BOOLEAN]

MessageRow == [message: Message, batch: Nat]

(* What pending_messages hands to a summary run: the row id and the        *)
(* content it had when it was read.                                        *)
Snapshot == [id: Nat \ {0}, message: Message]

(* What a summary says: nothing; something in the field overview, which    *)
(* academic and casual summaries share; or something only in the fields of *)
(* its own schema.                                                         *)
Content == {"nothing", "overview", "details"}

(* summary_batches.  summary_json is abstracted to the rows the model was  *)
(* shown, the schema it was validated against and what it says; "by" is a  *)
(* history field, the process that wrote the row.                          *)
BatchRow(Proc) == [group: Group, by: Proc, shown: SUBSET Snapshot, kind: GroupType,
                   content: Content, status: {"pending", "sent"}, delivery: Nat]

(* source is source_message_id, the row of the first message; sources is   *)
(* sources_json, every message the notification was seen in.               *)
NotificationRow == [group: Group, source: Nat, sources: SUBSET Message, first_seen: Nat,
                    key: Key, update: Update, status: {"pending", "sent"}, delivery: Nat]

(* A notification the model returned for one of the messages it was shown. *)
Candidate == [source: Message, key: Key, update: Update]

StoreInit ==
  /\ groups = [g \in Group |-> [type |-> InitialType[g], enabled |-> TRUE, available |-> TRUE]]
  /\ messages = <<>>
  /\ lastMessageId = 0
  /\ batches = <<>>
  /\ notifications = <<>>

-----------------------------------------------------------------------------
(* Queries *)

RowIds == DOMAIN messages

PendingRows(g) ==
  {r \in RowIds : /\ GroupOf[messages[r].message] = g
                  /\ messages[r].batch = NULL
                  /\ messages[r].message \notin Noise}

PendingSnapshot(g) == {[id |-> r, message |-> messages[r].message] : r \in PendingRows(g)}

ConfiguredGroups == {g \in Group : groups[g].enabled /\ groups[g].available}

(* Faulty variant for mutation: the status filter of pending_digest is missing. *)
EveryBatch == DOMAIN batches

PendingBatches       == {b \in DOMAIN batches : batches[b].status = "pending"}
PendingNotifications == {n \in DOMAIN notifications : notifications[n].status = "pending"}

IdsOf(snapshot) == {s.id : s \in snapshot}

(* Faulty variant for mutation: only that the rows exist is checked. *)
StillStored(snapshot) == \A s \in snapshot : s.id \in RowIds

(* The check at the head of save_summary_batch: every row that was read is *)
(* still stored and still unclaimed.  Otherwise: ConcurrentSummaryError.   *)
Unclaimed(snapshot) ==
  \A s \in snapshot : s.id \in RowIds /\ messages[s.id].batch = NULL

-----------------------------------------------------------------------------
(* groups *)

(* Faulty variant for mutation: groups that are not listed stay available. *)
MarksListedOnly(listed) ==
  /\ groups' = [g \in Group |-> [groups[g] EXCEPT !.available = @ \/ g \in listed]]
  /\ UNCHANGED <<messages, lastMessageId, batches, notifications>>

(* sync_available_groups: the catalogue replaces the set of available      *)
(* groups and leaves the subscriptions alone.                              *)
SyncAvailableGroups(listed) ==
  /\ groups' = [g \in Group |-> [groups[g] EXCEPT !.available = g \in listed]]
  /\ UNCHANGED <<messages, lastMessageId, batches, notifications>>

(* record_group_activity: a group that shows activity is available.  The   *)
(* name and last_message_at, which only the group list shows, are left out.*)
RecordGroupActivity(g) ==
  /\ groups' = [groups EXCEPT ![g].available = TRUE]
  /\ UNCHANGED <<messages, lastMessageId, batches, notifications>>

(* replace_group_subscriptions: every listed group must be available, the  *)
(* listed ones are enabled with their type, all the others disabled.       *)
ReplaceGroupSubscriptions(typeOf) ==
  /\ \A g \in DOMAIN typeOf : groups[g].available
  /\ groups' = [g \in Group |->
       IF g \in DOMAIN typeOf
       THEN [groups[g] EXCEPT !.enabled = TRUE, !.type = typeOf[g]]
       ELSE [groups[g] EXCEPT !.enabled = FALSE]]
  /\ UNCHANGED <<messages, lastMessageId, batches, notifications>>

-----------------------------------------------------------------------------
(* messages *)

(* Faulty variants for mutation: INTEGER PRIMARY KEY without AUTOINCREMENT *)
(* draws the largest stored id plus one; the sequence is read before it is *)
(* advanced.                                                               *)
LargestStoredPlusOne == IF RowIds = {} THEN 1 ELSE 1 + CHOOSE r \in RowIds : \A q \in RowIds : q <= r
SequenceNotAdvanced == lastMessageId

NextMessageId == lastMessageId + 1

(* insert_message for a message that is new to an enabled group.  A second *)
(* delivery of a stored message, and a message of a group that is not      *)
(* enabled, change nothing.                                                *)
InsertMessage(m) ==
  /\ groups[GroupOf[m]].enabled
  /\ \A r \in RowIds : messages[r].message # m
  /\ lastMessageId < MaxRows
  /\ messages' = [r \in RowIds \cup {NextMessageId} |->
       IF r = NextMessageId THEN [message |-> m, batch |-> NULL] ELSE messages[r]]
  /\ lastMessageId' = NextMessageId
  /\ UNCHANGED <<groups, batches, notifications>>

(* Faulty variant for mutation: unsummarised messages expire as well. *)
ExpiredByAge(r, before) == SentAt[messages[r].message] < before

Expired(r, before) == SentAt[messages[r].message] < before /\ messages[r].batch # NULL

(* The foreign key notifications.source_message_id is ON DELETE SET NULL.  *)
ForgetSources(notes, kept) ==
  [n \in DOMAIN notes |->
    IF notes[n].source \in kept THEN notes[n] ELSE [notes[n] EXCEPT !.source = NULL]]

CleanupSummarizedMessages(before) ==
  LET kept == {r \in RowIds : ~Expired(r, before)}
  IN  /\ kept # RowIds
      /\ messages' = [r \in kept |-> messages[r]]
      /\ notifications' = ForgetSources(notifications, kept)
      /\ UNCHANGED <<groups, lastMessageId, batches>>

-----------------------------------------------------------------------------
(* notifications *)

(* Faulty variant for mutation: duplicates are looked for in the same group only. *)
SameKeyInGroup(notes, g, key) == {n \in DOMAIN notes : notes[n].key = key /\ notes[n].group = g}

(* The rows the SELECT of _upsert_notification_in_transaction may return   *)
(* first: the dedup key is looked up over all the groups.                  *)
SameKey(notes, g, key) == {n \in DOMAIN notes : notes[n].key = key}

(* Faulty variant for mutation: only the first update counts as new. *)
IsFirstUpdate(note, update) == note.update = NONE /\ update \notin {NONE, EMPTY}

IsNewUpdate(note, update) == update \notin {NONE, EMPTY, note.update}

(* Faulty variant for mutation: latest_update_text=? without COALESCE. *)
MergedUpdateAsGiven(note, c) ==
  [note EXCEPT !.sources  = @ \cup {c.source},
               !.update   = c.update,
               !.status   = IF IsNewUpdate(note, c.update) THEN "pending" ELSE @,
               !.delivery = IF IsNewUpdate(note, c.update) THEN NULL ELSE @]

Merged(note, c) ==
  [note EXCEPT !.sources  = @ \cup {c.source},
               !.update   = IF c.update = NONE THEN @ ELSE c.update,
               !.status   = IF IsNewUpdate(note, c.update) THEN "pending" ELSE @,
               !.delivery = IF IsNewUpdate(note, c.update) THEN NULL ELSE @]

(* The row of the source message: (group_id, qq_message_id) is unique.     *)
RowOf(m) == CHOOSE r \in RowIds : messages[r].message = m

(* One candidate of a summary of group g.                                  *)
UpsertNotification(notes, g, c) ==
  LET same == SameKey(notes, g, c.key)
  IN  IF same = {}
      THEN Append(notes, [group |-> g, source |-> RowOf(c.source), sources |-> {c.source},
                          first_seen |-> SentAt[c.source], key |-> c.key,
                          update |-> c.update, status |-> "pending", delivery |-> NULL])
      ELSE LET n == CHOOSE n \in same : \A k \in same : notes[n].first_seen <= notes[k].first_seen
           IN  [notes EXCEPT ![n] = Merged(@, c)]

-----------------------------------------------------------------------------
(* summary_batches *)

(* save_summary_batch: check the claim, insert the batch, claim the rows,  *)
(* fold the candidates into the notifications, in one transaction, which a *)
(* candidate without a stored source message rolls back.                   *)
SaveSummaryBatch(g, proc, snapshot, kind, content, candidates) ==
  LET upsert(notes, c) == UpsertNotification(notes, g, c)
  IN  /\ snapshot # {}
      /\ Unclaimed(snapshot)
      /\ \A c \in ToSet(candidates) : \E r \in RowIds : messages[r].message = c.source
      /\ batches' = Append(batches, [group |-> g, by |-> proc, shown |-> snapshot,
                                     kind |-> kind, content |-> content,
                                     status |-> "pending", delivery |-> NULL])
      /\ messages' = [r \in RowIds |->
           IF r \in IdsOf(snapshot)
           THEN [messages[r] EXCEPT !.batch = Len(batches) + 1] ELSE messages[r]]
      /\ notifications' = FoldLeft(upsert, notifications, candidates)
      /\ UNCHANGED <<groups, lastMessageId>>
=============================================================================
