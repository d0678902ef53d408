------------------------------ MODULE Summarizer ------------------------------
(***************************************************************************)
(* Stage summaries: SummaryService of app/summarizer/service.py over the   *)
(* tables of Store.                                                        *)
(*                                                                         *)
(* A worker is one call of summarize_due_groups: the scheduler's job, the  *)
(* forced run of POST /api/v1/summaries/run, the forced pass of the        *)
(* daily digest, a CLI command.  Workers live in processes (the server,    *)
(* the CLI).  Inside a process _run_lock serialises them; nothing but the  *)
(* database serialises two processes.  Request threads (ingestion, the     *)
(* subscription and catalogue endpoints) and the cleanup job run between   *)
(* any two database calls of a worker.                                     *)
(***************************************************************************)
EXTENDS Store

CONSTANTS
  Proc,             \* operating system processes
  Worker,           \* calls of summarize_due_groups
  ProcOf,           \* the process of each worker
  Forced,           \* the workers called with force=True
  MaxMessages,      \* SummaryPolicy.max_messages of each group type
  Poison,           \* groups the language model never answers usably for
  MaxCandidates,    \* bound on the notifications of one summary
  Subscriptions,    \* the bodies PUT /api/v1/qq/groups may carry
  Catalogues,       \* the group lists the bridge may report
  Cutoffs           \* the cutoffs of the cleanup job

ASSUME WorkerAssumption == /\ ProcOf \in [Worker -> Proc]
                           /\ Forced \subseteq Worker
ASSUME PolicyAssumption == /\ MaxMessages \in [GroupType -> Nat \ {0}]
                           /\ MaxCandidates \in Nat
                           /\ Cutoffs \subseteq Nat
ASSUME InputAssumption  == /\ Poison \subseteq Group
                           /\ Subscriptions \subseteq UNION {[G -> GroupType] : G \in SUBSET Group}
                           /\ Catalogues \subseteq SUBSET Group

VARIABLES
  pc,        \* where each worker is
  todo,      \* the configured groups it still has to visit
  kind,      \* the group type it read for the group at hand
  shown,     \* the messages it read for the group at hand
  runLock    \* _run_lock of each process: the holder, then the waiters in order

workerVars == <<pc, todo, kind, shown, runLock>>
vars == <<storeVars, workerVars>>

PC == {"idle", "waiting", "group", "messages", "llm"}

SummarizerInit ==
  /\ pc      = [w \in Worker |-> "idle"]
  /\ todo    = [w \in Worker |-> {}]
  /\ kind    = [w \in Worker |-> NONE]
  /\ shown   = [w \in Worker |-> {}]
  /\ runLock = [p \in Proc |-> <<>>]

Init == StoreInit /\ SummarizerInit

-----------------------------------------------------------------------------
(* Faulty variant for mutation: no lock. *)
HoldsUnchecked(w) == TRUE

Holds(w) == runLock[ProcOf[w]] # <<>> /\ Head(runLock[ProcOf[w]]) = w

(* configured_groups is ordered by id. *)
Current(w) == CHOOSE g \in todo[w] : \A h \in todo[w] : g <= h

(* summarize_due_groups is called: the worker asks for the lock. *)
Request(w) ==
  /\ pc[w] = "idle"
  /\ pc' = [pc EXCEPT ![w] = "waiting"]
  /\ runLock' = [runLock EXCEPT ![ProcOf[w]] = Append(@, w)]
  /\ UNCHANGED <<storeVars, todo, kind, shown>>

(* The lock is granted and configured_groups is read. *)
Enter(w) ==
  /\ pc[w] = "waiting"
  /\ Holds(w)
  /\ pc' = [pc EXCEPT ![w] = "group"]
  /\ todo' = [todo EXCEPT ![w] = ConfiguredGroups]
  /\ UNCHANGED <<storeVars, kind, shown, runLock>>

(* get_group: a group that was disabled since raises UnknownGroupError,    *)
(* which is Abort.                                                         *)
GetGroup(w) ==
  /\ pc[w] = "group"
  /\ todo[w] # {}
  /\ groups[Current(w)].enabled
  /\ pc' = [pc EXCEPT ![w] = "messages"]
  /\ kind' = [kind EXCEPT ![w] = groups[Current(w)].type]
  /\ UNCHANGED <<storeVars, todo, shown, runLock>>

(* pending_messages and trigger_reason.  Force and the count are decided   *)
(* here; whether the idle time or the longest window has passed is left to *)
(* the clock, so a smaller set of messages may or may not be due.          *)
MustRun(w) == w \in Forced \/ Cardinality(PendingRows(Current(w))) >= MaxMessages[kind[w]]

NotDue(w) ==
  /\ pc[w] = "messages"
  /\ PendingRows(Current(w)) = {} \/ ~MustRun(w)
  /\ pc' = [pc EXCEPT ![w] = "group"]
  /\ todo' = [todo EXCEPT ![w] = @ \ {Current(w)}]
  /\ kind' = [kind EXCEPT ![w] = NONE]
  /\ UNCHANGED <<storeVars, shown, runLock>>

Due(w) ==
  /\ pc[w] = "messages"
  /\ PendingRows(Current(w)) # {}
  /\ pc' = [pc EXCEPT ![w] = "llm"]
  /\ shown' = [shown EXCEPT ![w] = PendingSnapshot(Current(w))]
  /\ UNCHANGED <<storeVars, todo, kind, runLock>>

(* What a validated answer may hold: only a course summary has             *)
(* notifications, and each names a message that was in the prompt.         *)
Answers(w) ==
  IF kind[w] = "course"
  THEN BoundedSeq({c \in Candidate : \E s \in shown[w] : s.message = c.source}, MaxCandidates)
  ELSE {<<>>}

(* A course summary has no overview. *)
Says(w) == IF kind[w] = "course" THEN Content \ {"overview"} ELSE Content

(* The model answers and the batch is saved. *)
Save(w) ==
  /\ pc[w] = "llm"
  /\ Current(w) \notin Poison
  /\ \E content \in Says(w), candidates \in Answers(w) :
       SaveSummaryBatch(Current(w), ProcOf[w], shown[w], kind[w], content, candidates)
  /\ pc' = [pc EXCEPT ![w] = "group"]
  /\ todo' = [todo EXCEPT ![w] = @ \ {Current(w)}]
  /\ kind' = [kind EXCEPT ![w] = NONE]
  /\ shown' = [shown EXCEPT ![w] = {}]
  /\ UNCHANGED runLock

(* Faulty variant for mutation: the call does not return, so that the      *)
(* scheduler, which allows one instance of a job, never calls it again.    *)
LeaveHanging(w) ==
  /\ pc' = [pc EXCEPT ![w] = "waiting"]
  /\ todo' = [todo EXCEPT ![w] = {}]
  /\ kind' = [kind EXCEPT ![w] = NONE]
  /\ shown' = [shown EXCEPT ![w] = {}]
  /\ runLock' = [runLock EXCEPT ![ProcOf[w]] = Tail(@)]
  /\ UNCHANGED storeVars

Leave(w) ==
  /\ pc' = [pc EXCEPT ![w] = "idle"]
  /\ todo' = [todo EXCEPT ![w] = {}]
  /\ kind' = [kind EXCEPT ![w] = NONE]
  /\ shown' = [shown EXCEPT ![w] = {}]
  /\ runLock' = [runLock EXCEPT ![ProcOf[w]] = Tail(@)]
  /\ UNCHANGED storeVars

(* Every group was visited: the lock is released. *)
Finish(w) ==
  /\ pc[w] = "group"
  /\ todo[w] = {}
  /\ Leave(w)

(* An exception leaves summarize_due_groups: UnknownGroupError of          *)
(* get_group, LLMError once the providers are exhausted, the ValueError of *)
(* a summary that names an unknown message, ConcurrentSummaryError, or a   *)
(* database that stays locked.  No handler inside the loop catches it, so  *)
(* the groups still in todo are not visited in this pass.                  *)
Abort(w) ==
  /\ \/ pc[w] = "waiting" /\ Holds(w)
     \/ pc[w] = "group" /\ todo[w] # {}
     \/ pc[w] \in {"messages", "llm"}
  /\ Leave(w)

(* The process dies: its coroutines and its lock are gone, the tables stay.*)
(* The next Request of one of its workers is the restarted process.        *)
Forget(p) ==
  LET dead == {w \in Worker : ProcOf[w] = p}
  IN  /\ pc' = [w \in Worker |-> IF w \in dead THEN "idle" ELSE pc[w]]
      /\ todo' = [w \in Worker |-> IF w \in dead THEN {} ELSE todo[w]]
      /\ kind' = [w \in Worker |-> IF w \in dead THEN NONE ELSE kind[w]]
      /\ shown' = [w \in Worker |-> IF w \in dead THEN {} ELSE shown[w]]
      /\ runLock' = [runLock EXCEPT ![p] = <<>>]
      /\ UNCHANGED storeVars

Crash(p) ==
  /\ \E w \in Worker : ProcOf[w] = p /\ pc[w] # "idle"
  /\ Forget(p)

-----------------------------------------------------------------------------
(* The rest of the server, between two steps of a worker. *)

Ingest(m)          == InsertMessage(m) /\ UNCHANGED workerVars
Subscribe(typeOf)  == ReplaceGroupSubscriptions(typeOf) /\ UNCHANGED workerVars
Activity(g)        == RecordGroupActivity(g) /\ UNCHANGED workerVars
SyncGroups(listed) == SyncAvailableGroups(listed) /\ UNCHANGED workerVars
Cleanup(before)    == CleanupSummarizedMessages(before) /\ UNCHANGED workerVars

WorkerStep(w) ==
  \/ Request(w) \/ Enter(w) \/ GetGroup(w) \/ NotDue(w) \/ Due(w)
  \/ Save(w) \/ Finish(w) \/ Abort(w)

Environment ==
  \/ \E m \in Message : Ingest(m)
  \/ \E g \in Group : Activity(g)
  \/ \E typeOf \in Subscriptions : Subscribe(typeOf)
  \/ \E listed \in Catalogues : SyncGroups(listed)
  \/ \E before \in Cutoffs : Cleanup(before)

Next ==
  \/ \E w \in Worker : WorkerStep(w)
  \/ \E p \in Proc : Crash(p)
  \/ Environment

Spec == Init /\ [][Next]_vars

-----------------------------------------------------------------------------
(* Fairness of the scheduler's job w.  The event loop runs every ready     *)
(* coroutine of the process and the interval trigger calls w again and     *)
(* again; nobody need make the other calls.  A group whose messages keep   *)
(* being looked at becomes due some time, because the longest window is    *)
(* measured from its first pending message.  What is assumed of the world: *)
(* crashes end, and a pass fails only for a reason that is in the tables   *)
(* or in the model's answers, not by bad luck for ever.                    *)

MustAbort(w) ==
  \/ pc[w] = "group"  /\ todo[w] # {} /\ ~groups[Current(w)].enabled
  \/ pc[w] = "llm"    /\ (Current(w) \in Poison \/ ~Unclaimed(shown[w]))

Undisturbed(p) ==
  \A w \in Worker : ProcOf[w] = p /\ pc[w] # "idle" /\ pc'[w] = "idle" =>
    Finish(w) \/ MustAbort(w)

Fairness(w) ==
  /\ WF_vars(WorkerStep(w))
  /\ \A u \in Worker : ProcOf[u] = ProcOf[w] => WF_vars(pc[u] # "idle" /\ WorkerStep(u))
  /\ \A g \in Group : SF_vars(Due(w) /\ Current(w) = g)
  /\ <>[][Undisturbed(ProcOf[w])]_vars

-----------------------------------------------------------------------------
(* Properties *)

StoreTypeOK ==
  /\ groups \in [Group -> GroupRow]
  /\ lastMessageId \in Nat
  /\ RowIds \subseteq 1..lastMessageId
  /\ messages \in [RowIds -> MessageRow]
  /\ batches \in Seq(BatchRow(Proc))

WorkerTypeOK ==
  /\ pc \in [Worker -> PC]
  /\ todo \in [Worker -> SUBSET Group]
  /\ kind \in [Worker -> GroupType \cup {NONE}]
  /\ shown \in [Worker -> SUBSET Snapshot]
  /\ runLock \in [Proc -> Seq(Worker)]

(* Type invariant of the tables and of the workers' locals. *)
TypeOK == /\ StoreTypeOK
          /\ WorkerTypeOK
          /\ notifications \in Seq(NotificationRow)

(* summary_batch_id tells exactly whose summary a stored message is in:    *)
(* a claimed row was shown to the model that wrote that batch, with the    *)
(* content it still has, and a stored row some batch was written from is   *)
(* claimed by that batch.  An id that came back to life for another        *)
(* message, or a claim that was not checked, would break it.               *)
ClaimsMatchSummaries ==
  /\ \A r \in RowIds : messages[r].batch # NULL =>
       /\ messages[r].batch \in DOMAIN batches
       /\ [id |-> r, message |-> messages[r].message] \in batches[messages[r].batch].shown
  /\ \A b \in DOMAIN batches : \A s \in batches[b].shown : s.id \in RowIds =>
       messages[s.id] = [message |-> s.message, batch |-> b]

(* No row is summarised twice, by whichever processes and however late a   *)
(* model answers: two batches never share a row, even one cleaned up since.*)
(* A QQ message, which is a new row when it is delivered again after its   *)
(* row was deleted, is in two summaries only then: the earlier row is gone.*)
SummarisedOnce ==
  /\ \A b, c \in DOMAIN batches :
       b # c => IdsOf(batches[b].shown) \cap IdsOf(batches[c].shown) = {}
  /\ \A b, c \in DOMAIN batches : \A s \in batches[b].shown, t \in batches[c].shown :
       s.message = t.message /\ s.id < t.id => s.id \notin RowIds

(* _run_lock does its work: the snapshot a worker sends to the model goes  *)
(* stale only because another process claimed a row of it, so              *)
(* ConcurrentSummaryError never arises between the scheduler's job, the    *)
(* digest and the API's runs of one process.                               *)
StaleOnlyAcrossProcesses ==
  \A w \in Worker : pc[w] = "llm" =>
    \A s \in shown[w] :
      \/ s.id \in RowIds /\ messages[s.id].batch = NULL
      \/ \E b \in DOMAIN batches : s \in batches[b].shown /\ batches[b].by # ProcOf[w]

(* A notification exists once per dedup key, over all groups and batches,  *)
(* and the message it cites, while it is stored, belongs to the group it   *)
(* is attributed to and is in a summary.                                   *)
OneNotificationPerKey ==
  \A n \in DOMAIN notifications :
    /\ \A k \in DOMAIN notifications : notifications[k].key = notifications[n].key => k = n
    /\ notifications[n].source # NULL =>
         /\ notifications[n].source \in RowIds
         /\ GroupOf[messages[notifications[n].source].message] = notifications[n].group
         /\ messages[notifications[n].source].batch # NULL

(* However often a notification is found again, in whichever group, it     *)
(* keeps its entry, its key and its group, forgets none of its sources, and*)
(* the source it cites is the first one until that is deleted.  A new text *)
(* as its update makes it pending, with no delivery, so that no text is put*)
(* into an entry that counts as mailed.  The only other change of an update*)
(* is the empty text of an answer: it replaces any update, also one that   *)
(* was never mailed, and announces nothing.                                *)
Extends(new, old) ==
  /\ new.key = old.key /\ new.group = old.group /\ new.first_seen = old.first_seen
  /\ new.source \in {old.source, NULL}
  /\ old.sources \subseteq new.sources
  /\ new.update # old.update =>
       \/ new.update = EMPTY
       \/ new.update \in Text /\ new.status = "pending" /\ new.delivery = NULL

UpdatesAreAnnounced ==
  [][\A n \in DOMAIN notifications : /\ n \in DOMAIN notifications'
                                     /\ Extends(notifications'[n], notifications[n])]_vars

(* The main record of a notification is the earliest message it was seen in. *)
FirstSeenIsEarliest ==
  \A n \in DOMAIN notifications : \A m \in notifications[n].sources :
    notifications[n].first_seen <= SentAt[m]

(* Every pending message of a configured group the model can answer for is *)
(* summarised, unless the group stops being configured first.              *)
EventuallySummarised ==
  \A r \in 1..MaxRows :
    /\ r \in RowIds
    /\ messages[r].batch = NULL
    /\ messages[r].message \notin Noise
    /\ GroupOf[messages[r].message] \in ConfiguredGroups \ Poison
    ~>
    \/ r \notin RowIds
    \/ messages[r].batch # NULL
    \/ GroupOf[messages[r].message] \notin ConfiguredGroups

(* A stored message leaves "pending" only through a saved summary that was *)
(* written from it, and never returns to it; only summarised messages are  *)
(* deleted.                                                                *)
LeavesBySummary ==
  \A r \in RowIds :
    IF messages[r].batch = NULL
    THEN /\ r \in DOMAIN messages'
         /\ messages'[r].batch # NULL =>
              \E b \in DOMAIN batches' : b \notin DOMAIN batches /\ r \in IdsOf(batches'[b].shown)
    ELSE r \in DOMAIN messages' => messages'[r] = messages[r]

(* No pending message is dropped: every step keeps LeavesBySummary.        *)
PendingOnlyLeavesBySummary == [][LeavesBySummary]_vars
=============================================================================
