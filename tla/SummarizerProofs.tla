--------------------------- MODULE SummarizerProofs ---------------------------
(***************************************************************************)
(* Theorems about Summarizer, for every set of groups, messages, processes *)
(* and workers, every policy and every bound.                              *)
(***************************************************************************)
EXTENDS Summarizer, SequenceTheorems, OrderLemmas

Active == {"group", "messages", "llm"}

(* What the control state of a worker says about its locals and the lock.  *)
ControlInv ==
  \A w \in Worker :
    /\ pc[w] \in Active => Holds(w)
    /\ pc[w] \in {"messages", "llm"} => todo[w] # {} /\ kind[w] \in GroupType
    /\ pc[w] # "llm" => shown[w] = {}

Types == StoreTypeOK /\ WorkerTypeOK /\ ControlInv

-----------------------------------------------------------------------------
(* The group a worker turns to next is one it still has to visit: a        *)
(* nonempty set of ids has a smallest element.                             *)
LEMMA CurrentInTodo ==
  ASSUME NEW w \in Worker, todo[w] \subseteq Group, todo[w] # {}
  PROVE  Current(w) \in todo[w] /\ Current(w) \in Group
<1>1. todo[w] \subseteq Nat
  BY GroupAssumption
<1>2. \E g \in todo[w] : \A h \in todo[w] : g <= h
  BY <1>1, NatMin
<1> QED
  BY <1>2 DEF Current

LEMMA TypesInit == Init => Types
<1> SUFFICES ASSUME Init PROVE Types
  OBVIOUS
<1>1. StoreTypeOK
  BY TypeAssumption DEF Init, StoreInit, StoreTypeOK, GroupRow, RowIds
<1>2. WorkerTypeOK
  BY DEF Init, SummarizerInit, WorkerTypeOK, PC
<1>3. ControlInv
  BY DEF Init, SummarizerInit, ControlInv, Active
<1> QED
  BY <1>1, <1>2, <1>3 DEF Types

(* The transactions on the tables keep their types. *)
LEMMA StoreStepTypes ==
  ASSUME StoreTypeOK
  PROVE  /\ UNCHANGED storeVars => StoreTypeOK'
         /\ \A m \in Message : InsertMessage(m) => StoreTypeOK'
         /\ \A g \in Group : RecordGroupActivity(g) => StoreTypeOK'
         /\ \A typeOf \in Subscriptions : ReplaceGroupSubscriptions(typeOf) => StoreTypeOK'
         /\ \A listed : SyncAvailableGroups(listed) => StoreTypeOK'
         /\ \A before : CleanupSummarizedMessages(before) => StoreTypeOK'
<1>1. UNCHANGED storeVars => StoreTypeOK'
  BY DEF StoreTypeOK, storeVars, RowIds
<1>2. ASSUME NEW m \in Message, InsertMessage(m) PROVE StoreTypeOK'
  <2>1. RowIds' = RowIds \cup {lastMessageId + 1} /\ lastMessageId' = lastMessageId + 1
    BY <1>2 DEF InsertMessage, RowIds, NextMessageId
  <2>2. RowIds' \subseteq 1..lastMessageId' /\ lastMessageId' \in Nat
    BY <2>1 DEF StoreTypeOK
  <2>3. messages' \in [RowIds' -> MessageRow]
    BY <1>2, <2>1 DEF InsertMessage, NextMessageId, MessageRow, StoreTypeOK, NULL
  <2> QED
    BY <1>2, <2>2, <2>3 DEF InsertMessage, StoreTypeOK
<1>3. ASSUME NEW typeOf \in Subscriptions, ReplaceGroupSubscriptions(typeOf) PROVE StoreTypeOK'
  <2>1. \A g \in DOMAIN typeOf : typeOf[g] \in GroupType
    BY InputAssumption
  <2>2. groups' \in [Group -> GroupRow]
    BY <1>3, <2>1 DEF ReplaceGroupSubscriptions, StoreTypeOK, GroupRow
  <2> QED
    BY <1>3, <2>2 DEF ReplaceGroupSubscriptions, StoreTypeOK, RowIds
<1>4. ASSUME NEW listed, SyncAvailableGroups(listed) PROVE StoreTypeOK'
  <2>1. \A row \in GroupRow, v \in BOOLEAN : [row EXCEPT !.available = v] \in GroupRow
    BY DEF GroupRow
  <2>2. \A g \in Group : (g \in listed) \in BOOLEAN
    OBVIOUS
  <2>3. \A g \in Group : [groups[g] EXCEPT !.available = g \in listed] \in GroupRow
    BY <2>1, <2>2, Zenon DEF StoreTypeOK
  <2>4. groups' \in [Group -> GroupRow]
    BY <1>4, <2>3, Zenon DEF SyncAvailableGroups
  <2> QED
    BY <1>4, <2>4 DEF SyncAvailableGroups, StoreTypeOK, RowIds
<1>5. ASSUME NEW before, CleanupSummarizedMessages(before) PROVE StoreTypeOK'
  <2>1. PICK kept \in SUBSET RowIds : messages' = [r \in kept |-> messages[r]]
    BY <1>5 DEF CleanupSummarizedMessages
  <2>2. RowIds' = kept
    BY <2>1 DEF RowIds
  <2> QED
    BY <1>5, <2>1, <2>2 DEF CleanupSummarizedMessages, StoreTypeOK
<1>6. ASSUME NEW g \in Group, RecordGroupActivity(g) PROVE StoreTypeOK'
  <2>1. groups' \in [Group -> GroupRow]
    BY <1>6 DEF RecordGroupActivity, StoreTypeOK, GroupRow
  <2> QED
    BY <1>6, <2>1 DEF RecordGroupActivity, StoreTypeOK, RowIds
<1> QED
  BY <1>1, <1>2, <1>3, <1>4, <1>5, <1>6

(* What a save does to batches and messages, spelled out once. *)
Claimed(p, snapshot) ==
  /\ StoreTypeOK'
  /\ Unclaimed(snapshot)
  /\ RowIds' = RowIds
  /\ lastMessageId' = lastMessageId
  /\ Len(batches') = Len(batches) + 1
  /\ \A b \in 1..Len(batches) : batches'[b] = batches[b]
  /\ batches'[Len(batches) + 1].shown = snapshot
  /\ batches'[Len(batches) + 1].by = p
  /\ \A r \in RowIds : messages'[r].message = messages[r].message
  /\ \A r \in RowIds \cap IdsOf(snapshot) : messages'[r].batch = Len(batches) + 1
  /\ \A r \in RowIds \ IdsOf(snapshot) : messages'[r] = messages[r]

LEMMA SaveEffect ==
  ASSUME StoreTypeOK, NEW g \in Group, NEW p \in Proc, NEW snapshot \in SUBSET Snapshot,
         NEW k \in GroupType, NEW content \in Content, NEW candidates,
         SaveSummaryBatch(g, p, snapshot, k, content, candidates)
  PROVE  Claimed(p, snapshot)
<1> DEFINE row == [group |-> g, by |-> p, shown |-> snapshot, kind |-> k, content |-> content,
                   status |-> "pending", delivery |-> NULL]
<1>1. row \in BatchRow(Proc)
  BY DEF BatchRow, NULL
<1>2. batches \in Seq(BatchRow(Proc)) /\ Len(batches) \in Nat
  BY LenProperties DEF StoreTypeOK
<1>3. batches' = Append(batches, row)
  BY DEF SaveSummaryBatch
<1>4. /\ batches' \in Seq(BatchRow(Proc))
      /\ Len(batches') = Len(batches) + 1
      /\ \A b \in 1..Len(batches) : batches'[b] = batches[b]
      /\ batches'[Len(batches) + 1] = row
  BY <1>1, <1>2, <1>3, AppendProperties
<1>5. messages' = [r \in RowIds |-> IF r \in IdsOf(snapshot)
                    THEN [messages[r] EXCEPT !.batch = Len(batches) + 1] ELSE messages[r]]
  BY DEF SaveSummaryBatch
<1>6. RowIds' = RowIds
  BY <1>5 DEF RowIds
<1>7. \A r \in RowIds : messages[r] \in MessageRow
  BY DEF StoreTypeOK
<1>8. \A r \in RowIds : /\ messages'[r] \in MessageRow
                        /\ messages'[r].message = messages[r].message
                        /\ r \in IdsOf(snapshot) => messages'[r].batch = Len(batches) + 1
                        /\ r \notin IdsOf(snapshot) => messages'[r] = messages[r]
  BY <1>2, <1>5, <1>7 DEF MessageRow
<1>9. messages' \in [RowIds' -> MessageRow]
  BY <1>5, <1>6, <1>8
<1>10. groups' = groups /\ lastMessageId' = lastMessageId /\ Unclaimed(snapshot)
  BY DEF SaveSummaryBatch
<1>11. StoreTypeOK'
  BY <1>4, <1>6, <1>9, <1>10 DEF StoreTypeOK
<1> QED
  BY <1>4, <1>6, <1>8, <1>10, <1>11 DEF Claimed

(* Leave and Forget do not touch the tables; the leaving worker held the   *)
(* lock, so no other worker of its process was past Enter.                 *)
LEMMA LeaveTypes ==
  ASSUME Types, NEW w \in Worker, pc[w] \in Active \/ Holds(w), Leave(w)
  PROVE  WorkerTypeOK' /\ ControlInv'
<1>1. Holds(w)
  BY DEF Types, ControlInv
<1>2. runLock[ProcOf[w]] \in Seq(Worker) /\ runLock[ProcOf[w]] # <<>>
  BY <1>1, WorkerAssumption DEF Types, WorkerTypeOK, Holds
<1>3. Tail(runLock[ProcOf[w]]) \in Seq(Worker)
  BY <1>2, HeadTailProperties
<1>4. WorkerTypeOK'
  BY <1>3 DEF Leave, Types, WorkerTypeOK, PC
<1>5. ASSUME NEW v \in Worker, pc'[v] \in Active PROVE Holds(v)'
  <2>1. v # w /\ pc[v] \in Active
    BY <1>5 DEF Leave, Types, WorkerTypeOK, Active
  <2>2. Holds(v)
    BY <2>1 DEF Types, ControlInv
  <2>3. ProcOf[v] # ProcOf[w]
    BY <1>1, <2>1, <2>2 DEF Holds
  <2>4. runLock'[ProcOf[v]] = runLock[ProcOf[v]]
    BY <2>3, WorkerAssumption DEF Leave, Types, WorkerTypeOK
  <2> QED
    BY <2>2, <2>4 DEF Holds
<1>6. \A v \in Worker : /\ pc'[v] \in {"messages", "llm"} => todo'[v] # {} /\ kind'[v] \in GroupType
                        /\ pc'[v] # "llm" => shown'[v] = {}
  BY DEF Leave, Types, WorkerTypeOK, ControlInv
<1> QED
  BY <1>4, <1>5, <1>6 DEF ControlInv

LEMMA ForgetTypes ==
  ASSUME Types, NEW p \in Proc, Forget(p)
  PROVE  WorkerTypeOK' /\ ControlInv'
<1>1. WorkerTypeOK'
  BY DEF Forget, Types, WorkerTypeOK, PC
<1>2. ASSUME NEW v \in Worker, pc'[v] \in Active PROVE Holds(v)'
  <2>1. ProcOf[v] # p /\ pc[v] \in Active
    BY <1>2 DEF Forget, Active
  <2>2. runLock'[ProcOf[v]] = runLock[ProcOf[v]]
    BY <2>1, WorkerAssumption DEF Forget, Types, WorkerTypeOK
  <2> QED
    BY <2>1, <2>2 DEF Types, ControlInv, Holds
<1>3. \A v \in Worker : /\ pc'[v] \in {"messages", "llm"} => todo'[v] # {} /\ kind'[v] \in GroupType
                        /\ pc'[v] # "llm" => shown'[v] = {}
  BY DEF Forget, Types, ControlInv
<1> QED
  BY <1>1, <1>2, <1>3 DEF ControlInv

LEMMA TypesStep == Types /\ [Next]_vars => Types'
<1> SUFFICES ASSUME Types, [Next]_vars PROVE Types'
  OBVIOUS
<1> USE DEF Types
<1>1. ASSUME NEW w \in Worker, Request(w) PROVE Types'
  <2>1. StoreTypeOK'
    BY <1>1, StoreStepTypes DEF Request
  <2>2. runLock[ProcOf[w]] \in Seq(Worker) /\ ProcOf[w] \in Proc
    BY WorkerAssumption DEF WorkerTypeOK
  <2>3. Append(runLock[ProcOf[w]], w) \in Seq(Worker)
    BY <2>2, AppendProperties
  <2>4. WorkerTypeOK'
    BY <1>1, <2>3 DEF Request, WorkerTypeOK, PC
  <2>5. ASSUME NEW v \in Worker, pc'[v] \in Active PROVE Holds(v)'
    <3>1. pc[v] \in Active
      BY <1>1, <2>5 DEF Request, WorkerTypeOK, Active
    <3>2. Holds(v)
      BY <3>1 DEF ControlInv
    <3>3. CASE ProcOf[v] = ProcOf[w]
      <4>1. runLock'[ProcOf[v]] = Append(runLock[ProcOf[v]], w)
        BY <1>1, <2>2, <3>3 DEF Request, WorkerTypeOK
      <4>2. Head(runLock'[ProcOf[v]]) = Head(runLock[ProcOf[v]]) /\ runLock'[ProcOf[v]] # <<>>
        BY <2>2, <3>2, <3>3, <4>1, HeadTailAppend, AppendProperties DEF Holds
      <4> QED
        BY <3>2, <4>2 DEF Holds
    <3>4. CASE ProcOf[v] # ProcOf[w]
      <4>1. runLock'[ProcOf[v]] = runLock[ProcOf[v]]
        BY <1>1, <3>4, WorkerAssumption DEF Request, WorkerTypeOK
      <4> QED
        BY <3>2, <4>1 DEF Holds
    <3> QED
      BY <3>3, <3>4
  <2>6. \A v \in Worker : /\ pc'[v] \in {"messages", "llm"} => todo'[v] # {} /\ kind'[v] \in GroupType
                          /\ pc'[v] # "llm" => shown'[v] = {}
    BY <1>1 DEF Request, WorkerTypeOK, ControlInv
  <2> QED
    BY <2>1, <2>4, <2>5, <2>6 DEF ControlInv
<1>2. ASSUME NEW w \in Worker, Enter(w) PROVE Types'
  <2>1. StoreTypeOK'
    BY <1>2, StoreStepTypes DEF Enter
  <2>2. WorkerTypeOK'
    BY <1>2 DEF Enter, WorkerTypeOK, PC, ConfiguredGroups
  <2>3. ControlInv'
    BY <1>2 DEF Enter, WorkerTypeOK, ControlInv, Active, Holds
  <2> QED
    BY <2>1, <2>2, <2>3
<1>3. ASSUME NEW w \in Worker, GetGroup(w) PROVE Types'
  <2>1. StoreTypeOK'
    BY <1>3, StoreStepTypes DEF GetGroup
  <2>2. groups[Current(w)].type \in GroupType
    <3>1. Current(w) \in Group
      BY <1>3, CurrentInTodo DEF GetGroup, WorkerTypeOK
    <3> QED
      BY <3>1 DEF StoreTypeOK, GroupRow
  <2>3. WorkerTypeOK'
    BY <1>3, <2>2 DEF GetGroup, WorkerTypeOK, PC
  <2>4. ControlInv'
    BY <1>3, <2>2 DEF GetGroup, WorkerTypeOK, ControlInv, Active, Holds
  <2> QED
    BY <2>1, <2>3, <2>4
<1>4. ASSUME NEW w \in Worker, NotDue(w) PROVE Types'
  <2>1. StoreTypeOK'
    BY <1>4, StoreStepTypes DEF NotDue
  <2>2. WorkerTypeOK'
    BY <1>4 DEF NotDue, WorkerTypeOK, PC
  <2>3. ControlInv'
    BY <1>4 DEF NotDue, WorkerTypeOK, ControlInv, Active, Holds
  <2> QED
    BY <2>1, <2>2, <2>3
<1>5. ASSUME NEW w \in Worker, Due(w) PROVE Types'
  <2>1. StoreTypeOK'
    BY <1>5, StoreStepTypes DEF Due
  <2>2. PendingSnapshot(Current(w)) \in SUBSET Snapshot
    BY DEF PendingSnapshot, PendingRows, Snapshot, StoreTypeOK, MessageRow
  <2>3. WorkerTypeOK'
    BY <1>5, <2>2 DEF Due, WorkerTypeOK, PC
  <2>4. ControlInv'
    BY <1>5 DEF Due, WorkerTypeOK, ControlInv, Active, Holds
  <2> QED
    BY <2>1, <2>3, <2>4
<1>6. ASSUME NEW w \in Worker, Save(w) PROVE Types'
  <2>1. StoreTypeOK'
    <3>1. Current(w) \in Group /\ kind[w] \in GroupType
      BY <1>6, CurrentInTodo DEF Save, WorkerTypeOK, ControlInv
    <3>2. shown[w] \in SUBSET Snapshot /\ ProcOf[w] \in Proc
      BY WorkerAssumption DEF WorkerTypeOK
    <3>3. PICK content \in Content, candidates \in Answers(w) :
            SaveSummaryBatch(Current(w), ProcOf[w], shown[w], kind[w], content, candidates)
      BY <1>6 DEF Save, Says
    <3> QED
      BY <3>1, <3>2, <3>3, SaveEffect DEF Claimed
  <2>2. WorkerTypeOK'
    BY <1>6 DEF Save, WorkerTypeOK, PC
  <2>3. ControlInv'
    BY <1>6 DEF Save, WorkerTypeOK, ControlInv, Active, Holds
  <2> QED
    BY <2>1, <2>2, <2>3
<1>7. ASSUME NEW w \in Worker, Finish(w) \/ Abort(w) PROVE Types'
  <2>1. Leave(w) /\ (pc[w] \in Active \/ Holds(w))
    BY <1>7 DEF Finish, Abort, Active
  <2>2. StoreTypeOK'
    BY <2>1, StoreStepTypes DEF Leave
  <2> QED
    BY <2>1, <2>2, LeaveTypes
<1>8. ASSUME NEW p \in Proc, Crash(p) PROVE Types'
  <2>1. StoreTypeOK'
    BY <1>8, StoreStepTypes DEF Crash, Forget
  <2> QED
    BY <1>8, <2>1, ForgetTypes DEF Crash
<1>9. ASSUME Environment \/ UNCHANGED vars PROVE Types'
  <2>1. UNCHANGED workerVars
    BY <1>9 DEF Environment, Ingest, Activity, Subscribe, SyncGroups, Cleanup, vars, workerVars
  <2>2. WorkerTypeOK' /\ ControlInv'
    BY <2>1 DEF workerVars, WorkerTypeOK, ControlInv, Holds
  <2>3. StoreTypeOK'
    BY <1>9, StoreStepTypes DEF Environment, Ingest, Activity, Subscribe, SyncGroups, Cleanup, vars
  <2> QED
    BY <2>2, <2>3
<1> QED
  BY <1>1, <1>2, <1>3, <1>4, <1>5, <1>6, <1>7, <1>8, <1>9 DEF Next, WorkerStep

(* The tables and the locals of the workers keep their types, and a worker *)
(* past the lock holds it.                                                 *)
THEOREM TypeCorrect == Spec => []Types
<1> QED
  BY TypesInit, TypesStep, PTL DEF Spec

-----------------------------------------------------------------------------
(* Who claims which message.  The three invariants are inductive together  *)
(* once it is known that an id was drawn before it was read or claimed and *)
(* that a row that is still stored has the content it was read with: since *)
(* ids only grow, a row that was deleted never comes back as another.      *)
ReadInv ==
  \A w \in Worker : \A s \in shown[w] :
    /\ s.id <= lastMessageId
    /\ s.id \in RowIds => messages[s.id].message = s.message

ClaimedIdsDrawn ==
  \A b \in DOMAIN batches : \A s \in batches[b].shown : s.id <= lastMessageId

RowsSummarisedOnce ==
  \A b, c \in DOMAIN batches : b # c => IdsOf(batches[b].shown) \cap IdsOf(batches[c].shown) = {}

(* A message is stored once, and where it is stored it has the last of the *)
(* ids it was ever read or summarised under.                               *)
LatestRow ==
  /\ \A r, q \in RowIds : messages[r].message = messages[q].message => r = q
  /\ \A r \in RowIds, b \in DOMAIN batches : \A s \in batches[b].shown :
       messages[r].message = s.message => s.id <= r
  /\ \A r \in RowIds, w \in Worker : \A s \in shown[w] :
       messages[r].message = s.message => s.id <= r

ClaimInv ==
  /\ ReadInv
  /\ ClaimedIdsDrawn
  /\ LatestRow
  /\ ClaimsMatchSummaries
  /\ RowsSummarisedOnce
  /\ StaleOnlyAcrossProcesses

LEMMA ClaimInit == Init => ClaimInv
<1> SUFFICES ASSUME Init PROVE ClaimInv
  OBVIOUS
<1>1. RowIds = {} /\ DOMAIN batches = {} /\ \A w \in Worker : shown[w] = {}
  BY DEF Init, StoreInit, SummarizerInit, RowIds
<1> QED
  BY <1>1 DEF ClaimInv, ReadInv, ClaimedIdsDrawn, LatestRow, ClaimsMatchSummaries,
              RowsSummarisedOnce, StaleOnlyAcrossProcesses

(* A step that leaves messages and batches alone and reads no messages.    *)
LEMMA QuietStep ==
  ASSUME ClaimInv,
         UNCHANGED <<messages, lastMessageId, batches>>,
         \A w \in Worker : /\ shown'[w] = shown[w] \/ shown'[w] = {}
                           /\ pc'[w] = "llm" => pc[w] = "llm"
  PROVE  ClaimInv'
<1> USE DEF ClaimInv
<1>1. RowIds' = RowIds
  BY DEF RowIds
<1>2. ReadInv'
  BY <1>1 DEF ReadInv
<1>3. ClaimedIdsDrawn'
  BY DEF ClaimedIdsDrawn
<1>4. ClaimsMatchSummaries'
  BY <1>1 DEF ClaimsMatchSummaries
<1>5. RowsSummarisedOnce'
  BY DEF RowsSummarisedOnce
<1>6. StaleOnlyAcrossProcesses'
  BY <1>1 DEF StaleOnlyAcrossProcesses
<1>7. LatestRow'
  BY <1>1 DEF LatestRow
<1> QED
  BY <1>2, <1>3, <1>4, <1>5, <1>6, <1>7

(* insert_message draws an id above every id that was read or claimed.     *)
LEMMA InsertKeepsClaims ==
  ASSUME Types, ClaimInv, NEW m \in Message, InsertMessage(m), UNCHANGED workerVars
  PROVE  ClaimInv'
<1> DEFINE new == lastMessageId + 1
<1>1. /\ lastMessageId \in Nat
      /\ RowIds \subseteq 1..lastMessageId
      /\ lastMessageId' = new
      /\ batches' = batches
  BY DEF InsertMessage, NextMessageId, Types, StoreTypeOK
<1>2. /\ RowIds' = RowIds \cup {new}
      /\ new \notin RowIds
      /\ \A r \in RowIds : messages'[r] = messages[r] /\ messages[r].message # m
      /\ messages'[new].batch = NULL /\ messages'[new].message = m
  BY <1>1 DEF InsertMessage, NextMessageId, RowIds
<1>3. \A w \in Worker : \A s \in shown[w] : s.id # new /\ s.id <= new /\ s.id \in Nat
  BY <1>1 DEF ClaimInv, ReadInv, Types, WorkerTypeOK, Snapshot
<1>4. \A b \in DOMAIN batches : batches[b] \in BatchRow(Proc)
  BY ElementOfSeq, LenProperties DEF Types, StoreTypeOK
<1>5. \A b \in DOMAIN batches : \A s \in batches[b].shown :
        s.id # new /\ s.id <= new /\ s.id \in Nat
  BY <1>1, <1>4 DEF ClaimInv, ClaimedIdsDrawn, BatchRow, Snapshot
<1>6. ReadInv'
  BY <1>1, <1>2, <1>3 DEF ClaimInv, ReadInv, workerVars
<1>7. ClaimedIdsDrawn'
  BY <1>1, <1>5 DEF ClaimedIdsDrawn
<1>8. ClaimsMatchSummaries'
  BY <1>1, <1>2, <1>5 DEF ClaimInv, ClaimsMatchSummaries
<1>9. RowsSummarisedOnce'
  BY <1>1 DEF ClaimInv, RowsSummarisedOnce
<1>10. StaleOnlyAcrossProcesses'
  BY <1>1, <1>2 DEF ClaimInv, StaleOnlyAcrossProcesses, workerVars
<1>11. LatestRow'
  <2>1. \A r, q \in RowIds' : messages'[r].message = messages'[q].message => r = q
    BY <1>2 DEF ClaimInv, LatestRow
  <2>2. \A r \in RowIds', b \in DOMAIN batches' : \A s \in batches'[b].shown :
          messages'[r].message = s.message => s.id <= r
    <3> SUFFICES ASSUME NEW r \in RowIds', NEW b \in DOMAIN batches, NEW s \in batches[b].shown,
                        messages'[r].message = s.message
                 PROVE  s.id <= r
      BY <1>1
    <3>1. CASE r = new
      BY <1>5, <3>1
    <3>2. CASE r \in RowIds
      <4>1. messages[r].message = s.message
        BY <1>2, <3>2
      <4> QED
        BY <3>2, <4>1 DEF ClaimInv, LatestRow
    <3> QED
      BY <1>2, <3>1, <3>2
  <2>3. \A r \in RowIds', w \in Worker : \A s \in shown'[w] :
          messages'[r].message = s.message => s.id <= r
    BY <1>2, <1>3 DEF ClaimInv, LatestRow, workerVars
  <2> QED
    BY <2>1, <2>2, <2>3 DEF LatestRow
<1> QED
  BY <1>6, <1>7, <1>8, <1>9, <1>10, <1>11 DEF ClaimInv

(* Only claimed rows are deleted, so a row a worker read and another       *)
(* process did not claim is still there.                                   *)
LEMMA CleanupKeepsClaims ==
  ASSUME Types, ClaimInv, NEW before, CleanupSummarizedMessages(before), UNCHANGED workerVars
  PROVE  ClaimInv'
<1> DEFINE kept == {r \in RowIds : ~Expired(r, before)}
<1>1. /\ messages' = [r \in kept |-> messages[r]]
      /\ lastMessageId' = lastMessageId
      /\ batches' = batches
  BY DEF CleanupSummarizedMessages
<1>2. /\ RowIds' = kept
      /\ \A r \in kept : messages'[r] = messages[r]
      /\ \A r \in RowIds : messages[r].batch = NULL => r \in kept
  BY <1>1 DEF RowIds, Expired
<1>3. ReadInv'
  BY <1>1, <1>2 DEF ClaimInv, ReadInv, workerVars
<1>4. ClaimedIdsDrawn'
  BY <1>1 DEF ClaimInv, ClaimedIdsDrawn
<1>5. ClaimsMatchSummaries'
  BY <1>1, <1>2 DEF ClaimInv, ClaimsMatchSummaries
<1>6. RowsSummarisedOnce'
  BY <1>1 DEF ClaimInv, RowsSummarisedOnce
<1>7. StaleOnlyAcrossProcesses'
  BY <1>1, <1>2 DEF ClaimInv, StaleOnlyAcrossProcesses, workerVars
<1>8. LatestRow'
  BY <1>1, <1>2 DEF ClaimInv, LatestRow, workerVars
<1> QED
  BY <1>3, <1>4, <1>5, <1>6, <1>7, <1>8 DEF ClaimInv

(* What is read is stored and pending. *)
LEMMA DueKeepsClaims ==
  ASSUME Types, ClaimInv, NEW w \in Worker, Due(w)
  PROVE  ClaimInv'
<1>1. /\ UNCHANGED <<messages, lastMessageId, batches>>
      /\ shown' = [shown EXCEPT ![w] = PendingSnapshot(Current(w))]
      /\ pc' = [pc EXCEPT ![w] = "llm"]
  BY DEF Due, storeVars
<1>2. RowIds' = RowIds
  BY <1>1 DEF RowIds
<1>3. \A s \in shown'[w] : /\ s.id \in RowIds
                           /\ s.id <= lastMessageId
                           /\ messages[s.id].message = s.message
                           /\ messages[s.id].batch = NULL
  <2>1. shown'[w] = PendingSnapshot(Current(w))
    BY <1>1 DEF Types, WorkerTypeOK
  <2>2. \A r \in PendingRows(Current(w)) : r \in RowIds /\ messages[r].batch = NULL
    BY DEF PendingRows
  <2>3. \A s \in PendingSnapshot(Current(w)) :
          s.id \in PendingRows(Current(w)) /\ s.message = messages[s.id].message
    BY DEF PendingSnapshot
  <2>4. \A r \in RowIds : r <= lastMessageId
    BY DEF Types, StoreTypeOK
  <2> QED
    BY <2>1, <2>2, <2>3, <2>4
<1>4. \A v \in Worker : v # w => shown'[v] = shown[v] /\ (pc'[v] = "llm" => pc[v] = "llm")
  BY <1>1 DEF Types, WorkerTypeOK
<1>5. ReadInv'
  BY <1>1, <1>2, <1>3, <1>4 DEF ClaimInv, ReadInv
<1>6. ClaimedIdsDrawn' /\ RowsSummarisedOnce'
  BY <1>1 DEF ClaimInv, ClaimedIdsDrawn, RowsSummarisedOnce
<1>7. ClaimsMatchSummaries'
  BY <1>1, <1>2 DEF ClaimInv, ClaimsMatchSummaries
<1>8. StaleOnlyAcrossProcesses'
  BY <1>1, <1>2, <1>3, <1>4 DEF ClaimInv, StaleOnlyAcrossProcesses
<1>9. LatestRow'
  <2>1. \A r \in RowIds : \A s \in shown'[w] : messages[r].message = s.message => s.id = r
    BY <1>3 DEF ClaimInv, LatestRow
  <2>2. \A r \in RowIds : r <= r
    BY DEF Types, StoreTypeOK
  <2> QED
    BY <1>1, <1>2, <1>4, <2>1, <2>2 DEF ClaimInv, LatestRow
<1> QED
  BY <1>5, <1>6, <1>7, <1>8, <1>9 DEF ClaimInv

(* A save claims rows nobody claimed; no batch is written from any of them,*)
(* and no other worker of the process is waiting for an answer, because    *)
(* only the holder of the lock is.                                         *)
LEMMA SaveKeepsClaims ==
  ASSUME Types, ClaimInv, NEW w \in Worker, Save(w)
  PROVE  ClaimInv'
<1> DEFINE new == Len(batches) + 1
<1>1. Current(w) \in Group /\ kind[w] \in GroupType /\ shown[w] \in SUBSET Snapshot
  BY CurrentInTodo DEF Save, Types, WorkerTypeOK, ControlInv
<1>2. PICK content \in Content, candidates \in Answers(w) :
        SaveSummaryBatch(Current(w), ProcOf[w], shown[w], kind[w], content, candidates)
  BY DEF Save, Says
<1>3. /\ Unclaimed(shown[w])
      /\ RowIds' = RowIds
      /\ lastMessageId' = lastMessageId
      /\ Len(batches') = new
      /\ \A b \in 1..Len(batches) : batches'[b] = batches[b]
      /\ batches'[new].shown = shown[w]
      /\ batches'[new].by = ProcOf[w]
      /\ \A r \in RowIds : messages'[r].message = messages[r].message
      /\ \A r \in RowIds \cap IdsOf(shown[w]) : messages'[r].batch = new
      /\ \A r \in RowIds \ IdsOf(shown[w]) : messages'[r] = messages[r]
      /\ StoreTypeOK'
  <2>1. Claimed(ProcOf[w], shown[w])
    BY <1>1, <1>2, SaveEffect, WorkerAssumption DEF Types
  <2> QED
    BY <2>1 DEF Claimed
<1>4. /\ Len(batches) \in Nat
      /\ DOMAIN batches = 1..Len(batches)
      /\ DOMAIN batches' = 1..new
      /\ new \notin DOMAIN batches
      /\ \A b \in DOMAIN batches' : b \in DOMAIN batches \/ b = new
  BY <1>3, LenProperties DEF Types, StoreTypeOK
<1>5. \A s \in shown[w] : /\ s.id \in RowIds \cap IdsOf(shown[w])
                         /\ s.id <= lastMessageId
                         /\ messages[s.id].batch = NULL
                         /\ messages[s.id].message = s.message
  BY <1>3 DEF Unclaimed, IdsOf, ClaimInv, ReadInv
<1>6. \A b \in DOMAIN batches : b # NULL
  BY <1>4 DEF NULL
<1>7. \A b \in DOMAIN batches : IdsOf(batches[b].shown) \cap IdsOf(shown[w]) = {}
  <2>1. ASSUME NEW b \in DOMAIN batches, NEW s \in batches[b].shown, NEW t \in shown[w],
               s.id = t.id
        PROVE  FALSE
    <3>1. t.id \in RowIds /\ messages[t.id].batch = NULL
      BY <1>5
    <3>2. messages[s.id] = [message |-> s.message, batch |-> b]
      BY <2>1, <3>1 DEF ClaimInv, ClaimsMatchSummaries
    <3> QED
      BY <1>6, <2>1, <3>1, <3>2
  <2> QED
    BY <2>1 DEF IdsOf
<1>8. ReadInv'
  BY <1>3 DEF Save, Types, WorkerTypeOK, ClaimInv, ReadInv
<1>9. ClaimedIdsDrawn'
  BY <1>3, <1>4, <1>5 DEF ClaimInv, ClaimedIdsDrawn
<1>10. ClaimsMatchSummaries'
  <2>1. ASSUME NEW r \in RowIds, messages'[r].batch # NULL
        PROVE  /\ messages'[r].batch \in DOMAIN batches'
               /\ [id |-> r, message |-> messages'[r].message] \in batches'[messages'[r].batch].shown
    <3>1. CASE r \in IdsOf(shown[w])
      <4>1. PICK s \in shown[w] : s.id = r
        BY <3>1 DEF IdsOf
      <4>2. s = [id |-> r, message |-> messages[r].message]
        BY <1>1, <1>5, <4>1 DEF Snapshot
      <4> QED
        BY <1>3, <1>4, <3>1, <4>2
    <3>2. CASE r \notin IdsOf(shown[w])
      BY <1>3, <1>4, <2>1, <3>2 DEF ClaimInv, ClaimsMatchSummaries
    <3> QED
      BY <3>1, <3>2
  <2>2. ASSUME NEW b \in DOMAIN batches', NEW s \in batches'[b].shown, s.id \in RowIds
        PROVE  messages'[s.id] = [message |-> s.message, batch |-> b]
    <3>1. CASE b = new
      <4>1. messages'[s.id] \in MessageRow
        BY <1>3, <2>2 DEF StoreTypeOK
      <4> QED
        BY <1>3, <1>5, <2>2, <3>1, <4>1 DEF MessageRow
    <3>2. CASE b \in DOMAIN batches
      <4>1. s \in batches[b].shown
        BY <1>3, <1>4, <2>2, <3>2
      <4>2. s.id \notin IdsOf(shown[w])
        BY <1>7, <3>2, <4>1 DEF IdsOf
      <4> QED
        BY <1>3, <2>2, <3>2, <4>1, <4>2 DEF ClaimInv, ClaimsMatchSummaries
    <3> QED
      BY <1>4, <2>2, <3>1, <3>2
  <2> QED
    BY <1>3, <2>1, <2>2 DEF ClaimsMatchSummaries
<1>11. RowsSummarisedOnce'
  <2> SUFFICES ASSUME NEW b \in DOMAIN batches', NEW c \in DOMAIN batches', b # c
               PROVE  IdsOf(batches'[b].shown) \cap IdsOf(batches'[c].shown) = {}
    BY DEF RowsSummarisedOnce, IdsOf
  <2>1. CASE b \in DOMAIN batches /\ c \in DOMAIN batches
    <3>1. IdsOf(batches[b].shown) \cap IdsOf(batches[c].shown) = {}
      BY <2>1 DEF ClaimInv, RowsSummarisedOnce
    <3> QED
      BY <1>3, <1>4, <2>1, <3>1
  <2>2. CASE b = new /\ c \in DOMAIN batches
    <3>1. batches'[b].shown = shown[w] /\ batches'[c].shown = batches[c].shown
      BY <1>3, <1>4, <2>2
    <3> QED
      BY <1>7, <2>2, <3>1
  <2>3. CASE b \in DOMAIN batches /\ c = new
    <3>1. batches'[c].shown = shown[w] /\ batches'[b].shown = batches[b].shown
      BY <1>3, <1>4, <2>3
    <3> QED
      BY <1>7, <2>3, <3>1
  <2> QED
    BY <1>4, <2>1, <2>2, <2>3
<1>12. StaleOnlyAcrossProcesses'
  <2>1. SUFFICES ASSUME NEW v \in Worker, pc'[v] = "llm", NEW s \in shown'[v]
                 PROVE  \/ s.id \in RowIds' /\ messages'[s.id].batch = NULL
                        \/ \E b \in DOMAIN batches' : /\ s \in batches'[b].shown
                                                      /\ batches'[b].by # ProcOf[v]
    BY DEF StaleOnlyAcrossProcesses
  <2>2. v # w /\ pc[v] = "llm" /\ s \in shown[v]
    BY <2>1 DEF Save, Types, WorkerTypeOK
  <2>3. ProcOf[v] # ProcOf[w]
    BY <2>2 DEF Save, Types, ControlInv, Active, Holds
  <2>4. CASE s.id \in RowIds /\ messages[s.id].batch = NULL
    <3>1. CASE s.id \in IdsOf(shown[w])
      <4>1. PICK t \in shown[w] : t.id = s.id
        BY <3>1 DEF IdsOf
      <4>2. s = t
        <5>1. s \in Snapshot /\ t \in Snapshot
          BY <2>2, <1>1 DEF Types, WorkerTypeOK
        <5>2. s.message = t.message
          BY <1>5, <2>2, <2>4, <4>1 DEF ClaimInv, ReadInv
        <5> QED
          BY <4>1, <5>1, <5>2 DEF Snapshot
      <4> QED
        BY <1>3, <1>4, <2>3, <4>2
    <3>2. CASE s.id \notin IdsOf(shown[w])
      BY <1>3, <2>4, <3>2
    <3> QED
      BY <3>1, <3>2
  <2>5. CASE \E b \in DOMAIN batches : s \in batches[b].shown /\ batches[b].by # ProcOf[v]
    BY <1>3, <1>4, <2>5
  <2> QED
    BY <2>2, <2>4, <2>5 DEF ClaimInv, StaleOnlyAcrossProcesses
<1>13. LatestRow'
  <2>1. \A r \in RowIds', b \in DOMAIN batches' : \A s \in batches'[b].shown :
          messages'[r].message = s.message => s.id <= r
    BY <1>3, <1>4 DEF ClaimInv, LatestRow
  <2>2. \A v \in Worker : \A s \in shown'[v] : s \in shown[v]
    BY DEF Save, Types, WorkerTypeOK
  <2> QED
    BY <1>3, <2>1, <2>2 DEF ClaimInv, LatestRow
<1> QED
  BY <1>8, <1>9, <1>10, <1>11, <1>12, <1>13 DEF ClaimInv

LEMMA ClaimStep == Types /\ ClaimInv /\ [Next]_vars => ClaimInv'
<1> SUFFICES ASSUME Types, ClaimInv, [Next]_vars PROVE ClaimInv'
  OBVIOUS
<1>1. ASSUME NEW w \in Worker, Request(w) \/ Enter(w) \/ GetGroup(w) \/ NotDue(w) PROVE ClaimInv'
  <2>1. /\ UNCHANGED <<messages, lastMessageId, batches, shown>>
        /\ \A v \in Worker : pc'[v] = "llm" => pc[v] = "llm"
    BY <1>1 DEF Request, Enter, GetGroup, NotDue, storeVars, Types, WorkerTypeOK
  <2> QED
    BY <2>1, QuietStep
<1>2. ASSUME NEW w \in Worker, Finish(w) \/ Abort(w) PROVE ClaimInv'
  <2>1. Leave(w)
    BY <1>2 DEF Finish, Abort
  <2>2. /\ UNCHANGED <<messages, lastMessageId, batches>>
        /\ \A v \in Worker : /\ shown'[v] = shown[v] \/ shown'[v] = {}
                             /\ pc'[v] = "llm" => pc[v] = "llm"
    BY <2>1 DEF Leave, storeVars, Types, WorkerTypeOK
  <2> QED
    BY <2>2, QuietStep
<1>3. ASSUME NEW p \in Proc, Crash(p) PROVE ClaimInv'
  <2>1. /\ UNCHANGED <<messages, lastMessageId, batches>>
        /\ \A v \in Worker : /\ shown'[v] = shown[v] \/ shown'[v] = {}
                             /\ pc'[v] = "llm" => pc[v] = "llm"
    BY <1>3 DEF Crash, Forget, storeVars, Types, WorkerTypeOK
  <2> QED
    BY <2>1, QuietStep
<1>4. CASE \/ \E g \in Group : Activity(g)
           \/ \E typeOf \in Subscriptions : Subscribe(typeOf)
           \/ \E listed \in Catalogues : SyncGroups(listed)
           \/ UNCHANGED vars
  <2>1. UNCHANGED <<messages, lastMessageId, batches, shown, pc>>
    BY <1>4 DEF Activity, Subscribe, SyncGroups, RecordGroupActivity,
                ReplaceGroupSubscriptions, SyncAvailableGroups,
                vars, storeVars, workerVars
  <2> QED
    BY <2>1, QuietStep
<1>5. CASE \E m \in Message : Ingest(m)
  BY <1>5, InsertKeepsClaims DEF Ingest
<1>6. CASE \E before \in Cutoffs : Cleanup(before)
  BY <1>6, CleanupKeepsClaims DEF Cleanup
<1> QED
  BY <1>1, <1>2, <1>3, <1>4, <1>5, <1>6, DueKeepsClaims, SaveKeepsClaims
     DEF Next, WorkerStep, Environment

(* A row that is still stored is the last its message had. *)
LEMMA ClaimInvImplies ==
  ASSUME Types, ClaimInv
  PROVE  SummarisedOnce
<1> SUFFICES ASSUME NEW b \in DOMAIN batches, NEW c \in DOMAIN batches,
                    NEW s \in batches[b].shown, NEW t \in batches[c].shown,
                    s.message = t.message, s.id < t.id, s.id \in RowIds
             PROVE  FALSE
  BY DEF SummarisedOnce, ClaimInv, RowsSummarisedOnce
<1>1. messages[s.id] = [message |-> s.message, batch |-> b]
  BY DEF ClaimInv, ClaimsMatchSummaries
<1>2. t.id <= s.id
  <2>1. messages[s.id].message = t.message
    BY <1>1
  <2> QED
    BY <2>1 DEF ClaimInv, LatestRow
<1>3. s.id \in Nat /\ t.id \in Nat
  <2>1. batches[b] \in BatchRow(Proc) /\ batches[c] \in BatchRow(Proc)
    BY ElementOfSeq, LenProperties DEF Types, StoreTypeOK
  <2> QED
    BY <2>1 DEF BatchRow, Snapshot
<1> QED
  BY <1>2, <1>3

LEMMA ClaimsHold == Spec => [](Types /\ ClaimInv)
<1>1. Init => Types /\ ClaimInv
  BY TypesInit, ClaimInit
<1>2. Types /\ ClaimInv /\ [Next]_vars => (Types /\ ClaimInv)'
  BY TypesStep, ClaimStep
<1> QED
  BY <1>1, <1>2, PTL DEF Spec

(* A claimed message is in the summary its row names, with its content,    *)
(* and a stored message some summary was written from is claimed by it:    *)
(* summarize_group, insert_message and cleanup agree on every row id.      *)
THEOREM ClaimsCorrect == Spec => []ClaimsMatchSummaries
<1>1. Types /\ ClaimInv => ClaimsMatchSummaries
  BY DEF ClaimInv
<1> QED
  BY <1>1, ClaimsHold, PTL

(* Two summaries never share a message row, whichever processes wrote them *)
(* and however late a model answered (save_summary_batch's claim check),   *)
(* and they share a QQ message only after the row of the earlier one was   *)
(* deleted (insert_message recognises it until then).                      *)
THEOREM NeverSummarisedTwice == Spec => []SummarisedOnce
<1>1. Types /\ ClaimInv => SummarisedOnce
  BY ClaimInvImplies
<1> QED
  BY <1>1, ClaimsHold, PTL

(* Within a process _run_lock keeps the messages a worker sends to the     *)
(* model unclaimed until it saves: the claim check can only fail for a     *)
(* batch another process wrote.                                            *)
THEOREM LockKeepsSnapshotFresh == Spec => []StaleOnlyAcrossProcesses
<1>1. Types /\ ClaimInv => StaleOnlyAcrossProcesses
  BY DEF ClaimInv
<1> QED
  BY <1>1, ClaimsHold, PTL

-----------------------------------------------------------------------------
LEMMA PendingStep == Types /\ [Next]_vars => [LeavesBySummary]_vars
<1> SUFFICES ASSUME Types, Next PROVE LeavesBySummary
  BY DEF LeavesBySummary, vars
<1>1. ASSUME NEW w \in Worker, Save(w) PROVE LeavesBySummary
  <2> DEFINE new == Len(batches) + 1
  <2>1. Current(w) \in Group /\ kind[w] \in GroupType /\ shown[w] \in SUBSET Snapshot
    BY <1>1, CurrentInTodo DEF Save, Types, WorkerTypeOK, ControlInv
  <2>2. PICK content \in Content, candidates \in Answers(w) :
          SaveSummaryBatch(Current(w), ProcOf[w], shown[w], kind[w], content, candidates)
    BY <1>1 DEF Save, Says
  <2>3. Claimed(ProcOf[w], shown[w])
    BY <2>1, <2>2, SaveEffect, WorkerAssumption DEF Types
  <2>4. new \in DOMAIN batches' /\ new \notin DOMAIN batches
    BY <2>3, LenProperties DEF Claimed, Types, StoreTypeOK
  <2>5. \A r \in RowIds \cap IdsOf(shown[w]) : messages[r].batch = NULL
    BY <2>3 DEF Claimed, Unclaimed, IdsOf
  <2>6. ASSUME NEW r \in RowIds, messages[r].batch = NULL, messages'[r].batch # NULL
        PROVE  r \in IdsOf(batches'[new].shown)
    BY <2>3, <2>6 DEF Claimed
  <2> QED
    BY <2>3, <2>4, <2>5, <2>6 DEF Claimed, LeavesBySummary, RowIds
<1>2. ASSUME NEW m \in Message, Ingest(m) PROVE LeavesBySummary
  <2>1. \A r \in RowIds : r # NextMessageId
    BY DEF NextMessageId, Types, StoreTypeOK
  <2>2. \A r \in RowIds : r \in DOMAIN messages' /\ messages'[r] = messages[r]
    BY <1>2, <2>1 DEF Ingest, InsertMessage
  <2> QED
    BY <2>2 DEF LeavesBySummary
<1>3. ASSUME NEW before \in Cutoffs, Cleanup(before) PROVE LeavesBySummary
  BY <1>3 DEF Cleanup, CleanupSummarizedMessages, Expired, LeavesBySummary
<1>4. ASSUME messages' = messages PROVE LeavesBySummary
  BY <1>4 DEF LeavesBySummary, RowIds
<1>5. ASSUME NEW w \in Worker, WorkerStep(w) PROVE Save(w) \/ messages' = messages
  BY <1>5 DEF WorkerStep, Request, Enter, GetGroup, NotDue, Due, Finish, Abort, Leave, storeVars
<1>6. ASSUME NEW p \in Proc, Crash(p) PROVE messages' = messages
  BY <1>6 DEF Crash, Forget, storeVars
<1>7. CASE \/ \E g \in Group : Activity(g)
           \/ \E typeOf \in Subscriptions : Subscribe(typeOf)
           \/ \E listed \in Catalogues : SyncGroups(listed)
  BY <1>4, <1>7 DEF Activity, Subscribe, SyncGroups, RecordGroupActivity, ReplaceGroupSubscriptions, SyncAvailableGroups
<1> QED
  BY <1>1, <1>2, <1>3, <1>4, <1>5, <1>6, <1>7 DEF Next, Environment

(* A pending message is never lost: it stays stored until a batch that was *)
(* written from it is saved, and only summarised messages are deleted.     *)
THEOREM PendingIsKept == Spec => PendingOnlyLeavesBySummary
<1> QED
  BY TypesInit, TypesStep, PendingStep, PTL DEF Spec, PendingOnlyLeavesBySummary

-----------------------------------------------------------------------------
(* The fold of save_summary_batch.  FoldLeft recurs over the sets of       *)
(* positions that are left; what its result is follows once such a         *)
(* function is known to exist, and both by a smallest counterexample.      *)

Upserts(notes, g, candidates) ==
  LET upsert(rows, c) == UpsertNotification(rows, g, c)
  IN  FoldLeft(upsert, notes, candidates)

IsFoldOver(it, N, notes, g, candidates) ==
  it = [s \in SUBSET (1..N) |->
         IF s = {} THEN notes
         ELSE UpsertNotification(it[s \ {Max(s)}], g, candidates[Max(s)])]

LEMMA MaxOfPositions ==
  ASSUME NEW n \in Nat, NEW s \in SUBSET (1..n), s # {}
  PROVE  Max(s) \in s /\ \A y \in s : y <= Max(s)
<1>1. IsFiniteSet(s) /\ s \subseteq Int
  <2>1. IsFiniteSet(1..n) /\ 1..n \subseteq Int
    BY FS_Interval
  <2> QED
    BY <2>1, FS_Subset, Zenon
<1>2. \E x \in s : \A y \in s : x >= y
  BY <1>1, FiniteMax
<1> QED
  BY <1>1, <1>2 DEF Max

LEMMA FoldExists ==
  ASSUME NEW N \in Nat, NEW notes, NEW g, NEW candidates
  PROVE  \E it : IsFoldOver(it, N, notes, g, candidates)
<1> DEFINE Bad == {n \in Nat : ~\E it : IsFoldOver(it, n, notes, g, candidates)}
<1>1. SUFFICES ASSUME Bad # {} PROVE FALSE
  OBVIOUS
<1>2. PICK n \in Bad : \A k \in Bad : n <= k
  BY <1>1, NatMin
<1>3. n # 0
  <2> DEFINE it == [s \in SUBSET (1..0) |-> notes]
  <2>1. \A s \in SUBSET (1..0) : s = {}
    OBVIOUS
  <2>2. IsFoldOver(it, 0, notes, g, candidates)
    BY <2>1 DEF IsFoldOver
  <2> QED
    BY <1>2, <2>2
<1>4. n - 1 \in Nat /\ n - 1 \notin Bad
  BY <1>2, <1>3
<1>5. PICK before : IsFoldOver(before, n - 1, notes, g, candidates)
  BY <1>4
<1> DEFINE step(s) == UpsertNotification(before[s \ {n}], g, candidates[n])
           it == [s \in SUBSET (1..n) |-> IF n \in s THEN step(s) ELSE before[s]]
<1>6. ASSUME NEW s \in SUBSET (1..n)
      PROVE  it[s] = IF s = {} THEN notes
                     ELSE UpsertNotification(it[s \ {Max(s)}], g, candidates[Max(s)])
  <2>1. CASE n \in s
    <3>1. Max(s) = n
      <4>1. Max(s) \in s /\ n <= Max(s)
        BY <1>2, <2>1, MaxOfPositions
      <4>2. Max(s) \in 1..n /\ n \in Nat
        BY <1>2, <4>1
      <4> QED
        BY <4>1, <4>2
    <3>2. s \ {n} \in SUBSET (1..n) /\ n \notin s \ {n}
      OBVIOUS
    <3>3. it[s \ {n}] = before[s \ {n}]
      BY <3>2
    <3>4. it[s] = step(s)
      BY <2>1
    <3> HIDE DEF it
    <3> QED
      BY <2>1, <3>1, <3>3, <3>4
  <2>2. CASE n \notin s
    <3>1. s \in SUBSET (1..(n - 1))
      BY <1>2, <2>2
    <3>2. before[s] = IF s = {} THEN notes
                      ELSE UpsertNotification(before[s \ {Max(s)}], g, candidates[Max(s)])
      BY <1>5, <3>1 DEF IsFoldOver
    <3>3. it[s] = before[s] /\ it[s \ {Max(s)}] = before[s \ {Max(s)}]
      BY <2>2
    <3> HIDE DEF it
    <3> QED
      BY <3>2, <3>3
  <2> QED
    BY <2>1, <2>2
<1>7. IsFoldOver(it, n, notes, g, candidates)
  <2> DEFINE body(s) == IF s = {} THEN notes
                        ELSE UpsertNotification(it[s \ {Max(s)}], g, candidates[Max(s)])
  <2>1. it = [s \in SUBSET (1..n) |-> it[s]]
    OBVIOUS
  <2>2. \A s \in SUBSET (1..n) : it[s] = body(s)
    BY <1>6
  <2> HIDE DEF it
  <2>3. it = [s \in SUBSET (1..n) |-> body(s)]
    BY <2>1, <2>2
  <2> QED
    BY <2>3 DEF IsFoldOver
<1> QED
  BY <1>2, <1>7

(* A set of tables that one upsert does not leave is not left by the fold. *)
LEMMA UpsertsStayIn ==
  ASSUME NEW g, NEW N \in Nat, NEW candidates, DOMAIN candidates = 1..N,
         NEW Tables, NEW notes \in Tables,
         \A rows \in Tables : \A i \in 1..N : UpsertNotification(rows, g, candidates[i]) \in Tables
  PROVE  Upserts(notes, g, candidates) \in Tables
<1> DEFINE it == CHOOSE f : IsFoldOver(f, N, notes, g, candidates)
<1>1. Upserts(notes, g, candidates) = it[1..N]
  BY DEF Upserts, FoldLeft, MapThenFoldSet, IsFoldOver
<1>2. IsFoldOver(it, N, notes, g, candidates)
  BY FoldExists
<1> HIDE DEF it
<1> DEFINE Bad == {k \in 0..N : it[1..k] \notin Tables}
<1>3. SUFFICES ASSUME Bad # {} PROVE FALSE
  BY <1>1
<1>4. PICK k \in Bad : \A j \in Bad : k <= j
  <2>1. Bad \subseteq Nat
    OBVIOUS
  <2> HIDE DEF Bad
  <2> QED
    BY <1>3, <2>1, NatMin
<1>5. k # 0
  <2>1. 1..0 = {}
    OBVIOUS
  <2>2. it[1..0] = notes
    BY <1>2, <2>1 DEF IsFoldOver
  <2> QED
    BY <1>4, <2>2
<1>6. k \in 1..N /\ k - 1 \in 0..N /\ k - 1 \notin Bad
  BY <1>4, <1>5
<1>7. 1..k \in SUBSET (1..N) /\ 1..k # {} /\ (1..k) \ {k} = 1..(k - 1)
  <2>1. k \in Nat /\ 1 <= k /\ k <= N
    BY <1>6
  <2>2. 1..k \subseteq 1..N /\ k \in 1..k
    BY <2>1
  <2>3. \A j : j \in (1..k) \ {k} <=> j \in 1..(k - 1)
    BY <2>1
  <2> QED
    BY <2>2, <2>3
<1>8. Max(1..k) = k
  <2>1. k \in Nat /\ k \in 1..k
    BY <1>6
  <2>2. Max(1..k) \in 1..k /\ k <= Max(1..k)
    BY <1>7, <2>1, MaxOfPositions
  <2> QED
    BY <2>1, <2>2
<1>9. it[1..k] = UpsertNotification(it[1..(k - 1)], g, candidates[k])
  BY <1>2, <1>7, <1>8 DEF IsFoldOver
<1>10. it[1..(k - 1)] \in Tables
  BY <1>6
<1> QED
  BY <1>4, <1>6, <1>9, <1>10

-----------------------------------------------------------------------------
(* Notifications.  A table is good when the dedup key is unique and every  *)
(* source is a row of "claimed" that belongs to the group of the entry.    *)
NoteTables(claimed) ==
  {notes \in Seq(NotificationRow) :
     \A n \in DOMAIN notes :
       /\ \A k \in DOMAIN notes : notes[k].key = notes[n].key => k = n
       /\ notes[n].source # NULL =>
            /\ notes[n].source \in claimed
            /\ GroupOf[messages[notes[n].source].message] = notes[n].group}

ClaimedRows == {r \in RowIds : messages[r].batch # NULL}

(* The dedup key keeps its meaning because a message is stored once, so    *)
(* that the source of a candidate is the row the model was shown, and that *)
(* row belongs to the group the worker is at.                              *)
NoteInv ==
  /\ notifications \in NoteTables(ClaimedRows)
  /\ \A r, q \in RowIds : messages[r].message = messages[q].message => r = q
  /\ \A w \in Worker : \A s \in shown[w] : GroupOf[s.message] = Current(w)

LEMMA NoteInvImplies ==
  ASSUME NoteInv
  PROVE  notifications \in Seq(NotificationRow) /\ OneNotificationPerKey
BY DEF NoteInv, NoteTables, ClaimedRows, OneNotificationPerKey

LEMMA NoteInit == Init => NoteInv
<1> SUFFICES ASSUME Init PROVE NoteInv
  OBVIOUS
<1>1. RowIds = {} /\ notifications = <<>> /\ \A w \in Worker : shown[w] = {}
  BY DEF Init, StoreInit, SummarizerInit, RowIds
<1>2. notifications \in Seq(NotificationRow) /\ DOMAIN notifications = {}
  BY <1>1
<1> QED
  BY <1>1, <1>2 DEF NoteInv, NoteTables

(* The entry the SELECT returns is one of those with the key. *)
LEMMA EarliestIsSame ==
  ASSUME NEW notes \in Seq(NotificationRow), NEW same \in SUBSET (DOMAIN notes), same # {}
  PROVE  (CHOOSE n \in same : \A k \in same : notes[n].first_seen <= notes[k].first_seen) \in same
<1> DEFINE Times == {notes[n].first_seen : n \in same}
<1>1. \A n \in same : notes[n].first_seen \in Nat
  <2>1. \A n \in same : notes[n] \in NotificationRow
    BY ElementOfSeq, LenProperties
  <2>2. \A row \in NotificationRow : row.first_seen \in Nat
    BY DEF NotificationRow
  <2> QED
    BY <2>1, <2>2
<1>2. Times # {} /\ Times \subseteq Nat
  BY <1>1
<1>3. PICK t \in Times : \A u \in Times : t <= u
  <2> HIDE DEF Times
  <2> QED
    BY <1>2, NatMin
<1>4. PICK n \in same : t = notes[n].first_seen
  BY <1>3
<1>5. \A k \in same : notes[n].first_seen <= notes[k].first_seen
  BY <1>3, <1>4
<1> QED
  BY <1>4, <1>5

(* The update of a merged entry, whatever the candidate says. *)
LEMMA MergedRow ==
  ASSUME NEW note \in NotificationRow, NEW c \in Candidate
  PROVE  /\ Merged(note, c) \in NotificationRow
         /\ Merged(note, c).key = note.key
         /\ Merged(note, c).source = note.source
         /\ Merged(note, c).group = note.group
<1> DEFINE status == IF IsNewUpdate(note, c.update) THEN "pending" ELSE note.status
           delivery == IF IsNewUpdate(note, c.update) THEN NULL ELSE note.delivery
           update == IF c.update = NONE THEN note.update ELSE c.update
           sources == note.sources \cup {c.source}
<1>1. status \in {"pending", "sent"} /\ delivery \in Nat
  BY DEF NotificationRow, NULL
<1>2. update \in Update /\ sources \in SUBSET Message
  BY DEF NotificationRow, Candidate
<1>3. Merged(note, c) = [note EXCEPT !.sources = sources, !.update = update,
                                     !.status = status, !.delivery = delivery]
  BY DEF Merged
<1> HIDE DEF status, delivery, update, sources
<1> QED
  BY <1>1, <1>2, <1>3 DEF NotificationRow

LEMMA UpsertKeepsTables ==
  ASSUME NEW claimed \in SUBSET Nat, NEW notes \in NoteTables(claimed),
         NEW g \in Group, NEW c \in Candidate,
         RowOf(c.source) \in claimed, messages[RowOf(c.source)].message = c.source,
         GroupOf[c.source] = g
  PROVE  UpsertNotification(notes, g, c) \in NoteTables(claimed)
<1> DEFINE same == SameKey(notes, g, c.key)
           n == CHOOSE n \in same : \A k \in same : notes[n].first_seen <= notes[k].first_seen
           row == [group |-> g, source |-> RowOf(c.source), sources |-> {c.source},
                   first_seen |-> SentAt[c.source], key |-> c.key,
                   update |-> c.update, status |-> "pending", delivery |-> NULL]
<1>1. /\ notes \in Seq(NotificationRow)
      /\ \A i \in DOMAIN notes :
           /\ \A k \in DOMAIN notes : notes[k].key = notes[i].key => k = i
           /\ notes[i].source # NULL =>
                /\ notes[i].source \in claimed
                /\ GroupOf[messages[notes[i].source].message] = notes[i].group
  BY DEF NoteTables
<1>2. Len(notes) \in Nat /\ DOMAIN notes = 1..Len(notes)
      /\ \A i \in DOMAIN notes : notes[i] \in NotificationRow
  BY <1>1, ElementOfSeq, LenProperties
<1>3. CASE same = {}
  <2>1. UpsertNotification(notes, g, c) = Append(notes, row)
    BY <1>3 DEF UpsertNotification
  <2>2. row \in NotificationRow
    BY MessageAssumption DEF NotificationRow, Candidate, NULL
  <2>3. row.key = c.key /\ row.source = RowOf(c.source) /\ row.group = g
    OBVIOUS
  <2> HIDE DEF row
  <2>4. /\ Append(notes, row) \in Seq(NotificationRow)
        /\ DOMAIN Append(notes, row) = 1..(Len(notes) + 1)
        /\ \A i \in 1..Len(notes) : Append(notes, row)[i] = notes[i]
        /\ Append(notes, row)[Len(notes) + 1] = row
    BY <1>1, <2>2, AppendProperties, LenProperties
  <2>5. \A i \in DOMAIN notes : notes[i].key # row.key
    BY <1>3, <2>3 DEF SameKey
  <2> DEFINE new == Append(notes, row)
             last == Len(notes) + 1
  <2>6. \A i \in DOMAIN new : i \in DOMAIN notes \/ i = last
    BY <1>2, <2>4
  <2>7. /\ \A i \in DOMAIN notes : new[i] = notes[i]
        /\ new[last] = row
        /\ new \in Seq(NotificationRow)
    BY <1>2, <2>4
  <2> HIDE DEF new, last
  <2>8. \A i, k \in DOMAIN new : new[k].key = new[i].key => k = i
    BY <1>1, <2>5, <2>6, <2>7
  <2>9. \A i \in DOMAIN new : new[i].source # NULL =>
          /\ new[i].source \in claimed
          /\ GroupOf[messages[new[i].source].message] = new[i].group
    BY <1>1, <2>3, <2>6, <2>7
  <2>10. new \in NoteTables(claimed)
    BY <2>7, <2>8, <2>9 DEF NoteTables
  <2> QED
    BY <2>1, <2>10 DEF new
<1>4. CASE same # {}
  <2>1. n \in same
    <3>1. same \in SUBSET DOMAIN notes
      BY DEF SameKey
    <3> HIDE DEF same
    <3> QED
      BY <1>1, <1>4, <3>1, EarliestIsSame
  <2>2. UpsertNotification(notes, g, c) = [notes EXCEPT ![n] = Merged(notes[n], c)]
    BY <1>4 DEF UpsertNotification
  <2>3. n \in DOMAIN notes
    BY <2>1 DEF SameKey
  <2> HIDE DEF n, same
  <2>4. /\ Merged(notes[n], c) \in NotificationRow
        /\ Merged(notes[n], c).key = notes[n].key
        /\ Merged(notes[n], c).source = notes[n].source
        /\ Merged(notes[n], c).group = notes[n].group
    BY <1>2, <2>3, MergedRow
  <2> DEFINE new == [notes EXCEPT ![n] = Merged(notes[n], c)]
  <2>5. new \in [1..Len(notes) -> NotificationRow] /\ DOMAIN new = DOMAIN notes
    BY <1>2, <2>4
  <2>6. new \in Seq(NotificationRow)
    BY <1>2, <2>5, SeqDef
  <2>7. \A i \in DOMAIN notes : /\ new[i].key = notes[i].key
                                /\ new[i].source = notes[i].source
                                /\ new[i].group = notes[i].group
    BY <1>2, <2>3, <2>4
  <2> HIDE DEF new
  <2>8. new \in NoteTables(claimed)
    BY <1>1, <2>5, <2>6, <2>7 DEF NoteTables
  <2> QED
    BY <2>2, <2>8 DEF new
<1> QED
  BY <1>3, <1>4

(* A step that leaves the two tables alone and reads no messages. *)
LEMMA NotesQuiet ==
  ASSUME NoteInv, UNCHANGED <<messages, notifications>>,
         \A w \in Worker : shown'[w] = {} \/ (shown'[w] = shown[w] /\ todo'[w] = todo[w])
  PROVE  NoteInv'
<1>1. RowIds' = RowIds /\ ClaimedRows' = ClaimedRows
  BY DEF RowIds, ClaimedRows
<1>2. \A w \in Worker : todo'[w] = todo[w] => Current(w)' = Current(w)
  BY DEF Current
<1>3. (notifications \in NoteTables(ClaimedRows))'
  BY <1>1 DEF NoteInv, NoteTables
<1> QED
  BY <1>1, <1>2, <1>3 DEF NoteInv

LEMMA InsertKeepsNotes ==
  ASSUME Types, NoteInv, NEW m \in Message, InsertMessage(m), UNCHANGED workerVars
  PROVE  NoteInv'
<1> DEFINE new == NextMessageId
<1>1. /\ RowIds' = RowIds \cup {new} /\ new \notin RowIds
      /\ \A r \in RowIds : messages'[r] = messages[r] /\ messages[r].message # m
      /\ messages'[new].message = m
      /\ UNCHANGED <<notifications, shown, todo>>
  BY DEF InsertMessage, NextMessageId, RowIds, Types, StoreTypeOK, workerVars
<1> HIDE DEF new
<1>2. (notifications \in NoteTables(ClaimedRows))'
  BY <1>1 DEF NoteInv, NoteTables, ClaimedRows
<1>3. \A r, q \in RowIds' : messages'[r].message = messages'[q].message => r = q
  BY <1>1 DEF NoteInv
<1>4. \A w \in Worker : Current(w)' = Current(w)
  BY <1>1 DEF Current
<1> QED
  BY <1>1, <1>2, <1>3, <1>4 DEF NoteInv

(* A source that is deleted is set to NULL. *)
LEMMA CleanupKeepsNotes ==
  ASSUME Types, NoteInv, NEW before, CleanupSummarizedMessages(before), UNCHANGED workerVars
  PROVE  NoteInv'
<1> DEFINE kept == {r \in RowIds : ~Expired(r, before)}
           notes == ForgetSources(notifications, kept)
<1>1. /\ RowIds' = kept
      /\ \A r \in kept : messages'[r] = messages[r]
      /\ notifications' = notes
      /\ UNCHANGED <<shown, todo>>
  BY DEF CleanupSummarizedMessages, RowIds, workerVars
<1>2. kept \in SUBSET RowIds
  OBVIOUS
<1> HIDE DEF kept
<1>3. /\ notifications \in Seq(NotificationRow)
      /\ \A n \in DOMAIN notifications :
           /\ \A k \in DOMAIN notifications : notifications[k].key = notifications[n].key => k = n
           /\ notifications[n].source # NULL =>
                /\ notifications[n].source \in ClaimedRows
                /\ GroupOf[messages[notifications[n].source].message] = notifications[n].group
  BY DEF NoteInv, NoteTables
<1>4. /\ Len(notifications) \in Nat /\ DOMAIN notifications = 1..Len(notifications)
      /\ \A n \in DOMAIN notifications : notifications[n] \in NotificationRow
  BY <1>3, ElementOfSeq, LenProperties
<1>5. /\ DOMAIN notes = DOMAIN notifications
      /\ \A n \in DOMAIN notifications :
           /\ notes[n] \in NotificationRow
           /\ notes[n].key = notifications[n].key
           /\ notes[n].group = notifications[n].group
           /\ notes[n].source = NULL \/ (/\ notes[n].source = notifications[n].source
                                         /\ notes[n].source \in kept)
  <2>1. /\ DOMAIN notes = DOMAIN notifications
        /\ \A n \in DOMAIN notifications : notes[n] =
             IF notifications[n].source \in kept THEN notifications[n]
             ELSE [notifications[n] EXCEPT !.source = NULL]
    BY DEF ForgetSources
  <2> HIDE DEF notes
  <2>2. ASSUME NEW n \in DOMAIN notifications
        PROVE  /\ notes[n] \in NotificationRow
               /\ notes[n].key = notifications[n].key
               /\ notes[n].group = notifications[n].group
               /\ notes[n].source = NULL \/ (/\ notes[n].source = notifications[n].source
                                             /\ notes[n].source \in kept)
    <3>1. CASE notifications[n].source \in kept
      BY <1>4, <2>1, <3>1
    <3>2. CASE notifications[n].source \notin kept
      <4>1. notes[n] = [notifications[n] EXCEPT !.source = NULL]
        BY <2>1, <3>2
      <4> QED
        BY <1>4, <4>1 DEF NotificationRow, NULL
    <3> QED
      BY <3>1, <3>2
  <2> QED
    BY <2>1, <2>2
<1>6. notes \in Seq(NotificationRow)
  <2>1. notes \in [1..Len(notifications) -> NotificationRow]
    <3>1. notes = [n \in DOMAIN notifications |-> notes[n]]
      BY DEF ForgetSources
    <3> HIDE DEF notes
    <3> QED
      BY <1>4, <1>5, <3>1
  <2> QED
    BY <1>4, <2>1, SeqDef
<1> HIDE DEF notes
<1>7. \A r \in kept : r \in ClaimedRows => r \in ClaimedRows'
  BY <1>1, <1>2 DEF ClaimedRows
<1>8. (notifications \in NoteTables(ClaimedRows))'
  <2>1. \A n \in DOMAIN notes : \A k \in DOMAIN notes : notes[k].key = notes[n].key => k = n
    BY <1>3, <1>5
  <2>2. \A n \in DOMAIN notes : notes[n].source # NULL =>
          /\ notes[n].source \in ClaimedRows'
          /\ GroupOf[messages'[notes[n].source].message] = notes[n].group
    BY <1>1, <1>3, <1>5, <1>7
  <2> QED
    BY <1>1, <1>6, <2>1, <2>2 DEF NoteTables
<1>9. \A r, q \in RowIds' : messages'[r].message = messages'[q].message => r = q
  BY <1>1, <1>2 DEF NoteInv
<1>10. \A w \in Worker : Current(w)' = Current(w)
  BY <1>1 DEF Current
<1> QED
  BY <1>1, <1>8, <1>9, <1>10 DEF NoteInv

LEMMA DueKeepsNotes ==
  ASSUME Types, NoteInv, NEW w \in Worker, Due(w)
  PROVE  NoteInv'
<1>1. /\ UNCHANGED <<messages, notifications, todo>>
      /\ shown' = [shown EXCEPT ![w] = PendingSnapshot(Current(w))]
  BY DEF Due, storeVars
<1>2. RowIds' = RowIds /\ \A v \in Worker : Current(v)' = Current(v)
  BY <1>1 DEF RowIds, Current
<1>3. (notifications \in NoteTables(ClaimedRows))'
  BY <1>1, <1>2 DEF NoteInv, NoteTables, ClaimedRows
<1>4. \A s \in PendingSnapshot(Current(w)) : GroupOf[s.message] = Current(w)
  BY DEF PendingSnapshot, PendingRows
<1>5. \A v \in Worker : \A s \in shown'[v] : GroupOf[s.message] = Current(v)
  BY <1>1, <1>4 DEF Types, WorkerTypeOK, NoteInv
<1> QED
  BY <1>1, <1>2, <1>3, <1>5 DEF NoteInv

(* What the model may answer: each candidate cites a message it was shown. *)
LEMMA AnswerShape ==
  ASSUME NEW w \in Worker, NEW candidates \in Answers(w)
  PROVE  \E N \in Nat : /\ DOMAIN candidates = 1..N
                        /\ \A i \in 1..N : /\ candidates[i] \in Candidate
                                           /\ \E s \in shown[w] : s.message = candidates[i].source
<1>1. CASE kind[w] = "course"
  <2> DEFINE C == {c \in Candidate : \E s \in shown[w] : s.message = c.source}
  <2>1. PICK N \in 0..MaxCandidates : candidates \in [1..N -> C]
    BY <1>1 DEF Answers, BoundedSeq, SeqOf
  <2> QED
    BY <2>1, PolicyAssumption
<1>2. CASE kind[w] # "course"
  <2>1. candidates = <<>>
    BY <1>2 DEF Answers
  <2> QED
    BY <2>1
<1> QED
  BY <1>1, <1>2

(* save_summary_batch: the messages the candidates cite are the rows the   *)
(* worker read, of its own group, and the same transaction claims them.    *)
CitesOwnRow(w, c) ==
  /\ c \in Candidate
  /\ RowOf(c.source) \in ClaimedRows \cup IdsOf(shown[w])
  /\ messages[RowOf(c.source)].message = c.source
  /\ GroupOf[c.source] = Current(w)

LEMMA SaveCites ==
  ASSUME Types, ClaimInv, NoteInv, NEW w \in Worker, Save(w)
  PROVE  /\ Current(w) \in Group
         /\ Claimed(ProcOf[w], shown[w])
         /\ ClaimedRows \cup IdsOf(shown[w]) \in SUBSET RowIds
         /\ \E N, candidates :
              /\ N \in Nat /\ DOMAIN candidates = 1..N
              /\ \A i \in 1..N : CitesOwnRow(w, candidates[i])
              /\ notifications' = Upserts(notifications, Current(w), candidates)
<1>1. Current(w) \in Group /\ kind[w] \in GroupType /\ shown[w] \in SUBSET Snapshot
  BY CurrentInTodo DEF Save, Types, WorkerTypeOK, ControlInv
<1>2. PICK content \in Content, candidates \in Answers(w) :
        SaveSummaryBatch(Current(w), ProcOf[w], shown[w], kind[w], content, candidates)
  BY DEF Save, Says
<1>3. Claimed(ProcOf[w], shown[w])
  BY <1>1, <1>2, SaveEffect, WorkerAssumption DEF Types
<1>4. ClaimedRows \cup IdsOf(shown[w]) \in SUBSET RowIds
  BY <1>3 DEF Claimed, Unclaimed, IdsOf, ClaimedRows
<1>5. PICK N \in Nat : /\ DOMAIN candidates = 1..N
                       /\ \A i \in 1..N : /\ candidates[i] \in Candidate
                                          /\ \E s \in shown[w] : s.message = candidates[i].source
  BY AnswerShape
<1>6. ASSUME NEW i \in 1..N PROVE CitesOwnRow(w, candidates[i])
  <2>1. PICK s \in shown[w] : s.message = candidates[i].source
    BY <1>5
  <2>2. s.id \in RowIds /\ messages[s.id].message = candidates[i].source
    BY <1>3, <2>1 DEF Claimed, Unclaimed, ClaimInv, ReadInv
  <2>3. RowOf(candidates[i].source) = s.id
    BY <2>2 DEF RowOf, NoteInv
  <2> QED
    BY <1>5, <2>1, <2>2, <2>3 DEF IdsOf, NoteInv, CitesOwnRow
<1>7. notifications' = Upserts(notifications, Current(w), candidates)
  BY <1>2 DEF SaveSummaryBatch, Upserts
<1> QED
  BY <1>1, <1>3, <1>4, <1>5, <1>6, <1>7

LEMMA SaveKeepsNotes ==
  ASSUME Types, ClaimInv, NoteInv, NEW w \in Worker, Save(w)
  PROVE  NoteInv'
<1> DEFINE claimed == ClaimedRows \cup IdsOf(shown[w])
<1>1. Current(w) \in Group /\ Claimed(ProcOf[w], shown[w]) /\ claimed \in SUBSET RowIds
  BY SaveCites
<1>2. PICK N, candidates :
        /\ N \in Nat /\ DOMAIN candidates = 1..N
        /\ \A i \in 1..N : CitesOwnRow(w, candidates[i])
        /\ notifications' = Upserts(notifications, Current(w), candidates)
  BY SaveCites
<1>3. claimed \in SUBSET Nat
  <2>1. RowIds \subseteq Nat
    BY DEF Types, StoreTypeOK
  <2> QED
    BY <1>1, <2>1
<1>4. notifications \in NoteTables(claimed)
  BY DEF NoteInv, NoteTables
<1>5. notifications' \in NoteTables(claimed)
  <2>1. ASSUME NEW rows \in NoteTables(claimed), NEW i \in 1..N
        PROVE  UpsertNotification(rows, Current(w), candidates[i]) \in NoteTables(claimed)
    BY <1>1, <1>2, <1>3, <2>1, UpsertKeepsTables DEF CitesOwnRow
  <2> HIDE DEF claimed
  <2> QED
    BY <1>2, <1>4, <2>1, UpsertsStayIn
<1>6. /\ RowIds' = RowIds
      /\ \A r \in RowIds : messages'[r].message = messages[r].message
      /\ ClaimedRows' = claimed
  <2>1. Len(batches) + 1 # NULL
    BY LenProperties DEF Types, StoreTypeOK, NULL
  <2> QED
    BY <1>1, <2>1 DEF Claimed, ClaimedRows
<1> HIDE DEF claimed
<1>7. (notifications \in NoteTables(ClaimedRows))'
  BY <1>1, <1>5, <1>6 DEF NoteTables
<1>8. \A v \in Worker : shown'[v] = {} \/ (shown'[v] = shown[v] /\ todo'[v] = todo[v])
  BY DEF Save, Types, WorkerTypeOK
<1>9. \A v \in Worker : todo'[v] = todo[v] => Current(v)' = Current(v)
  BY DEF Current
<1> QED
  BY <1>6, <1>7, <1>8, <1>9 DEF NoteInv

LEMMA NoteStep == Types /\ ClaimInv /\ NoteInv /\ [Next]_vars => NoteInv'
<1> SUFFICES ASSUME Types, ClaimInv, NoteInv, [Next]_vars PROVE NoteInv'
  OBVIOUS
<1>1. ASSUME NEW w \in Worker, Request(w) \/ Enter(w) \/ GetGroup(w) \/ NotDue(w) PROVE NoteInv'
  <2>1. /\ UNCHANGED <<messages, notifications, shown>>
        /\ \A v \in Worker : shown[v] = {} \/ todo'[v] = todo[v]
    BY <1>1 DEF Request, Enter, GetGroup, NotDue, storeVars, Types, WorkerTypeOK, ControlInv
  <2> QED
    BY <2>1, NotesQuiet
<1>2. ASSUME NEW w \in Worker, Finish(w) \/ Abort(w) PROVE NoteInv'
  <2>1. Leave(w)
    BY <1>2 DEF Finish, Abort
  <2>2. /\ UNCHANGED <<messages, notifications>>
        /\ \A v \in Worker : shown'[v] = {} \/ (shown'[v] = shown[v] /\ todo'[v] = todo[v])
    BY <2>1 DEF Leave, storeVars, Types, WorkerTypeOK
  <2> QED
    BY <2>2, NotesQuiet
<1>3. ASSUME NEW p \in Proc, Crash(p) PROVE NoteInv'
  <2>1. /\ UNCHANGED <<messages, notifications>>
        /\ \A v \in Worker : shown'[v] = {} \/ (shown'[v] = shown[v] /\ todo'[v] = todo[v])
    BY <1>3 DEF Crash, Forget, storeVars
  <2> QED
    BY <2>1, NotesQuiet
<1>4. CASE \/ \E g \in Group : Activity(g)
           \/ \E typeOf \in Subscriptions : Subscribe(typeOf)
           \/ \E listed \in Catalogues : SyncGroups(listed)
           \/ UNCHANGED vars
  <2>1. UNCHANGED <<messages, notifications, shown, todo>>
    BY <1>4 DEF Activity, Subscribe, SyncGroups, RecordGroupActivity,
                ReplaceGroupSubscriptions, SyncAvailableGroups, vars, storeVars, workerVars
  <2> QED
    BY <2>1, NotesQuiet
<1>5. CASE \E m \in Message : Ingest(m)
  BY <1>5, InsertKeepsNotes DEF Ingest
<1>6. CASE \E before \in Cutoffs : Cleanup(before)
  BY <1>6, CleanupKeepsNotes DEF Cleanup
<1> QED
  BY <1>1, <1>2, <1>3, <1>4, <1>5, <1>6, DueKeepsNotes, SaveKeepsNotes
     DEF Next, WorkerStep, Environment

LEMMA NotesHold == Spec => [](Types /\ NoteInv)
<1>1. Init => Types /\ ClaimInv /\ NoteInv
  BY TypesInit, ClaimInit, NoteInit
<1>2. Types /\ ClaimInv /\ NoteInv /\ [Next]_vars => (Types /\ ClaimInv /\ NoteInv)'
  BY TypesStep, ClaimStep, NoteStep
<1> QED
  BY <1>1, <1>2, PTL DEF Spec

(* Every table and every local of a worker keeps its type, the entries of  *)
(* table notifications included.                                           *)
THEOREM SummarizerTypeCorrect == Spec => []TypeOK
<1>1. Types /\ NoteInv => TypeOK
  BY NoteInvImplies DEF TypeOK, Types
<1> QED
  BY <1>1, NotesHold, PTL

(* A dedup key has one entry, over all groups and batches, and the message *)
(* an entry cites, while it is stored, is of its group and in a summary    *)
(* (_upsert_notification_in_transaction, the fold of save_summary_batch,   *)
(* ON DELETE SET NULL).                                                    *)
THEOREM NotificationsUnique == Spec => []OneNotificationPerKey
<1>1. NoteInv => OneNotificationPerKey
  BY NoteInvImplies
<1> QED
  BY <1>1, NotesHold, PTL

-----------------------------------------------------------------------------
(* How the entries of a table may differ from those of an earlier one. *)
Grown(notes, old) ==
  \A n \in DOMAIN old : n \in DOMAIN notes /\ Extends(notes[n], old[n])

LEMMA ExtendsItself == \A note : Extends(note, note)
BY DEF Extends

LEMMA MergedExtends ==
  ASSUME NEW old \in NotificationRow, NEW note \in NotificationRow, Extends(note, old),
         NEW c \in Candidate
  PROVE  Extends(Merged(note, c), old)
<1>1. /\ Merged(note, c).key = note.key /\ Merged(note, c).source = note.source
      /\ Merged(note, c).group = note.group
  BY MergedRow
<1>2. /\ Merged(note, c).first_seen = note.first_seen
      /\ Merged(note, c).sources = note.sources \cup {c.source}
      /\ Merged(note, c).update = IF c.update = NONE THEN note.update ELSE c.update
      /\ Merged(note, c).status = IF IsNewUpdate(note, c.update) THEN "pending" ELSE note.status
      /\ Merged(note, c).delivery = IF IsNewUpdate(note, c.update) THEN NULL ELSE note.delivery
  BY DEF Merged, NotificationRow
<1>3. Merged(note, c).update # old.update =>
        \/ Merged(note, c).update = EMPTY
        \/ /\ Merged(note, c).update \in Text
           /\ Merged(note, c).status = "pending" /\ Merged(note, c).delivery = NULL
  <2>1. CASE IsNewUpdate(note, c.update)
    <3>1. c.update \in Text /\ c.update # NONE
      BY <2>1 DEF IsNewUpdate, Candidate, Update
    <3> QED
      BY <1>2, <2>1, <3>1
  <2>2. CASE ~IsNewUpdate(note, c.update) /\ c.update = EMPTY
    BY <1>2, <2>2 DEF EMPTY, NONE
  <2>3. CASE ~IsNewUpdate(note, c.update) /\ c.update # EMPTY
    <3>1. Merged(note, c).update = note.update
      BY <1>2, <2>3 DEF IsNewUpdate
    <3> QED
      BY <1>2, <2>3, <3>1 DEF Extends
  <2> QED
    BY <2>1, <2>2, <2>3
<1> QED
  BY <1>1, <1>2, <1>3 DEF Extends

LEMMA UpsertGrows ==
  ASSUME NEW old \in Seq(NotificationRow), NEW notes \in Seq(NotificationRow),
         Grown(notes, old), NEW g, NEW c \in Candidate
  PROVE  Grown(UpsertNotification(notes, g, c), old)
<1> DEFINE same == SameKey(notes, g, c.key)
           n == CHOOSE n \in same : \A k \in same : notes[n].first_seen <= notes[k].first_seen
           row == [group |-> g, source |-> RowOf(c.source), sources |-> {c.source},
                   first_seen |-> SentAt[c.source], key |-> c.key,
                   update |-> c.update, status |-> "pending", delivery |-> NULL]
<1>1. /\ Len(notes) \in Nat /\ DOMAIN notes = 1..Len(notes)
      /\ \A i \in DOMAIN notes : notes[i] \in NotificationRow
      /\ \A i \in DOMAIN old : old[i] \in NotificationRow
  BY ElementOfSeq, LenProperties
<1>2. CASE same = {}
  <2>1. UpsertNotification(notes, g, c) = Append(notes, row)
    BY <1>2 DEF UpsertNotification
  <2> HIDE DEF row
  <2>2. \A i \in DOMAIN notes : i \in DOMAIN Append(notes, row) /\ Append(notes, row)[i] = notes[i]
    BY <1>1, AppendProperties
  <2> QED
    BY <2>1, <2>2 DEF Grown
<1>3. CASE same # {}
  <2>1. UpsertNotification(notes, g, c) = [notes EXCEPT ![n] = Merged(notes[n], c)]
    BY <1>3 DEF UpsertNotification
  <2> HIDE DEF n, same
  <2>2. ASSUME NEW i \in DOMAIN old
        PROVE  Extends([notes EXCEPT ![n] = Merged(notes[n], c)][i], old[i])
    <3>1. i \in DOMAIN notes /\ Extends(notes[i], old[i])
      BY DEF Grown
    <3>2. Extends(Merged(notes[i], c), old[i])
      BY <1>1, <3>1, MergedExtends
    <3> QED
      BY <3>1, <3>2
  <2>3. DOMAIN [notes EXCEPT ![n] = Merged(notes[n], c)] = DOMAIN notes
    OBVIOUS
  <2> QED
    BY <2>1, <2>2, <2>3 DEF Grown
<1> QED
  BY <1>2, <1>3

LEMMA SaveGrows ==
  ASSUME Types, ClaimInv, NoteInv, NEW w \in Worker, Save(w)
  PROVE  Grown(notifications', notifications)
<1> DEFINE claimed == ClaimedRows \cup IdsOf(shown[w])
           Tables == {notes \in NoteTables(claimed) : Grown(notes, notifications)}
<1>1. Current(w) \in Group /\ claimed \in SUBSET Nat
  <2>1. claimed \in SUBSET RowIds /\ RowIds \subseteq Nat
    BY SaveCites DEF Types, StoreTypeOK
  <2> HIDE DEF claimed
  <2> QED
    BY <2>1, SaveCites
<1>2. PICK N, candidates :
        /\ N \in Nat /\ DOMAIN candidates = 1..N
        /\ \A i \in 1..N : CitesOwnRow(w, candidates[i])
        /\ notifications' = Upserts(notifications, Current(w), candidates)
  BY SaveCites
<1>3. notifications \in Tables
  BY ExtendsItself DEF NoteInv, NoteTables, Grown
<1>4. ASSUME NEW rows \in Tables, NEW i \in 1..N
      PROVE  UpsertNotification(rows, Current(w), candidates[i]) \in Tables
  <2>1. UpsertNotification(rows, Current(w), candidates[i]) \in NoteTables(claimed)
    BY <1>1, <1>2, <1>4, UpsertKeepsTables DEF CitesOwnRow
  <2>2. rows \in Seq(NotificationRow) /\ Grown(rows, notifications) /\ candidates[i] \in Candidate
    BY <1>2 DEF NoteTables, CitesOwnRow
  <2> QED
    BY <2>1, <2>2, NoteInvImplies, UpsertGrows
<1> HIDE DEF Tables
<1>5. notifications' \in Tables
  BY <1>2, <1>3, <1>4, UpsertsStayIn
<1> QED
  BY <1>5 DEF Tables

LEMMA CleanupGrows ==
  ASSUME NoteInv, NEW kept
  PROVE  Grown(ForgetSources(notifications, kept), notifications)
<1>1. \A n \in DOMAIN notifications : notifications[n] \in NotificationRow
  BY NoteInvImplies, ElementOfSeq, LenProperties
<1>2. ASSUME NEW n \in DOMAIN notifications
      PROVE  Extends(ForgetSources(notifications, kept)[n], notifications[n])
  <2>1. CASE notifications[n].source \in kept
    BY <2>1, ExtendsItself DEF ForgetSources
  <2>2. CASE notifications[n].source \notin kept
    <3>1. ForgetSources(notifications, kept)[n] = [notifications[n] EXCEPT !.source = NULL]
      BY <2>2 DEF ForgetSources
    <3> QED
      BY <1>1, <3>1 DEF Extends, NotificationRow
  <2> QED
    BY <2>1, <2>2
<1> QED
  BY <1>2 DEF Grown, ForgetSources

(* Only a summary and the cleanup touch the table (or end a worker). *)
LEMMA NotesTouched ==
  ASSUME [Next]_vars \/ \E p \in Proc : Forget(p)
  PROVE  \/ UNCHANGED notifications
         \/ \E w \in Worker : Save(w)
         \/ \E before \in Cutoffs : Cleanup(before)
<1>1. ASSUME NEW w \in Worker, WorkerStep(w), ~Save(w) PROVE UNCHANGED notifications
  BY <1>1 DEF WorkerStep, Request, Enter, GetGroup, NotDue, Due, Finish, Abort, Leave, storeVars
<1>2. ASSUME \/ \E m \in Message : Ingest(m)
             \/ \E g \in Group : Activity(g)
             \/ \E typeOf \in Subscriptions : Subscribe(typeOf)
             \/ \E listed \in Catalogues : SyncGroups(listed)
             \/ UNCHANGED vars
             \/ \E p \in Proc : Crash(p) \/ Forget(p)
      PROVE  UNCHANGED notifications
  BY <1>2 DEF Ingest, Activity, Subscribe, SyncGroups, InsertMessage, RecordGroupActivity,
              ReplaceGroupSubscriptions, SyncAvailableGroups, Crash, Forget, vars, storeVars
<1> QED
  BY <1>1, <1>2 DEF Next, Environment

LEMMA NotesGrowStep ==
  ASSUME Types, ClaimInv, NoteInv, [Next]_vars \/ \E p \in Proc : Forget(p)
  PROVE  Grown(notifications', notifications)
<1>1. CASE UNCHANGED notifications
  BY <1>1, ExtendsItself DEF Grown
<1>2. CASE \E before \in Cutoffs : Cleanup(before)
  BY <1>2, CleanupGrows DEF Cleanup, CleanupSummarizedMessages
<1> QED
  BY <1>1, <1>2, NotesTouched, SaveGrows

(* However often and in whichever group a notification is found again, it  *)
(* keeps its entry and group and all its sources, and its update changes   *)
(* only to a text that is pending from then on, or to the empty text (the  *)
(* merge, is_new_update and the COALESCE of                                *)
(* _upsert_notification_in_transaction, for candidates of one answer as    *)
(* well as of many).                                                       *)
THEOREM NewTextIsPending == Spec => UpdatesAreAnnounced
<1>1. Init => Types /\ ClaimInv /\ NoteInv
  BY TypesInit, ClaimInit, NoteInit
<1>2. Types /\ ClaimInv /\ NoteInv /\ [Next]_vars => (Types /\ ClaimInv /\ NoteInv)'
  BY TypesStep, ClaimStep, NoteStep
<1>3. Types /\ ClaimInv /\ NoteInv /\ [Next]_vars =>
        [\A n \in DOMAIN notifications : /\ n \in DOMAIN notifications'
                                         /\ Extends(notifications'[n], notifications[n])]_vars
  BY NotesGrowStep DEF Grown
<1> QED
  BY <1>1, <1>2, <1>3, PTL DEF Spec, UpdatesAreAnnounced
=============================================================================
