----------------------------- MODULE DigestProofs -----------------------------
(***************************************************************************)
(* Theorems about Digest, for every set of groups, messages, processes and *)
(* workers and for every set of deliver calls, so for calls that overlap   *)
(* in one process or in two as well.                                       *)
(***************************************************************************)
EXTENDS Digest, SummarizerProofs, OrderLemmas

(* All that Append needs to know of a sequence. *)
IsSequence(s) == \E S : s \in Seq(S)

Status  == {"preparing", "sent", "failed"}
Sending == {"send", "accepted", "failed"}

DeliveryRecord == [start : Nat, end : Nat, status : Status]

(* The locals of a call that has read notifications of the set N. *)
CallShape(N) == [now : Nat, batches : SUBSET Nat, rendered : SUBSET Nat,
                 notes : SUBSET N, start : Nat, delivery : Nat]
CallTyped == \E N : call \in [Deliverer -> CallShape(N)]

DeliveryInv ==
  /\ stage \in [Deliverer -> Stage]
  /\ CallTyped
  /\ deliveries \in Seq(DeliveryRecord)
  /\ cursor \in Nat
  /\ IsSequence(mailbox)

(* An open delivery is that of one call, and nobody has recorded how it    *)
(* ended; the mail of an accepted call was made from what it read.         *)
OpenInv ==
  /\ \A d \in Deliverer : stage[d] \in Sending =>
       /\ call[d].delivery \in DOMAIN deliveries
       /\ deliveries[call[d].delivery].status = "preparing"
       /\ deliveries[call[d].delivery].end = call[d].now
       /\ \A e \in Deliverer \ {d} : stage[e] \in Sending => call[e].delivery # call[d].delivery
  /\ \A d \in Deliverer : stage[d] = "accepted" =>
       \E i \in MailsOf(call[d].delivery) : mailbox[i].batches = call[d].batches

(* Only stored summaries are read and mailed. *)
KnownBatches ==
  /\ \A d \in Deliverer : call[d].batches \subseteq DOMAIN batches
  /\ \A i \in DOMAIN mailbox : mailbox[i].batches \subseteq DOMAIN batches

DInv == Types /\ ClaimInv /\ DeliveryInv /\ OpenInv /\ KnownBatches /\ SentWasMailed

-----------------------------------------------------------------------------
LEMMA AppendToSeq ==
  ASSUME NEW s, NEW e, IsSequence(s)
  PROVE  /\ IsSequence(Append(s, e))
         /\ Len(s) \in Nat /\ DOMAIN s = 1..Len(s)
         /\ DOMAIN Append(s, e) = 1..(Len(s) + 1)
         /\ \A i \in 1..Len(s) : Append(s, e)[i] = s[i]
         /\ Append(s, e)[Len(s) + 1] = e
<1>1. PICK S : s \in Seq(S)
  BY DEF IsSequence
<1>2. s \in Seq(S \cup {e})
  BY <1>1, SeqMonotonic
<1> HIDE DEF IsSequence
<1>3. Append(s, e) \in Seq(S \cup {e}) /\ Len(Append(s, e)) = Len(s) + 1
  BY <1>2, AppendProperties
<1>4. IsSequence(Append(s, e))
  BY <1>3 DEF IsSequence
<1> QED
  BY <1>2, <1>3, <1>4, AppendProperties, LenProperties

(* Taking the time: a call's now is later than every stored time and than  *)
(* the times of the calls under way.                                       *)
LEMMA NowIsLater ==
  ASSUME DeliveryInv
  PROVE  Now \in Nat /\ \A u \in Times : u < Now
<1> DEFINE Ends == {deliveries[i].end : i \in DOMAIN deliveries}
           Nows == {call[d].now : d \in Deliverer}
<1>1. /\ Len(deliveries) \in Nat /\ DOMAIN deliveries = 1..Len(deliveries)
      /\ \A i \in DOMAIN deliveries : deliveries[i] \in DeliveryRecord
  BY LenProperties, ElementOfSeq DEF DeliveryInv
<1>2. PICK N : call \in [Deliverer -> CallShape(N)]
  BY DEF DeliveryInv, CallTyped
<1>3. Times \subseteq Nat /\ Times # {}
  BY <1>1, <1>2 DEF Times, DeliveryInv, DeliveryRecord, CallShape
<1>4. IsFiniteSet(Ends)
  <2> DEFINE f == [i \in DOMAIN deliveries |-> deliveries[i].end]
  <2>1. IsFiniteSet(DOMAIN deliveries)
    BY <1>1, FS_Interval
  <2>2. f \in Surjection(DOMAIN deliveries, Ends)
    BY DEF Surjection
  <2> QED
    BY <2>1, <2>2, FS_Surjection
<1>5. IsFiniteSet(Nows)
  <2> DEFINE f == [d \in Deliverer |-> call[d].now]
  <2>1. f \in Surjection(Deliverer, Nows)
    BY DEF Surjection
  <2> QED
    BY <2>1, DelivererAssumption, FS_Surjection
<1>6. IsFiniteSet(Times)
  <2>1. IsFiniteSet({cursor})
    BY FS_Singleton
  <2>2. IsFiniteSet({cursor} \cup Ends)
    BY <1>4, <2>1, FS_Union
  <2>3. Times = ({cursor} \cup Ends) \cup Nows
    BY DEF Times
  <2> HIDE DEF Ends, Nows
  <2> QED
    BY <1>5, <2>2, <2>3, FS_Union
<1>7. \E t \in Times : \A u \in Times : u <= t
  <2>1. Times \subseteq Int
    BY <1>3
  <2> QED
    BY <1>3, <1>6, <2>1, FiniteMax
<1> DEFINE latest == CHOOSE t \in Times : \A u \in Times : u <= t
<1>8. latest \in Times /\ \A u \in Times : u <= latest
  BY <1>7
<1>9. Now = 1 + latest
  BY DEF Now
<1> HIDE DEF latest
<1> QED
  BY <1>3, <1>8, <1>9

(* Every step is one of Summarizer but two: the end of a process, which is *)
(* Crash unless all its workers are idle, and complete_delivery.           *)
LEMMA DigestSteps ==
  ASSUME [DNext]_allVars
  PROVE  \/ [Next]_vars
         \/ \E p \in Proc : Forget(p)
         \/ \E d \in Deliverer : CompleteDelivery(d)
<1>1. ASSUME NEW d \in Deliverer, DeliverStep(d), ~CompleteDelivery(d) PROVE [Next]_vars
  <2>1. d \in Worker
    BY DelivererAssumption
  <2>2. Request(d) \/ Finish(d) \/ Abort(d) \/ UNCHANGED vars
    BY <1>1 DEF DeliverStep, Start, Summarized, PassFailed, ReadBatches, ReadNotifications,
                ReadCursor, CreateDelivery, SendAccepted, SendRaises, FailDelivery, StoreRaises
  <2> QED
    BY <2>1, <2>2 DEF Next, WorkerStep
<1>2. ASSUME NEW w \in Worker, PassStep(w) PROVE [Next]_vars
  BY <1>2 DEF PassStep, Next, WorkerStep
<1>3. ASSUME NEW p \in Proc, CrashAll(p) PROVE Forget(p)
  BY <1>3 DEF CrashAll
<1> QED
  BY <1>1, <1>2, <1>3 DEF DNext, allVars, Next

LEMMA ForgetKeeps ==
  ASSUME Types, ClaimInv, NEW p \in Proc, Forget(p)
  PROVE  Types' /\ ClaimInv'
<1>1. StoreTypeOK'
  BY StoreStepTypes DEF Types, Forget
<1>2. Types'
  BY <1>1, ForgetTypes DEF Types
<1>3. /\ UNCHANGED <<messages, lastMessageId, batches>>
      /\ \A v \in Worker : /\ shown'[v] = shown[v] \/ shown'[v] = {}
                           /\ pc'[v] = "llm" => pc[v] = "llm"
  BY DEF Forget, storeVars, Types, WorkerTypeOK
<1> QED
  BY <1>2, <1>3, QuietStep

-----------------------------------------------------------------------------
(* complete_delivery and the claims. *)

LEMMA MarkedBatches ==
  ASSUME StoreTypeOK, NEW ids, NEW delivery \in Nat, batches' = MarkSent(batches, ids, delivery)
  PROVE  /\ batches' \in Seq(BatchRow(Proc))
         /\ DOMAIN batches' = DOMAIN batches
         /\ \A b \in DOMAIN batches :
              /\ batches'[b].shown = batches[b].shown
              /\ batches'[b].by = batches[b].by
              /\ b \in ids /\ batches[b].status = "pending" =>
                   batches'[b].status = "sent" /\ batches'[b].delivery = delivery
              /\ b \notin ids \/ batches[b].status # "pending" => batches'[b] = batches[b]
<1>1. /\ batches \in Seq(BatchRow(Proc)) /\ Len(batches) \in Nat
      /\ DOMAIN batches = 1..Len(batches)
      /\ \A b \in DOMAIN batches : batches[b] \in BatchRow(Proc)
  BY LenProperties, ElementOfSeq DEF StoreTypeOK
<1> DEFINE marked(row) == [row EXCEPT !.status = "sent", !.delivery = delivery]
<1>2. \A row \in BatchRow(Proc) :
        /\ marked(row) \in BatchRow(Proc)
        /\ marked(row).shown = row.shown /\ marked(row).by = row.by
        /\ marked(row).status = "sent" /\ marked(row).delivery = delivery
  BY DEF BatchRow
<1>3. /\ DOMAIN batches' = DOMAIN batches
      /\ \A b \in DOMAIN batches : batches'[b] =
           IF b \in ids /\ batches[b].status = "pending"
           THEN marked(batches[b]) ELSE batches[b]
      /\ batches' = [b \in DOMAIN batches |-> batches'[b]]
  BY DEF MarkSent
<1> HIDE DEF marked
<1>4. \A b \in DOMAIN batches :
        /\ batches'[b] \in BatchRow(Proc)
        /\ batches'[b].shown = batches[b].shown
        /\ batches'[b].by = batches[b].by
        /\ b \in ids /\ batches[b].status = "pending" =>
             batches'[b].status = "sent" /\ batches'[b].delivery = delivery
        /\ b \notin ids \/ batches[b].status # "pending" => batches'[b] = batches[b]
  <2> SUFFICES ASSUME NEW b \in DOMAIN batches
               PROVE  /\ batches'[b] \in BatchRow(Proc)
                      /\ batches'[b].shown = batches[b].shown
                      /\ batches'[b].by = batches[b].by
                      /\ b \in ids /\ batches[b].status = "pending" =>
                           batches'[b].status = "sent" /\ batches'[b].delivery = delivery
                      /\ b \notin ids \/ batches[b].status # "pending" => batches'[b] = batches[b]
    OBVIOUS
  <2>1. CASE b \in ids /\ batches[b].status = "pending"
    BY <1>1, <1>2, <1>3, <2>1
  <2>2. CASE ~(b \in ids /\ batches[b].status = "pending")
    BY <1>1, <1>3, <2>2
  <2> QED
    BY <2>1, <2>2
<1>5. batches' \in [1..Len(batches) -> BatchRow(Proc)]
  BY <1>1, <1>3, <1>4
<1>6. batches' \in Seq(BatchRow(Proc))
  BY <1>1, <1>5, SeqDef
<1> QED
  BY <1>3, <1>4, <1>6

LEMMA CompleteKeepsClaims ==
  ASSUME Types, ClaimInv, NEW d \in Deliverer, CompleteDelivery(d), call[d].delivery \in Nat
  PROVE  Types' /\ ClaimInv'
<1>1. /\ batches' = MarkSent(batches, call[d].batches, call[d].delivery)
      /\ UNCHANGED <<groups, messages, lastMessageId, workerVars>>
  BY DEF CompleteDelivery
<1>2. /\ batches' \in Seq(BatchRow(Proc))
      /\ DOMAIN batches' = DOMAIN batches
      /\ \A b \in DOMAIN batches : batches'[b].shown = batches[b].shown
                                 /\ batches'[b].by = batches[b].by
  BY <1>1, MarkedBatches DEF Types
<1>3. Types'
  BY <1>1, <1>2 DEF Types, StoreTypeOK, WorkerTypeOK, ControlInv, Holds, RowIds, workerVars
<1>4. RowIds' = RowIds /\ ReadInv'
  BY <1>1 DEF RowIds, ClaimInv, ReadInv, workerVars
<1>5. ClaimedIdsDrawn' /\ RowsSummarisedOnce'
  <2>1. ClaimedIdsDrawn'
    BY <1>1, <1>2 DEF ClaimInv, ClaimedIdsDrawn
  <2>2. ASSUME NEW b \in DOMAIN batches', NEW c \in DOMAIN batches', b # c
        PROVE  IdsOf(batches'[b].shown) \cap IdsOf(batches'[c].shown) = {}
    <3>1. IdsOf(batches[b].shown) \cap IdsOf(batches[c].shown) = {}
      BY <1>2, <2>2 DEF ClaimInv, RowsSummarisedOnce
    <3> QED
      BY <1>2, <2>2, <3>1
  <2>3. RowsSummarisedOnce'
    BY <2>2 DEF RowsSummarisedOnce, IdsOf
  <2> QED
    BY <2>1, <2>3
<1>6. ClaimsMatchSummaries'
  BY <1>1, <1>2, <1>4 DEF ClaimInv, ClaimsMatchSummaries
<1>7. StaleOnlyAcrossProcesses'
  BY <1>1, <1>2, <1>4 DEF ClaimInv, StaleOnlyAcrossProcesses, workerVars
<1>8. LatestRow'
  BY <1>1, <1>2, <1>4 DEF ClaimInv, LatestRow, workerVars
<1> QED
  BY <1>3, <1>4, <1>5, <1>6, <1>7, <1>8 DEF ClaimInv
-----------------------------------------------------------------------------
(* What Summarizer does to the summaries: it only adds pending ones. *)
BatchesGrow ==
  /\ DOMAIN batches \subseteq DOMAIN batches'
  /\ \A b \in DOMAIN batches : batches'[b] = batches[b]
  /\ \A b \in DOMAIN batches' \ DOMAIN batches :
       batches'[b].status = "pending" /\ batches'[b].delivery = NULL

LEMMA GrowStep ==
  ASSUME Types, [Next]_vars \/ \E p \in Proc : Forget(p)
  PROVE  BatchesGrow
<1>1. ASSUME NEW w \in Worker, Save(w) PROVE BatchesGrow
  <2> DEFINE row(content) == [group |-> Current(w), by |-> ProcOf[w], shown |-> shown[w],
                              kind |-> kind[w], content |-> content,
                              status |-> "pending", delivery |-> NULL]
  <2>1. PICK content \in Content : batches' = Append(batches, row(content))
    BY <1>1 DEF Save, Says, SaveSummaryBatch
  <2>2. IsSequence(batches)
    BY DEF IsSequence, Types, StoreTypeOK
  <2>3. /\ DOMAIN batches = 1..Len(batches) /\ DOMAIN batches' = 1..(Len(batches) + 1)
        /\ Len(batches) \in Nat
        /\ \A i \in 1..Len(batches) : batches'[i] = batches[i]
        /\ batches'[Len(batches) + 1] = row(content)
    <3> HIDE DEF row
    <3> QED
      BY <2>1, <2>2, AppendToSeq
  <2> QED
    BY <2>3 DEF BatchesGrow
<1>2. ASSUME UNCHANGED batches PROVE BatchesGrow
  BY <1>2 DEF BatchesGrow
<1>3. ASSUME NEW w \in Worker, WorkerStep(w), ~Save(w) PROVE UNCHANGED batches
  BY <1>3 DEF WorkerStep, Request, Enter, GetGroup, NotDue, Due, Finish, Abort, Leave, storeVars
<1>4. ASSUME \/ Environment \/ UNCHANGED vars
             \/ \E p \in Proc : Crash(p) \/ Forget(p) PROVE UNCHANGED batches
  BY <1>4 DEF Environment, Ingest, Activity, Subscribe, SyncGroups, Cleanup, InsertMessage,
              RecordGroupActivity, ReplaceGroupSubscriptions, SyncAvailableGroups,
              CleanupSummarizedMessages, Crash, Forget, vars, storeVars
<1> QED
  BY <1>1, <1>2, <1>3, <1>4 DEF Next

Rest == DeliveryInv /\ OpenInv /\ KnownBatches /\ SentWasMailed

(* A step after which no call is sending that was not before. *)
LEMMA NotSending ==
  ASSUME Rest, BatchesGrow, UNCHANGED <<deliveries, mailbox>>,
         stage' \in [Deliverer -> Stage], CallTyped', cursor' \in Nat,
         \A d \in Deliverer :
           /\ stage'[d] \in Sending => stage'[d] = stage[d] /\ call'[d] = call[d]
           /\ call'[d] = call[d] \/ call'[d].batches \subseteq DOMAIN batches
  PROVE  Rest'
<1>1. DeliveryInv'
  BY DEF Rest, DeliveryInv, IsSequence
<1>2. \A k : MailsOf(k)' = MailsOf(k)
  BY DEF MailsOf
<1>3. OpenInv'
  BY <1>2 DEF Rest, OpenInv, Sending
<1>4. KnownBatches'
  BY DEF Rest, KnownBatches, BatchesGrow
<1>5. SentWasMailed'
  BY <1>2 DEF Rest, SentWasMailed, BatchesGrow, NULL
<1> QED
  BY <1>1, <1>3, <1>4, <1>5 DEF Rest

(* create_delivery opens a delivery with the window the call has read. *)
LEMMA CreateEffect ==
  ASSUME DeliveryInv, NEW d \in Deliverer, CreateDelivery(d)
  PROVE  /\ stage[d] = "create" /\ stage' = [stage EXCEPT ![d] = "send"]
         /\ UNCHANGED <<batches, mailbox, cursor>>
         /\ deliveries' \in Seq(DeliveryRecord)
         /\ Len(deliveries) \in Nat /\ Len(deliveries') = Len(deliveries) + 1
         /\ DOMAIN deliveries = 1..Len(deliveries) /\ DOMAIN deliveries' = 1..(Len(deliveries) + 1)
         /\ \A i \in DOMAIN deliveries : deliveries'[i] = deliveries[i]
         /\ deliveries'[Len(deliveries) + 1].start = call[d].start
         /\ deliveries'[Len(deliveries) + 1].end = call[d].now
         /\ deliveries'[Len(deliveries) + 1].status = "preparing"
         /\ CallTyped'
         /\ call'[d].delivery = Len(deliveries) + 1 /\ call'[d].batches = call[d].batches
         /\ call'[d].now = call[d].now
         /\ \A e \in Deliverer \ {d} : call'[e] = call[e]
<1> DEFINE new == Len(deliveries) + 1
           row == [start |-> call[d].start, end |-> call[d].now, status |-> "preparing"]
<1>1. deliveries' = Append(deliveries, row)
  BY DEF CreateDelivery
<1>2. PICK N : call \in [Deliverer -> CallShape(N)]
  BY DEF DeliveryInv, CallTyped
<1>3. row \in DeliveryRecord
  BY <1>2 DEF DeliveryRecord, CallShape, Status
<1>4. /\ deliveries' \in Seq(DeliveryRecord)
      /\ Len(deliveries) \in Nat /\ Len(deliveries') = new
      /\ DOMAIN deliveries = 1..Len(deliveries) /\ DOMAIN deliveries' = 1..new
      /\ \A i \in DOMAIN deliveries : deliveries'[i] = deliveries[i]
      /\ deliveries'[new] = row
  <2> HIDE DEF row
  <2> QED
    BY <1>1, <1>3, AppendProperties, LenProperties DEF DeliveryInv
<1>5. /\ stage[d] = "create" /\ stage' = [stage EXCEPT ![d] = "send"]
      /\ call' = [call EXCEPT ![d].delivery = new]
      /\ UNCHANGED <<batches, mailbox, cursor>>
  BY DEF CreateDelivery, vars, storeVars
<1>6. /\ call' \in [Deliverer -> CallShape(N)]
      /\ call'[d].delivery = new /\ call'[d].batches = call[d].batches
      /\ call'[d].now = call[d].now
      /\ \A e \in Deliverer \ {d} : call'[e] = call[e]
  <2> DEFINE mine == [call[d] EXCEPT !.delivery = new]
  <2>1. call[d] \in CallShape(N)
    BY <1>2
  <2>2. /\ mine \in CallShape(N)
        /\ mine.delivery = new /\ mine.batches = call[d].batches /\ mine.now = call[d].now
    BY <1>4, <2>1, SMTT(30) DEF CallShape
  <2>3. call' = [call EXCEPT ![d] = mine]
    BY <1>5
  <2> HIDE DEF mine
  <2> QED
    BY <1>2, <2>2, <2>3
<1> QED
  BY <1>4, <1>5, <1>6 DEF CallTyped

LEMMA CreateKeeps ==
  ASSUME Rest, NEW d \in Deliverer, CreateDelivery(d)
  PROVE  Rest'
<1> DEFINE new == Len(deliveries) + 1
<1> USE DEF Rest
<1>1. /\ stage' = [stage EXCEPT ![d] = "send"]
      /\ UNCHANGED <<batches, mailbox, cursor>>
      /\ deliveries' \in Seq(DeliveryRecord)
      /\ Len(deliveries) \in Nat
      /\ DOMAIN deliveries = 1..Len(deliveries) /\ DOMAIN deliveries' = 1..new
      /\ \A i \in DOMAIN deliveries : deliveries'[i] = deliveries[i]
      /\ deliveries'[new].end = call[d].now /\ deliveries'[new].status = "preparing"
      /\ CallTyped'
      /\ call'[d].delivery = new /\ call'[d].batches = call[d].batches
      /\ call'[d].now = call[d].now
      /\ \A e \in Deliverer \ {d} : call'[e] = call[e]
  BY CreateEffect
<1>2. DeliveryInv'
  BY <1>1 DEF Rest, DeliveryInv, Stage
<1>3. \A k : MailsOf(k)' = MailsOf(k)
  BY <1>1 DEF MailsOf
<1>4. OpenInv'
  <2>1. stage'[d] = "send" /\ \A e \in Deliverer \ {d} : stage'[e] = stage[e]
    BY <1>1 DEF DeliveryInv
  <2>2. \A e \in Deliverer \ {d} : stage[e] \in Sending => call[e].delivery \in 1..Len(deliveries)
    BY <1>1 DEF OpenInv
  <2>3. \A e \in Deliverer \ {d} : stage[e] \in Sending => call[e].delivery # new
    BY <1>1, <2>2
  <2>4. ASSUME NEW e \in Deliverer, stage'[e] \in Sending
        PROVE  /\ call'[e].delivery \in DOMAIN deliveries'
               /\ deliveries'[call'[e].delivery].status = "preparing"
               /\ deliveries'[call'[e].delivery].end = call'[e].now
    <3>1. CASE e = d
      BY <1>1, <3>1
    <3>2. CASE e # d
      BY <1>1, <2>1, <2>2, <2>4, <3>2 DEF OpenInv
    <3> QED
      BY <3>1, <3>2
  <2>5. ASSUME NEW e \in Deliverer, NEW f \in Deliverer \ {e}, stage'[e] \in Sending, stage'[f] \in Sending
        PROVE  call'[f].delivery # call'[e].delivery
    <3>1. CASE e = d \/ f = d
      BY <1>1, <2>1, <2>3, <2>5, <3>1
    <3>2. CASE e # d /\ f # d
      BY <1>1, <2>1, <2>5, <3>2 DEF OpenInv
    <3> QED
      BY <3>1, <3>2
  <2>6. ASSUME NEW e \in Deliverer, stage'[e] = "accepted"
        PROVE  \E i \in DOMAIN mailbox' : /\ mailbox'[i].delivery = call'[e].delivery
                                          /\ mailbox'[i].batches = call'[e].batches
    <3>1. e # d /\ stage[e] = "accepted" /\ call'[e] = call[e]
      BY <1>1, <2>1, <2>6
    <3> QED
      BY <1>1, <3>1 DEF OpenInv, MailsOf
  <2> QED
    BY <2>4, <2>5, <2>6 DEF OpenInv, MailsOf
<1>5. KnownBatches'
  BY <1>1 DEF Rest, KnownBatches
<1>6. SentWasMailed'
  BY <1>1, <1>3 DEF Rest, SentWasMailed
<1> QED
  BY <1>2, <1>4, <1>5, <1>6 DEF Rest

(* The provider takes the mail or not, and says so or not. *)
LEMMA SendEffect ==
  ASSUME DeliveryInv, NEW d \in Deliverer, SendAccepted(d) \/ SendRaises(d)
  PROVE  /\ stage[d] = "send"
         /\ \/ stage' = [stage EXCEPT ![d] = "accepted"] /\ Accept(d)
            \/ stage' = [stage EXCEPT ![d] = "failed"]
         /\ UNCHANGED <<call, deliveries, batches, cursor>>
         /\ IsSequence(mailbox') /\ Len(mailbox) \in Nat
         /\ DOMAIN mailbox = 1..Len(mailbox)
         /\ \A i \in DOMAIN mailbox : mailbox'[i] = mailbox[i]
         /\ \/ UNCHANGED mailbox /\ ~Accept(d)
            \/ /\ DOMAIN mailbox' = 1..(Len(mailbox) + 1)
               /\ Len(mailbox') = Len(mailbox) + 1
               /\ mailbox'[Len(mailbox) + 1].delivery = call[d].delivery
               /\ mailbox'[Len(mailbox) + 1].batches = call[d].batches
<1>1. /\ stage[d] = "send"
      /\ \/ stage' = [stage EXCEPT ![d] = "accepted"] /\ Accept(d)
         \/ stage' = [stage EXCEPT ![d] = "failed"] /\ (Accept(d) \/ UNCHANGED mailbox)
      /\ UNCHANGED <<call, deliveries, batches, cursor>>
  BY DEF SendAccepted, SendRaises, vars, storeVars
<1>2. Len(mailbox) \in Nat /\ DOMAIN mailbox = 1..Len(mailbox)
  BY AppendToSeq DEF DeliveryInv
<1>3. CASE Accept(d)
  <2>1. PICK mail : /\ mailbox' = Append(mailbox, mail)
                    /\ mail.delivery = call[d].delivery /\ mail.batches = call[d].batches
    BY <1>3 DEF Accept
  <2>2. /\ IsSequence(mailbox')
        /\ DOMAIN mailbox' = 1..(Len(mailbox) + 1)
        /\ \A i \in 1..Len(mailbox) : mailbox'[i] = mailbox[i]
        /\ mailbox'[Len(mailbox) + 1] = mail
    BY <2>1, AppendToSeq DEF DeliveryInv
  <2>3. Len(mailbox') = Len(mailbox) + 1
    <3>1. Len(mailbox') \in Nat /\ DOMAIN mailbox' = 1..Len(mailbox')
      BY <2>2, AppendToSeq
    <3> QED
      BY <1>2, <2>2, <3>1
  <2> QED
    BY <1>1, <1>2, <2>1, <2>2, <2>3
<1>4. CASE UNCHANGED mailbox /\ ~Accept(d)
  BY <1>1, <1>2, <1>4 DEF DeliveryInv, IsSequence
<1> QED
  BY <1>1, <1>3, <1>4

LEMMA SendKeeps ==
  ASSUME Rest, NEW d \in Deliverer, SendAccepted(d) \/ SendRaises(d)
  PROVE  Rest'
<1>1. /\ stage[d] = "send"
      /\ \/ stage' = [stage EXCEPT ![d] = "accepted"] /\ Accept(d)
         \/ stage' = [stage EXCEPT ![d] = "failed"]
      /\ UNCHANGED <<call, deliveries, batches, cursor>>
  BY SendEffect DEF Rest
<1>2. /\ IsSequence(mailbox')
      /\ DOMAIN mailbox \subseteq DOMAIN mailbox'
      /\ \A i \in DOMAIN mailbox : mailbox'[i] = mailbox[i]
      /\ \A i \in DOMAIN mailbox' \ DOMAIN mailbox : mailbox'[i].batches = call[d].batches
      /\ Accept(d) => \E i \in DOMAIN mailbox' : /\ mailbox'[i].delivery = call[d].delivery
                                                /\ mailbox'[i].batches = call[d].batches
  BY SendEffect DEF Rest
<1>3. DeliveryInv'
  BY <1>1, <1>2 DEF Rest, DeliveryInv, CallTyped, Stage
<1>4. \A k : MailsOf(k) \subseteq MailsOf(k)'
  BY <1>2 DEF MailsOf
<1>5. OpenInv'
  <2>1. \A e \in Deliverer : stage'[e] \in Sending => stage[e] \in Sending
    BY <1>1 DEF Rest, DeliveryInv, Sending
  <2>2. ASSUME NEW e \in Deliverer, stage'[e] = "accepted"
        PROVE  (\E i \in MailsOf(call[e].delivery) : mailbox[i].batches = call[e].batches)'
    <3>1. CASE e = d
      <4>1. Accept(d)
        BY <1>1, <2>2, <3>1 DEF Rest, DeliveryInv
      <4> QED
        BY <1>1, <1>2, <3>1, <4>1 DEF MailsOf
    <3>2. CASE e # d
      <4>1. stage[e] = "accepted"
        BY <1>1, <2>2, <3>2 DEF Rest, DeliveryInv
      <4>2. PICK i \in MailsOf(call[e].delivery) : mailbox[i].batches = call[e].batches
        BY <4>1 DEF Rest, OpenInv
      <4> QED
        BY <1>1, <1>2, <1>4, <4>2 DEF MailsOf
    <3> QED
      BY <3>1, <3>2
  <2> QED
    BY <1>1, <2>1, <2>2 DEF Rest, OpenInv
<1>6. KnownBatches'
  BY <1>1, <1>2 DEF Rest, KnownBatches
<1>7. SentWasMailed'
  <2>1. \A k : MailsOf(k) # {} => MailsOf(k)' # {}
    BY <1>4
  <2>2. ASSUME NEW b, NEW k, \E i \in MailsOf(k) : b \in mailbox[i].batches
        PROVE  \E i \in MailsOf(k)' : b \in mailbox'[i].batches
    BY <1>2, <1>4, <2>2 DEF MailsOf
  <2> QED
    BY <1>1, <2>1, <2>2 DEF Rest, SentWasMailed
<1> QED
  BY <1>3, <1>5, <1>6, <1>7 DEF Rest

(* The outcome of an open delivery is recorded and its call returns. *)
LEMMA RecordOutcome ==
  ASSUME Rest, NEW d \in Deliverer, stage[d] \in Sending, NEW outcome \in {"sent", "failed"},
         deliveries' = [deliveries EXCEPT ![call[d].delivery].status = outcome],
         Quit(d), cursor' \in Nat, UNCHANGED mailbox
  PROVE  /\ DeliveryInv' /\ OpenInv'
         /\ \A e \in Deliverer : call'[e] = call[e] \/ call'[e].batches = {}
         /\ call[d].delivery \in DOMAIN deliveries
         /\ deliveries[call[d].delivery].status = "preparing"
         /\ DOMAIN deliveries' = DOMAIN deliveries
         /\ \A i \in DOMAIN deliveries : /\ deliveries'[i].start = deliveries[i].start
                                         /\ deliveries'[i].end = deliveries[i].end
         /\ \A i \in DOMAIN deliveries : deliveries'[i].status =
              IF i = call[d].delivery THEN outcome ELSE deliveries[i].status
<1> DEFINE k == call[d].delivery
<1>1. k \in DOMAIN deliveries /\ deliveries[k].status = "preparing"
  BY DEF Rest, OpenInv
<1>2. PICK N : call \in [Deliverer -> CallShape(N)]
  BY DEF Rest, DeliveryInv, CallTyped
<1> DEFINE row == [deliveries[k] EXCEPT !.status = outcome]
<1>3. Len(deliveries) \in Nat /\ DOMAIN deliveries = 1..Len(deliveries) /\ deliveries[k] \in DeliveryRecord
  BY <1>1, LenProperties, ElementOfSeq DEF Rest, DeliveryInv
<1>4. row \in DeliveryRecord /\ row.status = outcome
      /\ row.start = deliveries[k].start /\ row.end = deliveries[k].end
  BY <1>3 DEF DeliveryRecord, Status
<1>5. deliveries' = [deliveries EXCEPT ![k] = row]
  OBVIOUS
<1> HIDE DEF row
<1>6. /\ deliveries' \in Seq(DeliveryRecord) /\ Len(deliveries') = Len(deliveries)
      /\ \A i \in 1..Len(deliveries) : deliveries'[i] = IF i = k THEN row ELSE deliveries[i]
  BY <1>1, <1>3, <1>4, <1>5, ExceptSeq DEF Rest, DeliveryInv
<1>7. /\ stage' = [stage EXCEPT ![d] = "idle"]
      /\ call' = [call EXCEPT ![d] = NoCall]
  BY DEF Quit
<1>8. /\ stage'[d] = "idle" /\ call'[d].batches = {}
      /\ \A e \in Deliverer \ {d} : stage'[e] = stage[e] /\ call'[e] = call[e]
      /\ call' \in [Deliverer -> CallShape(N)]
  BY <1>2, <1>7 DEF Rest, DeliveryInv, NoCall, CallShape, NULL
<1>9. DeliveryInv'
  BY <1>6, <1>7, <1>8 DEF Rest, DeliveryInv, CallTyped, Stage
<1>10. \A e \in Deliverer : stage'[e] \in Sending => e # d /\ stage[e] \in Sending /\ call[e].delivery # k
  BY <1>8 DEF Rest, OpenInv, Sending
<1>11. \A m : MailsOf(m)' = MailsOf(m)
  BY DEF MailsOf
<1>12. DOMAIN deliveries' = DOMAIN deliveries
  BY <1>3, <1>6, LenProperties
<1>13. OpenInv'
  BY <1>3, <1>6, <1>8, <1>10, <1>11, <1>12, SMTT(30) DEF Rest, OpenInv
<1> QED
  BY <1>1, <1>3, <1>4, <1>6, <1>8, <1>9, <1>12, <1>13

LEMMA FailKeeps ==
  ASSUME Rest, NEW d \in Deliverer, FailDelivery(d)
  PROVE  Rest'
<1>1. /\ stage[d] \in Sending /\ Quit(d) /\ UNCHANGED <<mailbox, batches>> /\ cursor' \in Nat
      /\ deliveries' = [deliveries EXCEPT ![call[d].delivery].status = "failed"]
  BY DEF FailDelivery, Sending, vars, storeVars, Rest, DeliveryInv
<1>2. /\ DeliveryInv' /\ OpenInv'
      /\ \A e \in Deliverer : call'[e] = call[e] \/ call'[e].batches = {}
      /\ deliveries[call[d].delivery].status = "preparing"
      /\ DOMAIN deliveries' = DOMAIN deliveries
      /\ \A i \in DOMAIN deliveries : deliveries'[i].status =
           IF i = call[d].delivery THEN "failed" ELSE deliveries[i].status
  BY <1>1, RecordOutcome
<1>3. KnownBatches'
  BY <1>1, <1>2 DEF Rest, KnownBatches
<1>4. \A m : MailsOf(m)' = MailsOf(m)
  BY <1>1 DEF MailsOf
<1>5. SentWasMailed'
  BY <1>1, <1>2, <1>4 DEF Rest, SentWasMailed
<1> QED
  BY <1>2, <1>3, <1>5 DEF Rest

LEMMA CompleteKeeps ==
  ASSUME Types, Rest, NEW d \in Deliverer, CompleteDelivery(d)
  PROVE  Rest' /\ call[d].delivery \in Nat
<1> DEFINE k == call[d].delivery
<1>1. /\ stage[d] = "accepted" /\ stage[d] \in Sending /\ Quit(d) /\ UNCHANGED mailbox
      /\ deliveries' = [deliveries EXCEPT ![k].status = "sent"]
      /\ batches' = MarkSent(batches, call[d].batches, k)
      /\ cursor' \in Nat
  BY DEF CompleteDelivery, Sending, Rest, DeliveryInv, CallTyped, CallShape
<1>2. /\ DeliveryInv' /\ OpenInv'
      /\ \A e \in Deliverer : call'[e] = call[e] \/ call'[e].batches = {}
      /\ k \in DOMAIN deliveries
      /\ deliveries[k].status = "preparing"
      /\ DOMAIN deliveries' = DOMAIN deliveries
      /\ \A i \in DOMAIN deliveries : deliveries'[i].status =
           IF i = k THEN "sent" ELSE deliveries[i].status
  BY <1>1, RecordOutcome
<1>3. k \in Nat \ {0}
  BY <1>2, LenProperties DEF Rest, DeliveryInv
<1>4. /\ DOMAIN batches' = DOMAIN batches
      /\ \A b \in DOMAIN batches :
           \/ batches[b].status = "pending" /\ b \in call[d].batches
              /\ batches'[b].status = "sent" /\ batches'[b].delivery = k
           \/ batches'[b] = batches[b]
  BY <1>1, <1>3, MarkedBatches DEF Types
<1>5. KnownBatches'
  BY <1>1, <1>2, <1>4 DEF Rest, KnownBatches
<1>6. \A m : MailsOf(m)' = MailsOf(m)
  BY <1>1 DEF MailsOf
<1>7. PICK i \in MailsOf(k) : mailbox[i].batches = call[d].batches
  BY <1>1 DEF Rest, OpenInv
<1>8. \A m \in DOMAIN deliveries' : deliveries'[m].status = "sent" => MailsOf(m)' # {}
  BY <1>2, <1>6, <1>7 DEF Rest, SentWasMailed
<1>9. ASSUME NEW b \in DOMAIN batches'
      PROVE  IF batches'[b].status = "pending" THEN batches'[b].delivery = NULL
             ELSE /\ batches'[b].delivery \in DOMAIN deliveries'
                  /\ deliveries'[batches'[b].delivery].status = "sent"
                  /\ \E j \in MailsOf(batches'[b].delivery) : b \in mailbox[j].batches
  <2>1. CASE batches'[b] = batches[b]
    BY <1>2, <1>4, <2>1 DEF Rest, SentWasMailed
  <2>2. CASE batches'[b] # batches[b]
    BY <1>2, <1>4, <1>7, <2>2
  <2> QED
    BY <2>1, <2>2
<1>10. SentWasMailed'
  BY <1>1, <1>6, <1>8, <1>9 DEF SentWasMailed, MailsOf
<1> QED
  BY <1>2, <1>3, <1>5, <1>10 DEF Rest

-----------------------------------------------------------------------------
LEMMA DInvInit == DInit => DInv
<1> SUFFICES ASSUME DInit PROVE DInv
  OBVIOUS
<1>1. Types /\ ClaimInv
  BY TypesInit, ClaimInit DEF DInit
<1>2. deliveries = <<>> /\ mailbox = <<>> /\ batches = <<>> /\ \A d \in Deliverer : stage[d] = "idle"
  BY DEF DInit, DigestInit, Init, StoreInit
<1>3. DeliveryInv
  <2>1. <<>> \in Seq(DeliveryRecord) /\ <<>> \in Seq({})
    BY EmptySeq
  <2>2. call \in [Deliverer -> CallShape({})]
    BY DEF DInit, DigestInit, NoCall, CallShape, NULL
  <2> QED
    BY <1>2, <2>1, <2>2 DEF DInit, DigestInit, DeliveryInv, CallTyped, IsSequence, Stage, NULL
<1>4. OpenInv
  BY <1>2 DEF OpenInv, Sending
<1>5. KnownBatches
  BY <1>2 DEF DInit, DigestInit, KnownBatches, NoCall
<1>6. SentWasMailed
  BY <1>2 DEF SentWasMailed
<1> QED
  BY <1>1, <1>3, <1>4, <1>5, <1>6 DEF DInv

(* Before a mail is handed over a call opens nothing; a call that fails    *)
(* or dies leaves its delivery as it is.                                   *)
LEMMA EarlyKeeps ==
  ASSUME Types, Rest, BatchesGrow,
         \/ \E d \in Deliverer :
              \/ Start(d) \/ Summarized(d) \/ PassFailed(d) \/ ReadBatches(d)
              \/ ReadNotifications(d) \/ ReadCursor(d) \/ StoreRaises(d)
         \/ \E p \in Proc : CrashAll(p)
         \/ UNCHANGED digestVars
  PROVE  Rest'
<1> USE DEF Rest, DeliveryInv
<1>1. ASSUME NEW d \in Deliverer,
             \/ Start(d) \/ Summarized(d) \/ PassFailed(d) \/ ReadBatches(d)
             \/ ReadNotifications(d) \/ ReadCursor(d) \/ StoreRaises(d)
      PROVE  Rest'
  <2>1. /\ UNCHANGED <<deliveries, mailbox, cursor>>
        /\ \E s \in Stage \ Sending : stage' = [stage EXCEPT ![d] = s]
    BY <1>1 DEF Start, Summarized, PassFailed, ReadBatches, ReadNotifications, ReadCursor,
                StoreRaises, Quit, Stage, Sending
  <2>2. PICK N : call \in [Deliverer -> CallShape(N)]
    BY DEF CallTyped
  <2>3. PendingBatches \in SUBSET Nat
    BY LenProperties DEF PendingBatches, Types, StoreTypeOK
  <2>4. /\ CallTyped'
        /\ \A e \in Deliverer \ {d} : call'[e] = call[e]
        /\ call'[d].batches \in {{}, call[d].batches, PendingBatches}
    <3> USE <2>2 DEF CallShape
    <3>1. CASE Start(d)
      BY <3>1, NowIsLater DEF Start, NoCall, CallTyped, NULL
    <3>2. CASE Summarized(d)
      BY <3>2 DEF Summarized, CallTyped
    <3>3. CASE PassFailed(d) \/ StoreRaises(d)
      <4>1. call' = [call EXCEPT ![d] = NoCall]
        BY <3>3 DEF PassFailed, StoreRaises, Quit
      <4>2. NoCall \in CallShape(N) /\ NoCall.batches = {}
        BY DEF NoCall, NULL
      <4> QED
        BY <4>1, <4>2 DEF CallTyped
    <3>4. CASE ReadBatches(d)
      <4>1. {b \in PendingBatches : Rendered(b)} \in SUBSET Nat
        BY <2>3
      <4> DEFINE mine == [call[d] EXCEPT !.batches = PendingBatches,
                                         !.rendered = {b \in PendingBatches : Rendered(b)}]
      <4>2. call[d] \in CallShape(N)
        BY <2>2
      <4>3. mine \in CallShape(N) /\ mine.batches = PendingBatches
        BY <2>3, <4>1, <4>2
      <4>4. call' = [call EXCEPT ![d] = mine]
        BY <3>4 DEF ReadBatches
      <4> HIDE DEF mine
      <4> QED
        BY <4>3, <4>4 DEF CallTyped
    <3>5. CASE ReadNotifications(d)
      <4>1. CASE call' = [call EXCEPT ![d].notes = NotesRead]
        <5>1. call' \in [Deliverer -> CallShape(N \cup NotesRead)]
          BY <4>1
        <5> QED
          BY <4>1, <5>1 DEF CallTyped
      <4>2. CASE Quit(d)
        BY <4>2 DEF Quit, NoCall, CallTyped, NULL
      <4>3. call' = [call EXCEPT ![d].notes = NotesRead] \/ Quit(d)
        BY <3>5, Zenon DEF ReadNotifications
      <4> QED
        BY <4>1, <4>2, <4>3, Zenon
    <3>6. CASE ReadCursor(d)
      <4> DEFINE mine == [call[d] EXCEPT !.start = cursor]
      <4>1. call[d] \in CallShape(N)
        BY <2>2
      <4>2. mine \in CallShape(N) /\ mine.batches = call[d].batches
        BY <4>1
      <4>3. call' = [call EXCEPT ![d] = mine]
        BY <3>6 DEF ReadCursor
      <4> HIDE DEF mine
      <4> QED
        BY <4>2, <4>3 DEF CallTyped
    <3> QED
      BY <1>1, <3>1, <3>2, <3>3, <3>4, <3>5, <3>6
  <2>5. call'[d].batches \subseteq DOMAIN batches
    BY <2>4 DEF KnownBatches, PendingBatches
  <2> QED
    BY <2>1, <2>4, <2>5, NotSending
<1>2. ASSUME NEW p \in Proc, CrashAll(p) PROVE Rest'
  <2>1. PICK N : call \in [Deliverer -> CallShape(N)]
    BY DEF CallTyped
  <2>2. NoCall \in CallShape(N)
    BY DEF NoCall, CallShape, NULL
  <2>3. call' \in [Deliverer -> CallShape(N)]
    BY <1>2, <2>1, <2>2 DEF CrashAll
  <2> QED
    BY <1>2, <2>3, NotSending DEF CrashAll, CallTyped, NoCall, Stage, Sending
<1>3. CASE UNCHANGED digestVars
  BY <1>3, NotSending DEF digestVars, CallTyped
<1> QED
  BY <1>1, <1>2, <1>3

LEMMA DInvStep == DInv /\ [DNext]_allVars => DInv'
<1> SUFFICES ASSUME DInv, [DNext]_allVars PROVE DInv'
  OBVIOUS
<1> USE DEF DInv, Rest
<1>1. CASE \E d \in Deliverer : CompleteDelivery(d)
  <2>1. PICK d \in Deliverer : CompleteDelivery(d)
    BY <1>1
  <2>2. Rest' /\ call[d].delivery \in Nat
    BY <2>1, CompleteKeeps
  <2> QED
    BY <2>1, <2>2, CompleteKeepsClaims
<1>2. CASE ~\E d \in Deliverer : CompleteDelivery(d)
  <2>1. [Next]_vars \/ \E p \in Proc : Forget(p)
    BY <1>2, DigestSteps
  <2>2. Types' /\ ClaimInv'
    BY <2>1, TypesStep, ClaimStep, ForgetKeeps
  <2>3. BatchesGrow
    BY <2>1, GrowStep
  <2>4. Rest'
    <3>1. ASSUME NEW d \in Deliverer, DeliverStep(d) PROVE Rest'
      BY <1>2, <2>3, <3>1, EarlyKeeps, CreateKeeps, SendKeeps, FailKeeps DEF DeliverStep
    <3>2. ASSUME NEW w \in Worker, PassStep(w) PROVE Rest'
      BY <2>3, <3>2, EarlyKeeps DEF PassStep
    <3>3. ASSUME NEW p \in Proc, CrashAll(p) PROVE Rest'
      BY <2>3, <3>3, EarlyKeeps
    <3>4. CASE (Environment /\ UNCHANGED digestVars) \/ UNCHANGED allVars
      BY <2>3, <3>4, EarlyKeeps DEF allVars
    <3> QED
      BY <3>1, <3>2, <3>3, <3>4 DEF DNext
  <2> QED
    BY <2>2, <2>4
<1> QED
  BY <1>1, <1>2

LEMMA DInvHolds == DSpec => []DInv
BY DInvInit, DInvStep, PTL DEF DSpec

(* A summary is ticked off only for a mail that was accepted and that was  *)
(* made from it, whichever calls of deliver fail, crash or overlap, in one *)
(* process or in two (complete_delivery's WHERE id IN ... AND status).     *)
THEOREM NothingTickedOffUnmailed == DSpec => []SentWasMailed
<1>1. DInv => SentWasMailed
  BY DEF DInv
<1> QED
  BY <1>1, DInvHolds, PTL

-----------------------------------------------------------------------------
(* The refinement of Lifecycle. *)

WaitingRows    == {r \in RowIds : messages[r].batch = NULL}
SummarisedRows == RowsOf(PendingBatches)
SentRows       == RowsOf(DOMAIN batches \ PendingBatches)
MailedBatches  == UNION {mailbox[i].batches : i \in DOMAIN mailbox}
MailedRows     == RowsOf(MailedBatches)

LEMMA PromiseVars ==
  /\ Promise!LInit <=> /\ WaitingRows = {} /\ SummarisedRows = {}
                       /\ SentRows = {} /\ MailedRows = {}
  /\ WaitingRows' = WaitingRows /\ SummarisedRows' = SummarisedRows
       /\ SentRows' = SentRows /\ MailedRows' = MailedRows => UNCHANGED Promise!lvars
BY DEF Promise!LInit, Promise!lvars, WaitingRows, SummarisedRows, SentRows, MailedRows, MailedBatches

LEMMA SummariseIsStep ==
  ASSUME NEW S \in SUBSET WaitingRows, Promise!Summarise(S) PROVE Promise!LNext
BY DEF Promise!LNext, WaitingRows

LEMMA ReceiveIsStep ==
  ASSUME NEW m \in 1..MaxRows, Promise!Receive(m) PROVE Promise!LNext
BY DEF Promise!LNext

LEMMA SaveMaps ==
  ASSUME DInv, NEW w \in Worker, Save(w), UNCHANGED mailbox
  PROVE  Promise!LNext
<1> DEFINE new == Len(batches) + 1
           rows == IdsOf(shown[w])
<1>1. Current(w) \in Group /\ kind[w] \in GroupType /\ shown[w] \in SUBSET Snapshot
  BY CurrentInTodo DEF Save, DInv, Types, WorkerTypeOK, ControlInv
<1>2. PICK content \in Content, candidates \in Answers(w) :
        SaveSummaryBatch(Current(w), ProcOf[w], shown[w], kind[w], content, candidates)
  BY DEF Save, Says
<1>3. Claimed(ProcOf[w], shown[w])
  BY <1>1, <1>2, SaveEffect, WorkerAssumption DEF DInv, Types
<1>4. /\ Len(batches) \in Nat
      /\ DOMAIN batches = 1..Len(batches) /\ DOMAIN batches' = 1..new
      /\ new \notin DOMAIN batches /\ new # NULL
  BY <1>3, LenProperties DEF Claimed, DInv, Types, StoreTypeOK, NULL
<1>5. BatchesGrow
  <2>1. [Next]_vars
    BY DEF Next, WorkerStep
  <2> QED
    BY <2>1, GrowStep DEF DInv
<1>6. /\ PendingBatches' = PendingBatches \cup {new}
      /\ DOMAIN batches' \ PendingBatches' = DOMAIN batches \ PendingBatches
      /\ batches'[new].shown = shown[w]
      /\ \A b \in DOMAIN batches : batches'[b] = batches[b]
  BY <1>3, <1>4, <1>5 DEF BatchesGrow, PendingBatches, Claimed
<1>7. rows \subseteq WaitingRows
  BY <1>3 DEF Claimed, Unclaimed, IdsOf, WaitingRows
<1>8. WaitingRows' = WaitingRows \ rows
  BY <1>3, <1>4 DEF Claimed, WaitingRows
<1>9. SummarisedRows' = SummarisedRows \cup rows
  BY <1>4, <1>6 DEF SummarisedRows, RowsOf, PendingBatches
<1>10. SentRows' = SentRows
  BY <1>6 DEF SentRows, RowsOf
<1>11. MailedRows' = MailedRows
  <2>1. MailedBatches' = MailedBatches /\ MailedBatches \subseteq DOMAIN batches
    BY DEF MailedBatches, DInv, KnownBatches
  <2> QED
    BY <1>6, <2>1 DEF MailedRows, RowsOf
<1>12. PICK S : S = rows
  OBVIOUS
<1>13. S \in SUBSET WaitingRows /\ Promise!Summarise(S)
  BY <1>7, <1>8, <1>9, <1>10, <1>11, <1>12
     DEF Promise!Summarise, WaitingRows, SummarisedRows, SentRows, MailedRows, MailedBatches
<1> QED
  BY <1>13, SummariseIsStep

LEMMA IngestMaps ==
  ASSUME DInv, NEW m \in Message, Ingest(m), UNCHANGED mailbox
  PROVE  Promise!LNext
<1> DEFINE new == lastMessageId + 1
<1>1. /\ RowIds' = RowIds \cup {new} /\ new \in 1..MaxRows
      /\ \A r \in RowIds : messages'[r] = messages[r] /\ r # new
      /\ messages'[new].batch = NULL
      /\ UNCHANGED batches
  BY MaxRowsAssumption DEF Ingest, InsertMessage, NextMessageId, RowIds, DInv, Types, StoreTypeOK
<1>2. WaitingRows' = WaitingRows \cup {new} /\ new \notin WaitingRows
  BY <1>1 DEF WaitingRows
<1>3. SummarisedRows' = SummarisedRows /\ SentRows' = SentRows /\ MailedRows' = MailedRows
  BY <1>1 DEF SummarisedRows, SentRows, MailedRows, MailedBatches, RowsOf, PendingBatches
<1>4. \A b \in DOMAIN batches : new \notin IdsOf(batches[b].shown)
  <2>1. ASSUME NEW b \in DOMAIN batches, NEW s \in batches[b].shown PROVE s.id # new
    <3>1. batches[b] \in BatchRow(Proc)
      BY ElementOfSeq, LenProperties DEF DInv, Types, StoreTypeOK
    <3>2. s.id \in Nat /\ s.id <= lastMessageId /\ lastMessageId \in Nat
      BY <2>1, <3>1 DEF DInv, ClaimInv, ClaimedIdsDrawn, BatchRow, Snapshot, Types, StoreTypeOK
    <3> QED
      BY <3>2
  <2> QED
    BY <2>1 DEF IdsOf
<1>5. new \notin SummarisedRows /\ new \notin SentRows
  BY <1>4 DEF SummarisedRows, SentRows, RowsOf, PendingBatches
<1>6. PICK r : r = new
  OBVIOUS
<1>7. r \in 1..MaxRows /\ Promise!Receive(r)
  BY <1>1, <1>2, <1>3, <1>5, <1>6
     DEF Promise!Receive, WaitingRows, SummarisedRows, SentRows, MailedRows, MailedBatches
<1> QED
  BY <1>7, ReceiveIsStep

LEMMA AcceptMaps ==
  ASSUME DInv, NEW d \in Deliverer, Accept(d), UNCHANGED <<messages, batches>>
  PROVE  Promise!LNext
<1> DEFINE rows == RowsOf(call[d].batches)
<1>1. PICK mail : mailbox' = Append(mailbox, mail) /\ mail.batches = call[d].batches
  BY DEF Accept
<1>2. /\ Len(mailbox) \in Nat
      /\ DOMAIN mailbox = 1..Len(mailbox) /\ DOMAIN mailbox' = 1..(Len(mailbox) + 1)
      /\ \A i \in 1..Len(mailbox) : mailbox'[i] = mailbox[i]
      /\ mailbox'[Len(mailbox) + 1] = mail
  BY <1>1, AppendToSeq DEF DInv, DeliveryInv
<1>3. MailedBatches' = MailedBatches \cup call[d].batches
  BY <1>1, <1>2 DEF MailedBatches
<1>4. MailedRows' = MailedRows \cup rows
  BY <1>3 DEF MailedRows, RowsOf
<1>5. rows \subseteq SummarisedRows \cup SentRows
  BY DEF DInv, KnownBatches, SummarisedRows, SentRows, RowsOf
<1>6. WaitingRows' = WaitingRows /\ SummarisedRows' = SummarisedRows /\ SentRows' = SentRows
  BY DEF WaitingRows, SummarisedRows, SentRows, RowsOf, PendingBatches, RowIds
<1>7. Promise!Mail(rows)
  BY <1>4, <1>5, <1>6
     DEF Promise!Mail, WaitingRows, SummarisedRows, SentRows, MailedRows, MailedBatches
<1> QED
  BY <1>5, <1>7 DEF Promise!LNext, SummarisedRows, SentRows

(* No row is in two summaries, so that ticking off some leaves the rows of *)
(* the others where they are.                                              *)
LEMMA CompleteMaps ==
  ASSUME DInv, NEW d \in Deliverer, CompleteDelivery(d)
  PROVE  Promise!LNext
<1> DEFINE done == call[d].batches \cap PendingBatches
           rows == RowsOf(done)
<1>1. /\ stage[d] = "accepted" /\ UNCHANGED <<messages, mailbox>>
      /\ batches' = MarkSent(batches, call[d].batches, call[d].delivery)
  BY DEF CompleteDelivery
<1>2. call[d].delivery \in Nat
  BY CompleteKeeps DEF DInv, Rest
<1>3. /\ DOMAIN batches' = DOMAIN batches
      /\ \A b \in DOMAIN batches :
           /\ batches'[b].shown = batches[b].shown
           /\ b \in call[d].batches /\ batches[b].status = "pending" => batches'[b].status = "sent"
           /\ b \notin call[d].batches \/ batches[b].status # "pending" => batches'[b] = batches[b]
  BY <1>1, <1>2, MarkedBatches DEF DInv, Types
<1>4. PendingBatches' = PendingBatches \ done /\ done \subseteq PendingBatches
  BY <1>3 DEF PendingBatches
<1>5. DOMAIN batches' \ PendingBatches' = (DOMAIN batches \ PendingBatches) \cup done
  BY <1>3, <1>4 DEF PendingBatches
<1>6. SummarisedRows' = SummarisedRows \ rows
  <2>1. \A b \in DOMAIN batches, c \in DOMAIN batches :
          b # c => IdsOf(batches[b].shown) \cap IdsOf(batches[c].shown) = {}
    BY DEF DInv, ClaimInv, RowsSummarisedOnce
  <2>2. PendingBatches \subseteq DOMAIN batches
    BY DEF PendingBatches
  <2>3. SummarisedRows' = UNION {IdsOf(batches[b].shown) : b \in PendingBatches \ done}
    BY <1>3, <1>4, <2>2 DEF SummarisedRows, RowsOf
  <2> QED
    BY <1>4, <2>1, <2>2, <2>3 DEF SummarisedRows, RowsOf
<1>7. SentRows' = SentRows \cup rows
  <2>1. SentRows' = UNION {IdsOf(batches[b].shown) : b \in (DOMAIN batches \ PendingBatches) \cup done}
    BY <1>3, <1>4, <1>5 DEF SentRows, RowsOf, PendingBatches
  <2> QED
    BY <2>1 DEF SentRows, RowsOf
<1>8. MailedBatches' = MailedBatches /\ MailedBatches \subseteq DOMAIN batches
  BY <1>1 DEF MailedBatches, DInv, KnownBatches
<1>9. MailedRows' = MailedRows
  BY <1>3, <1>8 DEF MailedRows, RowsOf
<1>10. done \subseteq MailedBatches
  BY <1>1 DEF DInv, OpenInv, MailsOf, MailedBatches
<1>11. rows \subseteq SummarisedRows \cap MailedRows
  BY <1>4, <1>10 DEF SummarisedRows, MailedRows, RowsOf
<1>12. WaitingRows' = WaitingRows
  BY <1>1 DEF WaitingRows, RowIds
<1>13. Promise!TickOff(rows)
  BY <1>6, <1>7, <1>9, <1>11, <1>12
     DEF Promise!TickOff, WaitingRows, SummarisedRows, SentRows, MailedRows, MailedBatches
<1> QED
  BY <1>11, <1>13 DEF Promise!LNext, SummarisedRows

LEMMA PromiseStep == DInv /\ [DNext]_allVars => [Promise!LNext]_(Promise!lvars)
<1> SUFFICES ASSUME DInv, [DNext]_allVars PROVE Promise!LNext \/ UNCHANGED Promise!lvars
  OBVIOUS
<1>1. ASSUME UNCHANGED <<messages, batches, mailbox>> PROVE UNCHANGED Promise!lvars
  <2>1. /\ WaitingRows' = WaitingRows /\ SummarisedRows' = SummarisedRows
        /\ SentRows' = SentRows /\ MailedRows' = MailedRows
    BY <1>1 DEF WaitingRows, SummarisedRows, SentRows, MailedRows, MailedBatches,
                RowsOf, PendingBatches, RowIds
  <2> QED
    BY <2>1, PromiseVars
<1>2. ASSUME NEW before \in Cutoffs, Cleanup(before), UNCHANGED mailbox
      PROVE  UNCHANGED Promise!lvars
  <2>1. UNCHANGED batches /\ WaitingRows' = WaitingRows
    BY <1>2 DEF Cleanup, CleanupSummarizedMessages, Expired, WaitingRows, RowIds
  <2>2. SummarisedRows' = SummarisedRows /\ SentRows' = SentRows /\ MailedRows' = MailedRows
    BY <1>2, <2>1 DEF SummarisedRows, SentRows, MailedRows, MailedBatches, RowsOf, PendingBatches
  <2> QED
    BY <2>1, <2>2, PromiseVars
<1>3. ASSUME NEW w \in Worker, WorkerStep(w), ~Save(w) PROVE UNCHANGED <<messages, batches>>
  BY <1>3 DEF WorkerStep, Request, Enter, GetGroup, NotDue, Due, Finish, Abort, Leave, storeVars
<1>4. ASSUME NEW w \in Worker, PassStep(w) PROVE Promise!LNext \/ UNCHANGED Promise!lvars
  <2>1. WorkerStep(w) /\ UNCHANGED mailbox
    BY <1>4 DEF PassStep, WorkerStep, digestVars
  <2> QED
    BY <1>1, <1>3, <2>1, SaveMaps
<1>5. ASSUME NEW d \in Deliverer, DeliverStep(d) PROVE Promise!LNext \/ UNCHANGED Promise!lvars
  <2>1. CASE CompleteDelivery(d)
    BY <2>1, CompleteMaps
  <2>2. CASE SendAccepted(d) \/ SendRaises(d)
    <3>1. UNCHANGED <<messages, batches>> /\ (Accept(d) \/ UNCHANGED mailbox)
      BY <2>2 DEF SendAccepted, SendRaises, vars, storeVars
    <3> QED
      BY <1>1, <3>1, AcceptMaps
  <2>3. CASE \/ Start(d) \/ Summarized(d) \/ PassFailed(d) \/ ReadBatches(d) \/ ReadNotifications(d)
             \/ ReadCursor(d) \/ CreateDelivery(d) \/ FailDelivery(d) \/ StoreRaises(d)
    <3>1. UNCHANGED <<messages, batches, mailbox>>
      BY <2>3 DEF Start, Summarized, PassFailed, ReadBatches, ReadNotifications, ReadCursor,
                  CreateDelivery, FailDelivery, StoreRaises, Request, Finish, Abort, Leave,
                  vars, storeVars
    <3> QED
      BY <1>1, <3>1
  <2> QED
    BY <1>5, <2>1, <2>2, <2>3 DEF DeliverStep
<1>6. ASSUME NEW p \in Proc, CrashAll(p) PROVE UNCHANGED <<messages, batches, mailbox>>
  BY <1>6 DEF CrashAll, Forget, storeVars
<1>7. CASE Environment /\ UNCHANGED digestVars
  <2>1. UNCHANGED mailbox
    BY <1>7 DEF digestVars
  <2>2. CASE \/ \E g \in Group : Activity(g)
             \/ \E typeOf \in Subscriptions : Subscribe(typeOf)
             \/ \E listed \in Catalogues : SyncGroups(listed)
    BY <1>1, <2>1, <2>2 DEF Activity, Subscribe, SyncGroups, RecordGroupActivity,
                            ReplaceGroupSubscriptions, SyncAvailableGroups
  <2> QED
    BY <1>2, <1>7, <2>1, <2>2, IngestMaps DEF Environment
<1>8. CASE UNCHANGED allVars
  BY <1>1, <1>8 DEF allVars, vars, storeVars, digestVars
<1> QED
  BY <1>1, <1>4, <1>5, <1>6, <1>7, <1>8 DEF DNext

(* The pipeline from the stored message to the digest implements the       *)
(* lifecycle of a message: it waits, is summarised, is mailed, is ticked   *)
(* off, in this order and never back.                                      *)
THEOREM DigestKeepsPromise == DSpec => KeepsPromise
<1>1. DInit => Promise!LInit
  <2> SUFFICES ASSUME DInit PROVE Promise!LInit
    OBVIOUS
  <2>1. RowIds = {} /\ DOMAIN batches = {} /\ DOMAIN mailbox = {}
    BY DEF DInit, DigestInit, Init, StoreInit, RowIds
  <2>2. WaitingRows = {} /\ SummarisedRows = {} /\ SentRows = {} /\ MailedRows = {}
    BY <2>1 DEF WaitingRows, SummarisedRows, SentRows, MailedRows, MailedBatches, RowsOf, PendingBatches
  <2> QED
    BY <2>2, PromiseVars
<1> QED
  BY <1>1, DInvHolds, PromiseStep, PTL DEF DSpec, KeepsPromise, Promise!LSpec

-----------------------------------------------------------------------------
(* Notifications and the digest.  Between two deliveries an entry is       *)
(* announced anew or keeps what it says of its delivery.                   *)
IsFresh(note) == note.status = "pending" /\ note.delivery = NULL

Moved(notes) ==
  \A n \in DOMAIN notes :
    \/ IsFresh(notes[n])
    \/ /\ n \in DOMAIN notifications
       /\ notes[n].status = notifications[n].status
       /\ notes[n].delivery = notifications[n].delivery

NotesMove == Moved(notifications')

LEMMA UpsertMoves ==
  ASSUME NEW notes \in Seq(NotificationRow), Moved(notes), NEW g, NEW c
  PROVE  Moved(UpsertNotification(notes, g, c))
<1> DEFINE same == SameKey(notes, g, c.key)
           n == CHOOSE n \in same : \A k \in same : notes[n].first_seen <= notes[k].first_seen
           row == [group |-> g, source |-> RowOf(c.source), sources |-> {c.source},
                   first_seen |-> SentAt[c.source], key |-> c.key,
                   update |-> c.update, status |-> "pending", delivery |-> NULL]
<1>1. Len(notes) \in Nat /\ DOMAIN notes = 1..Len(notes)
      /\ \A i \in DOMAIN notes : notes[i] \in NotificationRow
  BY ElementOfSeq, LenProperties
<1>2. CASE same = {}
  <2>1. UpsertNotification(notes, g, c) = Append(notes, row)
    BY <1>2 DEF UpsertNotification
  <2>2. IsFresh(row)
    BY DEF IsFresh
  <2>3. IsSequence(notes)
    BY DEF IsSequence
  <2> HIDE DEF row
  <2>4. /\ DOMAIN Append(notes, row) = 1..(Len(notes) + 1)
        /\ \A i \in 1..Len(notes) : Append(notes, row)[i] = notes[i]
        /\ Append(notes, row)[Len(notes) + 1] = row
    BY <2>3, AppendToSeq
  <2> QED
    BY <1>1, <2>1, <2>2, <2>4 DEF Moved
<1>3. CASE same # {}
  <2>1. n \in DOMAIN notes
    <3>1. same \in SUBSET DOMAIN notes
      BY DEF SameKey
    <3>2. n \in same
      <4> HIDE DEF same
      <4> QED
        BY <1>3, <3>1, EarliestIsSame
    <3> QED
      BY <3>1, <3>2
  <2>2. UpsertNotification(notes, g, c) = [notes EXCEPT ![n] = Merged(notes[n], c)]
    BY <1>3 DEF UpsertNotification
  <2> HIDE DEF n, same
  <2> DEFINE status == IF IsNewUpdate(notes[n], c.update) THEN "pending" ELSE notes[n].status
             delivery == IF IsNewUpdate(notes[n], c.update) THEN NULL ELSE notes[n].delivery
  <2>3. Merged(notes[n], c).status = status /\ Merged(notes[n], c).delivery = delivery
    <3>1. notes[n] \in NotificationRow
      BY <1>1, <2>1
    <3> QED
      BY <3>1 DEF Merged, NotificationRow
  <2>4. \/ IsFresh(Merged(notes[n], c))
        \/ /\ Merged(notes[n], c).status = notes[n].status
           /\ Merged(notes[n], c).delivery = notes[n].delivery
    BY <2>3 DEF IsFresh
  <2> QED
    BY <2>1, <2>2, <2>4 DEF Moved, IsFresh
<1> QED
  BY <1>2, <1>3

LEMMA SaveMovesNotes ==
  ASSUME Types, ClaimInv, NoteInv, NEW w \in Worker, Save(w)
  PROVE  NotesMove
<1> DEFINE claimed == ClaimedRows \cup IdsOf(shown[w])
           Tables == {notes \in NoteTables(claimed) : Moved(notes)}
<1>1. Current(w) \in Group /\ claimed \in SUBSET RowIds
  BY SaveCites
<1>2. PICK N, candidates :
        /\ N \in Nat /\ DOMAIN candidates = 1..N
        /\ \A i \in 1..N : CitesOwnRow(w, candidates[i])
        /\ notifications' = Upserts(notifications, Current(w), candidates)
  BY SaveCites
<1>3. claimed \in SUBSET Nat
  <2>1. RowIds \subseteq Nat
    BY DEF Types, StoreTypeOK
  <2> QED
    BY <1>1, <2>1
<1>4. notifications \in Tables
  BY DEF NoteInv, NoteTables, Moved
<1>5. ASSUME NEW rows \in Tables, NEW i \in 1..N
      PROVE  UpsertNotification(rows, Current(w), candidates[i]) \in Tables
  <2>1. UpsertNotification(rows, Current(w), candidates[i]) \in NoteTables(claimed)
    BY <1>1, <1>2, <1>3, <1>5, UpsertKeepsTables DEF CitesOwnRow
  <2>2. rows \in Seq(NotificationRow) /\ Moved(rows)
    BY DEF NoteTables
  <2> QED
    BY <2>1, <2>2, UpsertMoves
<1> HIDE DEF Tables
<1>6. notifications' \in Tables
  BY <1>2, <1>4, <1>5, UpsertsStayIn
<1> QED
  BY <1>6 DEF Tables, NotesMove

LEMMA NotesMoveStep ==
  ASSUME Types, ClaimInv, NoteInv, [Next]_vars \/ \E p \in Proc : Forget(p)
  PROVE  NotesMove
<1>1. ASSUME UNCHANGED notifications PROVE NotesMove
  BY <1>1 DEF NotesMove, Moved
<1>2. ASSUME NEW before \in Cutoffs, Cleanup(before) PROVE NotesMove
  <2>1. PICK kept : notifications' = ForgetSources(notifications, kept)
    BY <1>2 DEF Cleanup, CleanupSummarizedMessages
  <2>2. \A n \in DOMAIN notifications : notifications[n] \in NotificationRow
    BY NoteInvImplies, ElementOfSeq, LenProperties
  <2>3. /\ DOMAIN notifications' = DOMAIN notifications
        /\ \A n \in DOMAIN notifications : notifications'[n] =
             IF notifications[n].source \in kept THEN notifications[n]
             ELSE [notifications[n] EXCEPT !.source = NULL]
    BY <2>1 DEF ForgetSources
  <2>4. \A n \in DOMAIN notifications : /\ notifications'[n].status = notifications[n].status
                                        /\ notifications'[n].delivery = notifications[n].delivery
    BY <2>2, <2>3 DEF NotificationRow
  <2> QED
    BY <2>3, <2>4 DEF NotesMove, Moved
<1> QED
  BY <1>1, <1>2, NotesTouched, SaveMovesNotes

(* complete_delivery on table notifications. *)
LEMMA MarkedNotes ==
  ASSUME notifications \in Seq(NotificationRow), NEW ids, NEW delivery \in Nat,
         notifications' = MarkSent(notifications, ids, delivery)
  PROVE  /\ notifications' \in Seq(NotificationRow)
         /\ DOMAIN notifications' = DOMAIN notifications
         /\ \A n \in DOMAIN notifications :
              /\ notifications'[n].key = notifications[n].key
              /\ notifications'[n].source = notifications[n].source
              /\ notifications'[n].group = notifications[n].group
              /\ \/ /\ n \in ids /\ notifications[n].status = "pending"
                    /\ notifications'[n].status = "sent" /\ notifications'[n].delivery = delivery
                 \/ notifications'[n] = notifications[n]
<1>1. /\ Len(notifications) \in Nat /\ DOMAIN notifications = 1..Len(notifications)
      /\ \A n \in DOMAIN notifications : notifications[n] \in NotificationRow
  BY LenProperties, ElementOfSeq
<1> DEFINE marked(row) == [row EXCEPT !.status = "sent", !.delivery = delivery]
<1>2. \A row \in NotificationRow :
        /\ marked(row) \in NotificationRow
        /\ marked(row).key = row.key /\ marked(row).source = row.source /\ marked(row).group = row.group
        /\ marked(row).status = "sent" /\ marked(row).delivery = delivery
  BY DEF NotificationRow
<1>3. /\ DOMAIN notifications' = DOMAIN notifications
      /\ \A n \in DOMAIN notifications : notifications'[n] =
           IF n \in ids /\ notifications[n].status = "pending"
           THEN marked(notifications[n]) ELSE notifications[n]
      /\ notifications' = [n \in DOMAIN notifications |-> notifications'[n]]
  BY DEF MarkSent
<1> HIDE DEF marked
<1>4. ASSUME NEW n \in DOMAIN notifications
      PROVE  /\ notifications'[n] \in NotificationRow
             /\ notifications'[n].key = notifications[n].key
             /\ notifications'[n].source = notifications[n].source
             /\ notifications'[n].group = notifications[n].group
             /\ \/ /\ n \in ids /\ notifications[n].status = "pending"
                   /\ notifications'[n].status = "sent" /\ notifications'[n].delivery = delivery
                \/ notifications'[n] = notifications[n]
  <2>1. CASE n \in ids /\ notifications[n].status = "pending"
    <3>1. notifications'[n] = marked(notifications[n]) /\ notifications[n] \in NotificationRow
      BY <1>1, <1>3, <2>1
    <3> QED
      BY <1>2, <2>1, <3>1
  <2>2. CASE ~(n \in ids /\ notifications[n].status = "pending")
    BY <1>1, <1>3, <2>2
  <2> QED
    BY <2>1, <2>2
<1>5. notifications' \in [1..Len(notifications) -> NotificationRow]
  BY <1>1, <1>3, <1>4
<1>6. notifications' \in Seq(NotificationRow)
  BY <1>1, <1>5, SeqDef
<1> QED
  BY <1>3, <1>4, <1>6

LEMMA CompleteKeepsNotes ==
  ASSUME NoteInv, NEW d \in Deliverer, CompleteDelivery(d), call[d].delivery \in Nat
  PROVE  NoteInv'
<1>1. /\ notifications' = MarkSent(notifications, IdsOf(call[d].notes), call[d].delivery)
      /\ UNCHANGED <<messages, shown, todo>>
  BY DEF CompleteDelivery, workerVars
<1>2. RowIds' = RowIds /\ ClaimedRows' = ClaimedRows /\ \A w \in Worker : Current(w)' = Current(w)
  BY <1>1 DEF RowIds, ClaimedRows, Current
<1>3. /\ notifications' \in Seq(NotificationRow)
      /\ DOMAIN notifications' = DOMAIN notifications
      /\ \A n \in DOMAIN notifications :
           /\ notifications'[n].key = notifications[n].key
           /\ notifications'[n].source = notifications[n].source
           /\ notifications'[n].group = notifications[n].group
  BY <1>1, NoteInvImplies, MarkedNotes
<1>4. (notifications \in NoteTables(ClaimedRows))'
  BY <1>1, <1>2, <1>3 DEF NoteInv, NoteTables
<1> QED
  BY <1>1, <1>2, <1>4 DEF NoteInv

LEMMA DNoteStep == DInv /\ NoteInv /\ [DNext]_allVars => NoteInv'
<1> SUFFICES ASSUME DInv, NoteInv, [DNext]_allVars PROVE NoteInv'
  OBVIOUS
<1>1. ASSUME NEW d \in Deliverer, CompleteDelivery(d) PROVE NoteInv'
  BY <1>1, CompleteKeeps, CompleteKeepsNotes DEF DInv, Rest
<1>2. ASSUME NEW p \in Proc, Forget(p) PROVE NoteInv'
  <2>1. /\ UNCHANGED <<messages, notifications>>
        /\ \A v \in Worker : shown'[v] = {} \/ (shown'[v] = shown[v] /\ todo'[v] = todo[v])
    BY <1>2 DEF Forget, storeVars
  <2> QED
    BY <2>1, NotesQuiet
<1> QED
  BY <1>1, <1>2, DigestSteps, NoteStep DEF DInv

-----------------------------------------------------------------------------
(* The locals of the calls and the history, with their types: what a call  *)
(* reads of the notifications is typed because the table is.               *)
CallsTyped ==
  /\ call \in [Deliverer -> CallShape(NoteSeen)]
  /\ \A d \in Deliverer : stage[d] # "idle" => call[d].now # 0
  /\ \A i \in DOMAIN deliveries : deliveries[i].end # 0
  /\ mailbox \in Seq(Mail)

(* The mail of an accepted call shows the notifications the call has read. *)
NoteMailInv ==
  /\ SentNoteWasMailed
  /\ \A d \in Deliverer : stage[d] = "accepted" =>
       \E i \in MailsOf(call[d].delivery) : mailbox[i].notes = call[d].notes

(* Steps that neither open nor close a delivery nor hand over a mail.      *)
CallsMove ==
  /\ UNCHANGED <<deliveries, mailbox>>
  /\ call' \in [Deliverer -> CallShape(NoteSeen)]
  /\ \A e \in Deliverer :
       /\ stage'[e] # "idle" => call'[e].now # 0
       /\ stage'[e] = "accepted" => stage[e] = "accepted" /\ call'[e] = call[e]
       /\ \/ call'[e].batches = {}
          \/ call'[e].batches = call[e].batches /\ call'[e].rendered = call[e].rendered
          \/ /\ call'[e].batches = PendingBatches
             /\ call'[e].rendered = {b \in PendingBatches : Rendered(b)}

LEMMA NotesReadTyped ==
  ASSUME NoteInv
  PROVE  NotesRead \in SUBSET NoteSeen
<1>1. \A n \in DOMAIN notifications :
        n \in Nat \ {0} /\ notifications[n] \in NotificationRow
  BY NoteInvImplies, ElementOfSeq, LenProperties
<1> QED
  BY <1>1 DEF NotesRead, NoteSeen, PendingNotifications, NotificationRow

(* One call takes a step and has new locals. *)
LEMMA OneCallMoves ==
  ASSUME DeliveryInv, CallsTyped, UNCHANGED <<deliveries, mailbox>>,
         NEW d \in Deliverer, NEW s, NEW mine \in CallShape(NoteSeen),
         stage' = [stage EXCEPT ![d] = s], call' = [call EXCEPT ![d] = mine],
         s # "accepted", s # "idle" => mine.now # 0,
         \/ mine.batches = {}
         \/ mine.batches = call[d].batches /\ mine.rendered = call[d].rendered
         \/ /\ mine.batches = PendingBatches
            /\ mine.rendered = {b \in PendingBatches : Rendered(b)}
  PROVE  CallsMove
<1>1. /\ call' \in [Deliverer -> CallShape(NoteSeen)]
      /\ stage'[d] = s /\ call'[d] = mine
      /\ \A e \in Deliverer \ {d} : stage'[e] = stage[e] /\ call'[e] = call[e]
  BY DEF DeliveryInv, CallsTyped
<1> QED
  BY <1>1 DEF CallsMove, CallsTyped

LEMMA CallsMoveStep ==
  ASSUME Types, NoteInv, DeliveryInv, CallsTyped, NEW d \in Deliverer,
         \/ Start(d) \/ Summarized(d) \/ PassFailed(d) \/ ReadBatches(d)
         \/ ReadNotifications(d) \/ ReadCursor(d) \/ StoreRaises(d)
  PROVE  CallsMove
<1>1. /\ call[d] \in CallShape(NoteSeen)
      /\ stage[d] # "idle" => call[d].now # 0
      /\ NoCall \in CallShape(NoteSeen) /\ NoCall.batches = {}
  BY DEF CallsTyped, NoCall, CallShape, NULL
<1>2. UNCHANGED <<deliveries, mailbox>>
  BY DEF Start, Summarized, PassFailed, ReadBatches, ReadNotifications, ReadCursor, StoreRaises
<1>3. CASE Start(d)
  <2> DEFINE mine == [NoCall EXCEPT !.now = Now]
  <2>1. Now \in Nat /\ Now # 0
    <3>1. Now \in Nat /\ cursor < Now /\ cursor \in Nat
      BY NowIsLater DEF Times, DeliveryInv
    <3> QED
      BY <3>1
  <2>2. mine \in CallShape(NoteSeen) /\ mine.now # 0 /\ mine.batches = {}
    BY <2>1 DEF NoCall, CallShape, NULL
  <2>3. stage' = [stage EXCEPT ![d] = "summarize"] /\ call' = [call EXCEPT ![d] = mine]
    BY <1>3 DEF Start
  <2> HIDE DEF mine
  <2> QED
    BY <1>2, <2>2, <2>3, OneCallMoves
<1>4. CASE Summarized(d)
  <2>1. /\ stage[d] = "summarize" /\ stage' = [stage EXCEPT ![d] = "batches"]
        /\ call' = [call EXCEPT ![d] = call[d]]
    BY <1>4 DEF Summarized, CallsTyped
  <2> QED
    BY <1>1, <1>2, <2>1, OneCallMoves
<1>5. ASSUME Quit(d) PROVE CallsMove
  <2>1. stage' = [stage EXCEPT ![d] = "idle"] /\ call' = [call EXCEPT ![d] = NoCall]
    BY <1>5 DEF Quit
  <2> QED
    BY <1>1, <1>2, <2>1, OneCallMoves
<1>6. CASE PassFailed(d) \/ StoreRaises(d)
  BY <1>5, <1>6 DEF PassFailed, StoreRaises
<1>7. CASE ReadBatches(d)
  <2> DEFINE shows == {b \in PendingBatches : Rendered(b)}
             mine == [call[d] EXCEPT !.batches = PendingBatches, !.rendered = shows]
  <2>1. PendingBatches \in SUBSET Nat
    BY LenProperties DEF PendingBatches, Types, StoreTypeOK
  <2>2. shows \in SUBSET Nat
    BY <2>1
  <2>3. /\ stage[d] = "batches" /\ stage' = [stage EXCEPT ![d] = "notifications"]
        /\ call' = [call EXCEPT ![d] = mine]
    BY <1>7 DEF ReadBatches
  <2> HIDE DEF shows
  <2>4. /\ mine \in CallShape(NoteSeen) /\ mine.now = call[d].now
        /\ mine.batches = PendingBatches /\ mine.rendered = shows
    BY <1>1, <2>1, <2>2 DEF CallShape
  <2> HIDE DEF mine
  <2> QED
    BY <1>1, <1>2, <2>3, <2>4, OneCallMoves DEF shows
<1>8. CASE ReadNotifications(d)
  <2>1. \/ Quit(d)
        \/ /\ stage[d] = "notifications" /\ stage' = [stage EXCEPT ![d] = "window"]
           /\ call' = [call EXCEPT ![d].notes = NotesRead]
    BY <1>8, Zenon DEF ReadNotifications
  <2>2. ASSUME stage[d] = "notifications", stage' = [stage EXCEPT ![d] = "window"],
               call' = [call EXCEPT ![d].notes = NotesRead]
        PROVE  CallsMove
    <3> DEFINE mine == [call[d] EXCEPT !.notes = NotesRead]
    <3>1. /\ mine \in CallShape(NoteSeen) /\ mine.now = call[d].now
          /\ mine.batches = call[d].batches /\ mine.rendered = call[d].rendered
      BY <1>1, NotesReadTyped DEF CallShape
    <3>2. call' = [call EXCEPT ![d] = mine]
      BY <2>2
    <3> HIDE DEF mine
    <3> QED
      BY <1>1, <1>2, <2>2, <3>1, <3>2, OneCallMoves
  <2> QED
    BY <1>5, <2>1, <2>2
<1>9. CASE ReadCursor(d)
  <2> DEFINE mine == [call[d] EXCEPT !.start = cursor]
  <2>1. /\ mine \in CallShape(NoteSeen) /\ mine.now = call[d].now
        /\ mine.batches = call[d].batches /\ mine.rendered = call[d].rendered
    BY <1>1 DEF CallShape, DeliveryInv
  <2>2. /\ stage[d] = "window" /\ stage' = [stage EXCEPT ![d] = "create"]
        /\ call' = [call EXCEPT ![d] = mine]
    BY <1>9 DEF ReadCursor
  <2> HIDE DEF mine
  <2> QED
    BY <1>1, <1>2, <2>1, <2>2, OneCallMoves
<1> QED
  BY <1>3, <1>4, <1>6, <1>7, <1>8, <1>9

LEMMA CallsMoveOther ==
  ASSUME CallsTyped, UNCHANGED digestVars \/ \E p \in Proc : CrashAll(p)
  PROVE  CallsMove
<1>1. CASE UNCHANGED digestVars
  BY <1>1 DEF digestVars, CallsMove, CallsTyped
<1>2. CASE \E p \in Proc : CrashAll(p)
  <2>1. PICK p \in Proc : CrashAll(p)
    BY <1>2
  <2>2. NoCall \in CallShape(NoteSeen) /\ NoCall.batches = {}
    BY DEF NoCall, CallShape, NULL
  <2>3. /\ UNCHANGED <<deliveries, mailbox>>
        /\ \A e \in Deliverer : \/ stage'[e] = "idle" /\ call'[e] = NoCall
                                \/ stage'[e] = stage[e] /\ call'[e] = call[e]
        /\ call' \in [Deliverer -> CallShape(NoteSeen)]
    BY <2>1, <2>2 DEF CrashAll, CallsTyped
  <2> QED
    BY <2>2, <2>3 DEF CallsMove, CallsTyped
<1> QED
  BY <1>1, <1>2

Told == CallsTyped /\ NoteMailInv

LEMMA ToldQuiet ==
  ASSUME Rest, Told, CallsMove, NotesMove
  PROVE  Told'
<1>1. UNCHANGED <<deliveries, mailbox>> /\ \A k : MailsOf(k)' = MailsOf(k)
  BY DEF CallsMove, MailsOf
<1>2. CallsTyped'
  BY <1>1 DEF Told, CallsTyped, CallsMove
<1>3. SentNoteWasMailed'
  BY <1>1 DEF Told, NoteMailInv, SentNoteWasMailed, NotesMove, Moved, IsFresh, NULL
<1>4. \A d \in Deliverer : stage'[d] = "accepted" =>
        \E i \in MailsOf(call'[d].delivery) : mailbox[i].notes = call'[d].notes
  BY DEF Told, NoteMailInv, CallsMove
<1> QED
  BY <1>1, <1>2, <1>3, <1>4 DEF Told, NoteMailInv

LEMMA ToldCreate ==
  ASSUME Rest, Told, NEW d \in Deliverer, CreateDelivery(d)
  PROVE  Told'
<1> DEFINE new == Len(deliveries) + 1
           mine == [call[d] EXCEPT !.delivery = new]
<1>1. /\ stage[d] = "create" /\ stage' = [stage EXCEPT ![d] = "send"]
      /\ UNCHANGED <<batches, mailbox, cursor>>
      /\ Len(deliveries) \in Nat
      /\ DOMAIN deliveries = 1..Len(deliveries) /\ DOMAIN deliveries' = 1..new
      /\ \A i \in DOMAIN deliveries : deliveries'[i] = deliveries[i]
      /\ deliveries'[new].end = call[d].now
  BY CreateEffect DEF Rest
<1>2. call' = [call EXCEPT ![d] = mine] /\ UNCHANGED notifications
  BY DEF CreateDelivery, vars, storeVars
<1>3. call[d] \in CallShape(NoteSeen) /\ call[d].now # 0
  BY <1>1 DEF Told, CallsTyped
<1>4. mine \in CallShape(NoteSeen) /\ mine.now = call[d].now
  BY <1>1, <1>3 DEF CallShape
<1> HIDE DEF mine
<1>5. CallsTyped'
  <2>1. call' \in [Deliverer -> CallShape(NoteSeen)]
    BY <1>2, <1>4 DEF Told, CallsTyped
  <2>2. \A e \in Deliverer : stage'[e] # "idle" => call'[e].now # 0
    BY <1>1, <1>2, <1>3, <1>4 DEF Told, CallsTyped, Rest, DeliveryInv
  <2>3. \A i \in DOMAIN deliveries' : deliveries'[i].end # 0
    BY <1>1, <1>3 DEF Told, CallsTyped
  <2> QED
    BY <1>1, <2>1, <2>2, <2>3 DEF Told, CallsTyped
<1>6. \A k : MailsOf(k)' = MailsOf(k)
  BY <1>1 DEF MailsOf
<1>7. SentNoteWasMailed'
  BY <1>1, <1>2, <1>6 DEF Told, NoteMailInv, SentNoteWasMailed
<1>8. ASSUME NEW e \in Deliverer, stage'[e] = "accepted"
      PROVE  stage[e] = "accepted" /\ call'[e] = call[e]
  BY <1>1, <1>2, <1>8 DEF Rest, DeliveryInv, Told, CallsTyped
<1>9. \A e \in Deliverer : stage'[e] = "accepted" =>
        \E i \in MailsOf(call'[e].delivery) : mailbox[i].notes = call'[e].notes
  BY <1>8 DEF Told, NoteMailInv
<1> QED
  BY <1>1, <1>5, <1>6, <1>7, <1>9 DEF Told, NoteMailInv

(* The mail handed over is made of the locals of the call. *)
MailOf(d) == [delivery |-> call[d].delivery, batches |-> call[d].batches,
              rendered |-> call[d].rendered, notes |-> call[d].notes]

LEMMA AcceptEffect ==
  ASSUME Rest, Told, NEW d \in Deliverer, stage[d] \in Sending, Accept(d) \/ UNCHANGED mailbox
  PROVE  /\ mailbox' \in Seq(Mail)
         /\ DOMAIN mailbox \subseteq DOMAIN mailbox'
         /\ \A i \in DOMAIN mailbox : mailbox'[i] = mailbox[i]
         /\ \A i \in DOMAIN mailbox' \ DOMAIN mailbox : mailbox'[i] = MailOf(d)
         /\ Accept(d) => \E i \in DOMAIN mailbox' : mailbox'[i] = MailOf(d)
<1>1. call[d] \in CallShape(NoteSeen) /\ mailbox \in Seq(Mail)
  BY DEF Told, CallsTyped
<1>2. call[d].delivery \in Nat \ {0}
  BY LenProperties DEF Rest, OpenInv, DeliveryInv
<1>3. MailOf(d) \in Mail
  BY <1>1, <1>2 DEF MailOf, Mail, CallShape
<1>4. CASE Accept(d)
  <2>1. mailbox' = Append(mailbox, MailOf(d))
    BY <1>4 DEF Accept, MailOf
  <2>2. /\ mailbox' \in Seq(Mail)
        /\ Len(mailbox) \in Nat /\ DOMAIN mailbox = 1..Len(mailbox)
        /\ DOMAIN mailbox' = 1..(Len(mailbox) + 1)
        /\ \A i \in 1..Len(mailbox) : mailbox'[i] = mailbox[i]
        /\ mailbox'[Len(mailbox) + 1] = MailOf(d)
    BY <1>1, <1>3, <2>1, AppendProperties, LenProperties
  <2> QED
    BY <2>2
<1>5. CASE UNCHANGED mailbox /\ ~Accept(d)
  BY <1>1, <1>5
<1> QED
  BY <1>4, <1>5

LEMMA ToldSend ==
  ASSUME Rest, Told, NEW d \in Deliverer, SendAccepted(d) \/ SendRaises(d)
  PROVE  Told'
<1>1. /\ stage[d] = "send"
      /\ \/ stage' = [stage EXCEPT ![d] = "accepted"] /\ Accept(d)
         \/ stage' = [stage EXCEPT ![d] = "failed"] /\ (Accept(d) \/ UNCHANGED mailbox)
      /\ UNCHANGED <<call, deliveries, notifications>>
  BY DEF SendAccepted, SendRaises, vars, storeVars
<1>2. /\ mailbox' \in Seq(Mail)
      /\ DOMAIN mailbox \subseteq DOMAIN mailbox'
      /\ \A i \in DOMAIN mailbox : mailbox'[i] = mailbox[i]
      /\ Accept(d) => \E i \in DOMAIN mailbox' : mailbox'[i] = MailOf(d)
  BY <1>1, AcceptEffect DEF Sending
<1>3. CallsTyped'
  BY <1>1, <1>2 DEF Told, CallsTyped, Rest, DeliveryInv
<1>4. \A k : MailsOf(k) \subseteq MailsOf(k)'
  BY <1>2 DEF MailsOf
<1>5. SentNoteWasMailed'
  <2>1. ASSUME NEW n \in DOMAIN notifications
        PROVE  IF notifications[n].status = "pending" THEN notifications[n].delivery = NULL
               ELSE /\ notifications[n].delivery \in DOMAIN deliveries
                    /\ deliveries[notifications[n].delivery].status = "sent"
                    /\ \E i \in MailsOf(notifications[n].delivery)' : n \in IdsOf(mailbox'[i].notes)
    <3>1. CASE notifications[n].status = "pending"
      BY <3>1 DEF Told, NoteMailInv, SentNoteWasMailed
    <3>2. CASE notifications[n].status # "pending"
      <4>1. /\ notifications[n].delivery \in DOMAIN deliveries
            /\ deliveries[notifications[n].delivery].status = "sent"
            /\ \E i \in MailsOf(notifications[n].delivery) : n \in IdsOf(mailbox[i].notes)
        BY <3>2 DEF Told, NoteMailInv, SentNoteWasMailed
      <4>2. PICK i \in MailsOf(notifications[n].delivery) : n \in IdsOf(mailbox[i].notes)
        BY <4>1
      <4>3. i \in MailsOf(notifications[n].delivery)' /\ mailbox'[i] = mailbox[i]
        BY <1>1, <1>2, <4>2 DEF MailsOf
      <4> QED
        BY <3>2, <4>1, <4>2, <4>3
    <3> QED
      BY <3>1, <3>2
  <2> QED
    BY <1>1, <2>1 DEF SentNoteWasMailed, MailsOf
<1>6. ASSUME NEW e \in Deliverer, stage'[e] = "accepted"
      PROVE  \E i \in DOMAIN mailbox' : /\ mailbox'[i].delivery = call[e].delivery
                                        /\ mailbox'[i].notes = call[e].notes
  <2>1. CASE e = d
    <3>1. Accept(d)
      BY <1>1, <1>6, <2>1 DEF Rest, DeliveryInv
    <3> QED
      BY <1>2, <2>1, <3>1 DEF MailOf
  <2>2. CASE e # d
    <3>1. stage[e] = "accepted"
      BY <1>1, <1>6, <2>2 DEF Rest, DeliveryInv
    <3> QED
      BY <1>2, <3>1 DEF Told, NoteMailInv, MailsOf
  <2> QED
    BY <2>1, <2>2
<1> QED
  BY <1>1, <1>3, <1>5, <1>6 DEF Told, NoteMailInv, MailsOf

(* The outcome is recorded: the notes of the accepted mail are ticked off  *)
(* with its delivery, or nothing is.                                       *)
LEMMA ToldOutcome ==
  ASSUME Rest, NoteInv, Told, NEW d \in Deliverer, FailDelivery(d) \/ CompleteDelivery(d)
  PROVE  Told'
<1> DEFINE k == call[d].delivery
<1>1. /\ stage[d] \in Sending /\ Quit(d) /\ UNCHANGED mailbox
      /\ \/ /\ deliveries' = [deliveries EXCEPT ![k].status = "failed"]
            /\ UNCHANGED notifications
         \/ /\ deliveries' = [deliveries EXCEPT ![k].status = "sent"]
            /\ stage[d] = "accepted"
            /\ notifications' = MarkSent(notifications, IdsOf(call[d].notes), k)
  BY DEF FailDelivery, CompleteDelivery, Sending, vars, storeVars
<1>2. cursor' \in Nat
  BY DEF FailDelivery, CompleteDelivery, Rest, DeliveryInv, CallTyped, CallShape
<1>3. /\ k \in DOMAIN deliveries /\ deliveries[k].status = "preparing"
      /\ DOMAIN deliveries' = DOMAIN deliveries
      /\ \A i \in DOMAIN deliveries : deliveries'[i].end = deliveries[i].end
      /\ \A i \in DOMAIN deliveries : i # k => deliveries'[i].status = deliveries[i].status
      /\ deliveries' = [deliveries EXCEPT ![k].status = "sent"] => deliveries'[k].status = "sent"
  <2>1. CASE deliveries' = [deliveries EXCEPT ![k].status = "failed"]
    BY <1>1, <1>2, <2>1, RecordOutcome
  <2>2. CASE deliveries' = [deliveries EXCEPT ![k].status = "sent"]
    BY <1>1, <1>2, <2>2, RecordOutcome
  <2> QED
    BY <1>1, <2>1, <2>2
<1>4. /\ stage' = [stage EXCEPT ![d] = "idle"]
      /\ call' = [call EXCEPT ![d] = NoCall]
      /\ NoCall \in CallShape(NoteSeen)
  BY <1>1 DEF Quit, NoCall, CallShape, NULL
<1>5. CallsTyped'
  BY <1>1, <1>3, <1>4 DEF Told, CallsTyped, Rest, DeliveryInv
<1>6. \A m : MailsOf(m)' = MailsOf(m)
  BY <1>1 DEF MailsOf
<1>7. \A e \in Deliverer : stage'[e] = "accepted" => stage[e] = "accepted" /\ call'[e] = call[e]
  BY <1>4 DEF Rest, DeliveryInv, Told, CallsTyped
<1>8. SentNoteWasMailed'
  <2>1. CASE UNCHANGED notifications
    <3>1. ASSUME NEW n \in DOMAIN notifications, notifications[n].status # "pending"
          PROVE  notifications[n].delivery # k
      BY <1>3, <3>1 DEF Told, NoteMailInv, SentNoteWasMailed
    <3> QED
      BY <1>1, <1>3, <1>6, <2>1, <3>1 DEF Told, NoteMailInv, SentNoteWasMailed
  <2>2. CASE ~UNCHANGED notifications
    <3>1. /\ stage[d] = "accepted" /\ deliveries'[k].status = "sent"
          /\ notifications' = MarkSent(notifications, IdsOf(call[d].notes), k)
      BY <1>1, <1>3, <2>2
    <3>2. k \in Nat \ {0}
      BY <1>3, LenProperties DEF Rest, DeliveryInv
    <3>3. /\ DOMAIN notifications' = DOMAIN notifications
          /\ \A n \in DOMAIN notifications :
               \/ /\ n \in IdsOf(call[d].notes)
                  /\ notifications'[n].status = "sent" /\ notifications'[n].delivery = k
               \/ notifications'[n] = notifications[n]
      BY <3>1, <3>2, NoteInvImplies, MarkedNotes
    <3>4. PICK i \in MailsOf(k) : mailbox[i].notes = call[d].notes
      BY <3>1 DEF Told, NoteMailInv
    <3>5. ASSUME NEW n \in DOMAIN notifications
          PROVE  IF notifications'[n].status = "pending" THEN notifications'[n].delivery = NULL
                 ELSE /\ notifications'[n].delivery \in DOMAIN deliveries
                      /\ deliveries'[notifications'[n].delivery].status = "sent"
                      /\ \E j \in MailsOf(notifications'[n].delivery) : n \in IdsOf(mailbox[j].notes)
      <4>1. CASE notifications'[n] = notifications[n]
        <5>1. notifications[n].status # "pending" => notifications[n].delivery # k
          BY <1>3 DEF Told, NoteMailInv, SentNoteWasMailed
        <5> QED
          BY <1>3, <4>1, <5>1 DEF Told, NoteMailInv, SentNoteWasMailed
      <4>2. CASE notifications'[n] # notifications[n]
        BY <1>3, <3>1, <3>3, <3>4, <4>2
      <4> QED
        BY <4>1, <4>2
    <3> QED
      BY <1>1, <1>3, <1>6, <3>3, <3>5 DEF SentNoteWasMailed, MailsOf
  <2> QED
    BY <2>1, <2>2
<1> QED
  BY <1>1, <1>5, <1>6, <1>7, <1>8 DEF Told, NoteMailInv

DNoteInv == DInv /\ NoteInv /\ Told

LEMMA ToldInit == DInit => NoteInv /\ Told
<1> SUFFICES ASSUME DInit PROVE NoteInv /\ Told
  OBVIOUS
<1>1. NoteInv
  BY NoteInit DEF DInit
<1>2. /\ deliveries = <<>> /\ mailbox = <<>> /\ notifications = <<>>
      /\ call = [d \in Deliverer |-> NoCall] /\ stage = [d \in Deliverer |-> "idle"]
  BY DEF DInit, DigestInit, Init, StoreInit
<1>3. NoCall \in CallShape(NoteSeen)
  BY DEF NoCall, CallShape, NULL
<1>4. mailbox \in Seq(Mail) /\ DOMAIN deliveries = {} /\ DOMAIN notifications = {}
  BY <1>2, EmptySeq
<1> QED
  BY <1>1, <1>2, <1>3, <1>4 DEF Told, CallsTyped, NoteMailInv, SentNoteWasMailed

LEMMA DNoteInvStep == DNoteInv /\ [DNext]_allVars => DNoteInv'
<1> SUFFICES ASSUME DNoteInv, [DNext]_allVars PROVE DNoteInv'
  OBVIOUS
<1> USE DEF DNoteInv
<1>1. DInv' /\ NoteInv'
  BY DInvStep, DNoteStep
<1>2. Types /\ ClaimInv /\ Rest /\ DeliveryInv
  BY DEF DInv, Rest
<1>3. ASSUME NEW d \in Deliverer, FailDelivery(d) \/ CompleteDelivery(d) PROVE Told'
  BY <1>2, <1>3, ToldOutcome
<1>4. ASSUME NEW d \in Deliverer, CreateDelivery(d) PROVE Told'
  BY <1>2, <1>4, ToldCreate
<1>5. ASSUME NEW d \in Deliverer, SendAccepted(d) \/ SendRaises(d) PROVE Told'
  BY <1>2, <1>5, ToldSend
<1>6. CASE ~\E d \in Deliverer : CompleteDelivery(d)
  <2>1. NotesMove
    BY <1>2, <1>6, DigestSteps, NotesMoveStep
  <2>2. ASSUME CallsMove PROVE Told'
    BY <1>2, <2>1, <2>2, ToldQuiet
  <2>3. ASSUME NEW d \in Deliverer, DeliverStep(d) PROVE Told'
    BY <1>2, <1>3, <1>4, <1>5, <2>2, <2>3, CallsMoveStep DEF DeliverStep, Told
  <2>4. CASE (\E p \in Proc : CrashAll(p)) \/ UNCHANGED digestVars
    <3>1. CallsMove
      BY <2>4, CallsMoveOther DEF Told
    <3> QED
      BY <1>1, <2>2, <3>1
  <2>5. \/ \E d \in Deliverer : DeliverStep(d)
        \/ (\E p \in Proc : CrashAll(p)) \/ UNCHANGED digestVars
    BY DEF DNext, PassStep, allVars
  <2> QED
    BY <1>1, <2>3, <2>4, <2>5
<1> QED
  BY <1>1, <1>3, <1>6

LEMMA DNoteInvHolds == DSpec => []DNoteInv
<1>1. DInit => DNoteInv
  BY DInvInit, ToldInit DEF DNoteInv
<1> QED
  BY <1>1, DNoteInvStep, PTL DEF DSpec

(* The tables the digest adds, the locals of deliver and the history keep  *)
(* their types, and so does all that it shares with the summariser.        *)
THEOREM DigestTypeCorrect == DSpec => []DTypeOK
<1>1. DNoteInv => DTypeOK
  <2> SUFFICES ASSUME DNoteInv PROVE DTypeOK
    OBVIOUS
  <2>1. TypeOK
    BY NoteInvImplies DEF DNoteInv, DInv, Types, TypeOK
  <2>2. CallTypeOK
    BY DEF DNoteInv, DInv, DeliveryInv, Told, CallsTyped, CallTypeOK, CallShape
  <2>3. deliveries \in Seq(DeliveryRow)
    <3>1. /\ Len(deliveries) \in Nat /\ DOMAIN deliveries = 1..Len(deliveries)
          /\ \A i \in DOMAIN deliveries : deliveries[i] \in DeliveryRecord
          /\ deliveries = [i \in DOMAIN deliveries |-> deliveries[i]]
      BY ElementOfSeq, LenProperties DEF DNoteInv, DInv, DeliveryInv
    <3>2. \A i \in DOMAIN deliveries : deliveries[i] \in DeliveryRow
      BY <3>1 DEF DNoteInv, Told, CallsTyped, DeliveryRecord, DeliveryRow, Status
    <3>3. deliveries \in [1..Len(deliveries) -> DeliveryRow]
      BY <3>1, <3>2
    <3> QED
      BY <3>1, <3>3, SeqDef
  <2> QED
    BY <2>1, <2>2, <2>3 DEF DNoteInv, DInv, DeliveryInv, Told, CallsTyped, DTypeOK
<1> QED
  BY <1>1, DNoteInvHolds, PTL

(* A notification is ticked off only with a delivery that is recorded as   *)
(* sent and for which a mail that shows it was accepted, although a later  *)
(* summary may set it back to "pending" at any moment between the read and *)
(* complete_delivery.                                                      *)
THEOREM NoNoteTickedOffUnmailed == DSpec => []SentNoteWasMailed
<1>1. DNoteInv => SentNoteWasMailed
  BY DEF DNoteInv, Told, NoteMailInv
<1> QED
  BY <1>1, DNoteInvHolds, PTL

(* What the summariser promises of summaries and notifications holds with  *)
(* the digest and complete_delivery at work on the same tables.            *)
THEOREM DigestKeepsClaims == DSpec => [](ClaimsMatchSummaries /\ SummarisedOnce /\ OneNotificationPerKey)
<1>1. DNoteInv => ClaimsMatchSummaries /\ SummarisedOnce /\ OneNotificationPerKey
  BY NoteInvImplies, ClaimInvImplies DEF DNoteInv, DInv, ClaimInv
<1> QED
  BY <1>1, DNoteInvHolds, PTL

-----------------------------------------------------------------------------
(* What the reader gets.  While no subscription changes the type of a      *)
(* group, a summary is rendered by the schema it was written for, and then *)
(* whatever it says is in the text.                                        *)
SubscriptionsKeepTypes ==
  \A typeOf \in Subscriptions : \A g \in DOMAIN typeOf : typeOf[g] = InitialType[g]

FixedTypes ==
  /\ \A g \in Group : groups[g].type = InitialType[g]
  /\ \A w \in Worker : pc[w] \in {"messages", "llm"} => kind[w] = InitialType[Current(w)]
  /\ \A b \in DOMAIN batches :
       /\ batches[b].kind = InitialType[batches[b].group]
       /\ batches[b].content = "overview" => batches[b].kind # "course"

SaysSomething(b) == b \in DOMAIN batches /\ batches[b].content # "nothing"

AllShown ==
  /\ \A d \in Deliverer : \A b \in call[d].batches : SaysSomething(b) => b \in call[d].rendered
  /\ \A i \in DOMAIN mailbox : \A b \in mailbox[i].batches : SaysSomething(b) => b \in mailbox[i].rendered

LEMMA PendingRendered ==
  ASSUME Types, FixedTypes, NEW b \in PendingBatches, SaysSomething(b)
  PROVE  Rendered(b)
<1>1. b \in DOMAIN batches /\ batches[b] \in BatchRow(Proc)
  BY ElementOfSeq, LenProperties DEF Types, StoreTypeOK, PendingBatches
<1>2. batches[b].group \in Group /\ batches[b].content \in {"overview", "details"}
  BY <1>1 DEF BatchRow, Content, SaysSomething
<1> QED
  BY <1>1, <1>2 DEF FixedTypes, Rendered

LEMMA FixedInit == DInit => FixedTypes /\ AllShown
<1> SUFFICES ASSUME DInit PROVE FixedTypes /\ AllShown
  OBVIOUS
<1>1. FixedTypes
  BY DEF DInit, Init, StoreInit, SummarizerInit, FixedTypes
<1>2. AllShown
  BY DEF DInit, DigestInit, NoCall, AllShown
<1> QED
  BY <1>1, <1>2

(* A step of Summarizer that saves nothing. *)
LEMMA FixedQuiet ==
  ASSUME FixedTypes, UNCHANGED batches,
         \A g \in Group : groups'[g].type = groups[g].type,
         \A w \in Worker : pc'[w] \in {"messages", "llm"} =>
           \/ pc[w] \in {"messages", "llm"} /\ todo'[w] = todo[w] /\ kind'[w] = kind[w]
           \/ kind'[w] = InitialType[Current(w)']
  PROVE  FixedTypes'
<1>1. \A w \in Worker : todo'[w] = todo[w] => Current(w)' = Current(w)
  BY DEF Current
<1> QED
  BY <1>1 DEF FixedTypes

LEMMA FixedSave ==
  ASSUME Types, FixedTypes, NEW w \in Worker, Save(w)
  PROVE  FixedTypes'
<1> DEFINE row(content) == [group |-> Current(w), by |-> ProcOf[w], shown |-> shown[w],
                            kind |-> kind[w], content |-> content,
                            status |-> "pending", delivery |-> NULL]
           new == Len(batches) + 1
<1>1. PICK content \in Says(w) : batches' = Append(batches, row(content))
  BY DEF Save, SaveSummaryBatch
<1>2. /\ row(content).group = Current(w) /\ row(content).kind = kind[w]
      /\ row(content).content = content
  OBVIOUS
<1>3. IsSequence(batches)
  BY DEF IsSequence, Types, StoreTypeOK
<1> HIDE DEF row
<1>4. /\ DOMAIN batches = 1..Len(batches) /\ DOMAIN batches' = 1..new
      /\ \A b \in DOMAIN batches : batches'[b] = batches[b]
      /\ batches'[new] = row(content) /\ Len(batches) \in Nat
  BY <1>1, <1>3, AppendToSeq
<1>5. kind[w] = InitialType[Current(w)] /\ (content = "overview" => kind[w] # "course")
  BY <1>1 DEF Save, FixedTypes, Says
<1>6. \A b \in DOMAIN batches' :
        /\ batches'[b].kind = InitialType[batches'[b].group]
        /\ batches'[b].content = "overview" => batches'[b].kind # "course"
  <2>1. \A b \in DOMAIN batches' : b \in DOMAIN batches \/ b = new
    BY <1>4
  <2> QED
    BY <1>2, <1>4, <1>5, <2>1 DEF FixedTypes
<1>7. /\ groups' = groups
      /\ \A v \in Worker : pc'[v] \in {"messages", "llm"} =>
           pc[v] \in {"messages", "llm"} /\ todo'[v] = todo[v] /\ kind'[v] = kind[v]
  BY DEF Save, SaveSummaryBatch, Types, WorkerTypeOK
<1>8. \A v \in Worker : todo'[v] = todo[v] => Current(v)' = Current(v)
  BY DEF Current
<1> QED
  BY <1>6, <1>7, <1>8 DEF FixedTypes

LEMMA FixedStep ==
  ASSUME SubscriptionsKeepTypes, Types, FixedTypes, [Next]_vars \/ \E p \in Proc : Forget(p)
  PROVE  FixedTypes'
<1> USE DEF Types, WorkerTypeOK
<1>1. ASSUME NEW w \in Worker, Request(w) \/ Enter(w) \/ NotDue(w) \/ Due(w) PROVE FixedTypes'
  BY <1>1, FixedQuiet DEF Request, Enter, NotDue, Due, storeVars
<1>2. ASSUME NEW w \in Worker, GetGroup(w) PROVE FixedTypes'
  <2>1. /\ UNCHANGED <<groups, batches, todo>>
        /\ kind' = [kind EXCEPT ![w] = groups[Current(w)].type]
        /\ pc' = [pc EXCEPT ![w] = "messages"]
    BY <1>2 DEF GetGroup, storeVars
  <2>2. Current(w) \in Group
    BY <1>2, CurrentInTodo DEF GetGroup
  <2>3. Current(w)' = Current(w)
    BY <2>1 DEF Current
  <2>4. kind'[w] = InitialType[Current(w)']
    BY <2>1, <2>2, <2>3 DEF FixedTypes
  <2>5. \A v \in Worker \ {w} : pc'[v] = pc[v] /\ todo'[v] = todo[v] /\ kind'[v] = kind[v]
    BY <2>1
  <2> QED
    BY <2>1, <2>4, <2>5, FixedQuiet
<1>3. ASSUME NEW w \in Worker, Finish(w) \/ Abort(w) PROVE FixedTypes'
  BY <1>3, FixedQuiet DEF Finish, Abort, Leave, storeVars
<1>4. ASSUME NEW p \in Proc, Forget(p) PROVE FixedTypes'
  BY <1>4, FixedQuiet DEF Forget, storeVars
<1>5. ASSUME NEW typeOf \in Subscriptions, Subscribe(typeOf) PROVE FixedTypes'
  <2>1. UNCHANGED batches /\ UNCHANGED <<pc, todo, kind>>
    BY <1>5 DEF Subscribe, ReplaceGroupSubscriptions, workerVars
  <2>2. \A g \in Group : groups[g] \in GroupRow
    BY DEF StoreTypeOK
  <2>3. \A g \in Group : groups'[g].type = groups[g].type
    <3>1. \A g \in DOMAIN typeOf : typeOf[g] = InitialType[g]
      BY DEF SubscriptionsKeepTypes
    <3>2. \A g \in Group : groups'[g] = IF g \in DOMAIN typeOf
            THEN [groups[g] EXCEPT !.enabled = TRUE, !.type = typeOf[g]]
            ELSE [groups[g] EXCEPT !.enabled = FALSE]
      BY <1>5 DEF Subscribe, ReplaceGroupSubscriptions
    <3> QED
      BY <2>2, <3>1, <3>2 DEF FixedTypes, GroupRow
  <2> QED
    BY <2>1, <2>3, FixedQuiet
<1>6. ASSUME \/ \E g \in Group : Activity(g)
             \/ \E listed \in Catalogues : SyncGroups(listed)
      PROVE  FixedTypes'
  <2>1. UNCHANGED batches /\ UNCHANGED <<pc, todo, kind>>
    BY <1>6 DEF Activity, SyncGroups, RecordGroupActivity, SyncAvailableGroups, workerVars
  <2>2. \A g \in Group : groups[g] \in GroupRow
    BY DEF StoreTypeOK
  <2>3. \A g \in Group : \E v : groups'[g] = [groups[g] EXCEPT !.available = v]
    <3>1. CASE \E g \in Group : Activity(g)
      <4>1. PICK h \in Group : groups' = [groups EXCEPT ![h].available = TRUE]
        BY <3>1 DEF Activity, RecordGroupActivity
      <4>2. groups'[h] = [groups[h] EXCEPT !.available = TRUE]
        BY <4>1 DEF StoreTypeOK
      <4>3. \A g \in Group \ {h} : groups'[g] = [groups[g] EXCEPT !.available = groups[g].available]
        BY <2>2, <4>1 DEF StoreTypeOK, GroupRow
      <4> QED
        BY <4>2, <4>3
    <3>2. CASE \E listed \in Catalogues : SyncGroups(listed)
      BY <3>2 DEF SyncGroups, SyncAvailableGroups
    <3> QED
      BY <1>6, <3>1, <3>2
  <2>4. \A g \in Group : groups'[g].type = groups[g].type
    BY <2>2, <2>3 DEF GroupRow
  <2> QED
    BY <2>1, <2>4, FixedQuiet
<1>7. ASSUME \/ \E m \in Message : Ingest(m)
             \/ \E before \in Cutoffs : Cleanup(before)
             \/ UNCHANGED vars
      PROVE  FixedTypes'
  <2>1. UNCHANGED <<groups, batches, pc, todo, kind>>
    BY <1>7 DEF Ingest, Cleanup, InsertMessage, CleanupSummarizedMessages, vars, storeVars, workerVars
  <2> QED
    BY <2>1, FixedQuiet
<1>8. ASSUME NEW w \in Worker, WorkerStep(w) PROVE FixedTypes'
  BY <1>1, <1>2, <1>3, <1>8, FixedSave DEF WorkerStep
<1> QED
  BY <1>4, <1>5, <1>6, <1>7, <1>8 DEF Next, Environment, Crash

(* Marking a summary leaves its group, its schema and what it says alone.  *)
LEMMA MarkKeepsContent ==
  ASSUME StoreTypeOK, NEW ids, NEW delivery, batches' = MarkSent(batches, ids, delivery)
  PROVE  /\ DOMAIN batches' = DOMAIN batches
         /\ \A b \in DOMAIN batches : /\ batches'[b].group = batches[b].group
                                      /\ batches'[b].kind = batches[b].kind
                                      /\ batches'[b].content = batches[b].content
<1>1. \A b \in DOMAIN batches : batches[b] \in BatchRow(Proc)
  BY LenProperties, ElementOfSeq DEF StoreTypeOK
<1>2. /\ DOMAIN batches' = DOMAIN batches
      /\ \A b \in DOMAIN batches : batches'[b] =
           IF b \in ids /\ batches[b].status = "pending"
           THEN [batches[b] EXCEPT !.status = "sent", !.delivery = delivery] ELSE batches[b]
  BY DEF MarkSent
<1>3. \A row \in BatchRow(Proc) :
        LET marked == [row EXCEPT !.status = "sent", !.delivery = delivery]
        IN  marked.group = row.group /\ marked.kind = row.kind /\ marked.content = row.content
  BY DEF BatchRow
<1> QED
  BY <1>1, <1>2, <1>3

(* A summary that is known keeps what it says. *)
LEMMA SaysKept ==
  ASSUME \A b \in DOMAIN batches :
           b \in DOMAIN batches' /\ batches'[b].content = batches[b].content,
         NEW b \in DOMAIN batches
  PROVE  SaysSomething(b)' <=> SaysSomething(b)
BY DEF SaysSomething

LEMMA ShownStep ==
  ASSUME SubscriptionsKeepTypes, DNoteInv, FixedTypes, AllShown, [DNext]_allVars
  PROVE  FixedTypes' /\ AllShown'
<1> USE DEF DNoteInv, DInv
<1>1. ASSUME NEW d \in Deliverer, CompleteDelivery(d) PROVE FixedTypes'
  <2>1. /\ batches' = MarkSent(batches, call[d].batches, call[d].delivery)
        /\ UNCHANGED <<groups, pc, todo, kind>>
    BY <1>1 DEF CompleteDelivery, workerVars
  <2>2. \A w \in Worker : Current(w)' = Current(w)
    BY <2>1 DEF Current
  <2> QED
    BY <2>1, <2>2, MarkKeepsContent DEF FixedTypes, Types
<1>2. FixedTypes'
  BY <1>1, DigestSteps, FixedStep
<1>3. \A b \in DOMAIN batches :
        b \in DOMAIN batches' /\ batches'[b].content = batches[b].content
  <2>1. CASE \E d \in Deliverer : CompleteDelivery(d)
    BY <2>1, MarkKeepsContent DEF CompleteDelivery, Types
  <2>2. CASE ~\E d \in Deliverer : CompleteDelivery(d)
    BY <2>2, DigestSteps, GrowStep DEF BatchesGrow
  <2> QED
    BY <2>1, <2>2
<1>4. /\ \A d \in Deliverer : call[d].batches \subseteq DOMAIN batches
      /\ \A i \in DOMAIN mailbox : mailbox[i].batches \subseteq DOMAIN batches
  BY DEF KnownBatches
<1>5. /\ \A d \in Deliverer : \A b \in call[d].batches : SaysSomething(b)' => b \in call[d].rendered
      /\ \A i \in DOMAIN mailbox : \A b \in mailbox[i].batches : SaysSomething(b)' => b \in mailbox[i].rendered
  BY <1>3, <1>4, SaysKept DEF AllShown
<1>6. ASSUME NEW d \in Deliverer, SendAccepted(d) \/ SendRaises(d) PROVE AllShown'
  <2>1. /\ stage[d] \in Sending /\ (Accept(d) \/ UNCHANGED mailbox) /\ UNCHANGED call
    BY <1>6 DEF SendAccepted, SendRaises, Sending
  <2>2. /\ \A i \in DOMAIN mailbox : mailbox'[i] = mailbox[i]
        /\ \A i \in DOMAIN mailbox' \ DOMAIN mailbox : mailbox'[i] = MailOf(d)
    BY <2>1, AcceptEffect DEF Rest
  <2>3. MailOf(d).batches = call[d].batches /\ MailOf(d).rendered = call[d].rendered
    BY DEF MailOf
  <2> QED
    BY <1>5, <2>1, <2>2, <2>3 DEF AllShown
<1>7. ASSUME UNCHANGED mailbox,
             \A e \in Deliverer :
               \/ call'[e].batches = {}
               \/ call'[e].batches = call[e].batches /\ call'[e].rendered = call[e].rendered
               \/ /\ call'[e].batches = PendingBatches
                  /\ call'[e].rendered = {b \in PendingBatches : Rendered(b)}
      PROVE  AllShown'
  <2>1. \A b \in PendingBatches : SaysSomething(b)' => Rendered(b)
    <3>1. PendingBatches \subseteq DOMAIN batches
      BY DEF PendingBatches
    <3> QED
      BY <1>3, <3>1, SaysKept, PendingRendered
  <2> QED
    BY <1>5, <1>7, <2>1 DEF AllShown
<1>8. ASSUME NEW d \in Deliverer, FailDelivery(d) \/ CompleteDelivery(d) PROVE AllShown'
  <2>1. UNCHANGED mailbox /\ call' = [call EXCEPT ![d] = NoCall] /\ NoCall.batches = {}
    BY <1>8 DEF FailDelivery, CompleteDelivery, Quit, NoCall
  <2>2. \A e \in Deliverer : call'[e].batches = {} \/ call'[e] = call[e]
    BY <2>1 DEF Told, CallsTyped
  <2> QED
    BY <1>7, <2>1, <2>2
<1>9. ASSUME NEW d \in Deliverer, CreateDelivery(d) PROVE AllShown'
  <2> DEFINE mine == [call[d] EXCEPT !.delivery = Len(deliveries) + 1]
  <2>1. UNCHANGED mailbox /\ call' = [call EXCEPT ![d] = mine]
    BY <1>9 DEF CreateDelivery
  <2>2. mine.batches = call[d].batches /\ mine.rendered = call[d].rendered
    <3>1. call[d] \in CallShape(NoteSeen)
      BY DEF Told, CallsTyped
    <3> QED
      BY <3>1 DEF CallShape
  <2> HIDE DEF mine
  <2>3. \A e \in Deliverer : call'[e].batches = call[e].batches /\ call'[e].rendered = call[e].rendered
    BY <2>1, <2>2 DEF Told, CallsTyped
  <2> QED
    BY <1>7, <2>1, <2>3
<1>10. ASSUME CallsMove PROVE AllShown'
  BY <1>7, <1>10 DEF CallsMove
<1>11. ASSUME NEW d \in Deliverer, DeliverStep(d) PROVE AllShown'
  BY <1>6, <1>8, <1>9, <1>10, <1>11, CallsMoveStep DEF DeliverStep, Told
<1>12. CASE (\E p \in Proc : CrashAll(p)) \/ UNCHANGED digestVars
  <2>1. CallsMove
    BY <1>12, CallsMoveOther DEF Told
  <2> QED
    BY <1>2, <1>10, <2>1
<1>13. \/ \E d \in Deliverer : DeliverStep(d)
       \/ (\E p \in Proc : CrashAll(p)) \/ UNCHANGED digestVars
  BY DEF DNext, PassStep, allVars
<1> QED
  BY <1>2, <1>11, <1>12, <1>13

(* A summary that says something and is ticked off was in the text of an   *)
(* accepted mail, as long as the subscriptions keep the type of a group:   *)
(* render_digest then looks at the fields the summary has.  Without the    *)
(* hypothesis MCTypeChange.cfg shows a summary that is ticked off unseen.  *)
THEOREM TickedOffWasShown == ASSUME SubscriptionsKeepTypes PROVE DSpec => []SentWasShown
<1>1. DInit => DNoteInv /\ FixedTypes /\ AllShown
  BY DInvInit, ToldInit, FixedInit DEF DNoteInv
<1>2. DNoteInv /\ FixedTypes /\ AllShown /\ [DNext]_allVars => (DNoteInv /\ FixedTypes /\ AllShown)'
  BY DNoteInvStep, ShownStep
<1>3. DNoteInv /\ AllShown => SentWasShown
  <2> SUFFICES ASSUME DNoteInv, AllShown, NEW b \in DOMAIN batches,
                      batches[b].status = "sent", batches[b].content # "nothing"
               PROVE  \E i \in DOMAIN mailbox : b \in mailbox[i].rendered
    BY DEF SentWasShown
  <2>1. PICK i \in MailsOf(batches[b].delivery) : b \in mailbox[i].batches
    BY DEF DNoteInv, DInv, SentWasMailed
  <2> QED
    BY <2>1 DEF AllShown, SaysSomething, MailsOf
<1> QED
  BY <1>1, <1>2, <1>3, PTL DEF DSpec

-----------------------------------------------------------------------------
(* Action properties of the digest's tables, for any set of deliverers.    *)

LEMMA OutcomeStep ==
  ASSUME DInv, [DNext]_allVars
  PROVE  \A i \in DOMAIN deliveries :
           /\ i \in DOMAIN deliveries'
           /\ deliveries'[i].start = deliveries[i].start /\ deliveries'[i].end = deliveries[i].end
           /\ deliveries'[i].status # deliveries[i].status =>
                deliveries[i].status = "preparing" /\ deliveries'[i].status \in {"sent", "failed"}
<1> USE DEF DInv
<1>1. ASSUME NEW d \in Deliverer, NEW outcome \in {"sent", "failed"}, stage[d] \in Sending,
             deliveries' = [deliveries EXCEPT ![call[d].delivery].status = outcome]
      PROVE  \A i \in DOMAIN deliveries :
               /\ i \in DOMAIN deliveries'
               /\ deliveries'[i].start = deliveries[i].start /\ deliveries'[i].end = deliveries[i].end
               /\ deliveries'[i].status # deliveries[i].status =>
                    deliveries[i].status = "preparing" /\ deliveries'[i].status \in {"sent", "failed"}
  <2> DEFINE k == call[d].delivery
             row == [deliveries[k] EXCEPT !.status = outcome]
  <2>1. k \in DOMAIN deliveries /\ deliveries[k].status = "preparing"
    BY <1>1 DEF OpenInv
  <2>2. deliveries[k] \in DeliveryRecord
    BY <2>1, ElementOfSeq, LenProperties DEF DeliveryInv
  <2>3. row.start = deliveries[k].start /\ row.end = deliveries[k].end /\ row.status = outcome
    BY <2>2 DEF DeliveryRecord
  <2>4. deliveries' = [deliveries EXCEPT ![k] = row]
    BY <1>1
  <2> HIDE DEF k, row
  <2> QED
    BY <2>1, <2>3, <2>4
<1>2. CASE \E d \in Deliverer : FailDelivery(d)
  BY <1>1, <1>2 DEF FailDelivery, Sending
<1>3. CASE \E d \in Deliverer : CompleteDelivery(d)
  BY <1>1, <1>3 DEF CompleteDelivery, Sending
<1>4. CASE \E d \in Deliverer : CreateDelivery(d)
  BY <1>4, CreateEffect
<1>5. ASSUME NEW d \in Deliverer,
             DeliverStep(d), ~FailDelivery(d), ~CompleteDelivery(d), ~CreateDelivery(d)
      PROVE  UNCHANGED deliveries
  BY <1>5 DEF DeliverStep, Start, Summarized, PassFailed, ReadBatches, ReadNotifications,
              ReadCursor, SendAccepted, SendRaises, StoreRaises
<1>6. CASE UNCHANGED deliveries
  BY <1>6
<1> QED
  BY <1>2, <1>3, <1>4, <1>5, <1>6 DEF DNext, PassStep, CrashAll, digestVars, allVars

(* A summary pass only adds summaries and announces or keeps entries;      *)
(* complete_delivery touches pending rows only.                            *)
LEMMA TickedStep ==
  ASSUME DNoteInv, [DNext]_allVars
  PROVE  /\ \A b \in DOMAIN batches : batches[b].status = "sent" =>
              b \in DOMAIN batches' /\ batches'[b] = batches[b]
         /\ \A n \in DOMAIN notifications : notifications[n].status = "sent" =>
              /\ n \in DOMAIN notifications'
              /\ \/ /\ notifications'[n].status = "sent"
                    /\ notifications'[n].delivery = notifications[n].delivery
                 \/ notifications'[n].status = "pending" /\ notifications'[n].delivery = NULL
<1>1. Types /\ ClaimInv /\ NoteInv
  BY DEF DNoteInv, DInv
<1>2. CASE [Next]_vars \/ \E p \in Proc : Forget(p)
  <2>1. BatchesGrow
    BY <1>1, <1>2, GrowStep
  <2>2. NotesMove /\ Grown(notifications', notifications)
    BY <1>1, <1>2, NotesMoveStep, NotesGrowStep
  <2> QED
    BY <2>1, <2>2 DEF BatchesGrow, NotesMove, Moved, IsFresh, Grown
<1>3. ASSUME NEW d \in Deliverer, CompleteDelivery(d)
      PROVE  /\ \A b \in DOMAIN batches : batches[b].status = "sent" =>
                  b \in DOMAIN batches' /\ batches'[b] = batches[b]
             /\ \A n \in DOMAIN notifications : notifications[n].status = "sent" =>
                  n \in DOMAIN notifications' /\ notifications'[n] = notifications[n]
  <2>1. /\ batches' = MarkSent(batches, call[d].batches, call[d].delivery)
        /\ notifications' = MarkSent(notifications, IdsOf(call[d].notes), call[d].delivery)
        /\ stage[d] \in Sending
    BY <1>3 DEF CompleteDelivery, Sending
  <2>2. call[d].delivery \in Nat
    BY <2>1, LenProperties DEF DNoteInv, DInv, OpenInv, DeliveryInv
  <2>3. notifications \in Seq(NotificationRow) /\ StoreTypeOK
    BY <1>1, NoteInvImplies DEF Types
  <2> QED
    BY <2>1, <2>2, <2>3, MarkedBatches, MarkedNotes
<1> QED
  BY <1>2, <1>3, DigestSteps

(* The window and the outcome of a delivery, once recorded, are never      *)
(* written again: complete_delivery and fail_delivery write the row of     *)
(* their own call, which nobody else has.  A row that an earlier mail      *)
(* ticked off is not taken over by a later one, although both may have     *)
(* read it while it was pending: the second UPDATE finds it sent.          *)
THEOREM RecordsAreFinal == DSpec => OutcomesAreFinal
<1> DEFINE Final ==
      /\ \A i \in DOMAIN deliveries :
           /\ i \in DOMAIN deliveries'
           /\ deliveries'[i].start = deliveries[i].start /\ deliveries'[i].end = deliveries[i].end
           /\ deliveries'[i].status # deliveries[i].status =>
                deliveries[i].status = "preparing" /\ deliveries'[i].status \in {"sent", "failed"}
      /\ \A b \in DOMAIN batches : batches[b].status = "sent" =>
           b \in DOMAIN batches' /\ batches'[b] = batches[b]
      /\ \A n \in DOMAIN notifications : notifications[n].status = "sent" =>
           /\ n \in DOMAIN notifications'
           /\ \/ notifications'[n].status = "sent" /\ notifications'[n].delivery = notifications[n].delivery
              \/ notifications'[n].status = "pending" /\ notifications'[n].delivery = NULL
<1>1. DNoteInv /\ [DNext]_allVars => [Final]_allVars
  <2> SUFFICES ASSUME DNoteInv, [DNext]_allVars PROVE Final
    OBVIOUS
  <2>1. DInv
    BY DEF DNoteInv
  <2> QED
    BY <2>1, OutcomeStep, TickedStep
<1> QED
  BY <1>1, DNoteInvHolds, PTL DEF DSpec, OutcomesAreFinal

(* Ticking off changes nothing of what a notification says. *)
LEMMA MarkGrows ==
  ASSUME notifications \in Seq(NotificationRow), NEW ids, NEW delivery
  PROVE  Grown(MarkSent(notifications, ids, delivery), notifications)
<1>1. \A n \in DOMAIN notifications : notifications[n] \in NotificationRow
  BY ElementOfSeq, LenProperties
<1>2. ASSUME NEW n \in DOMAIN notifications
      PROVE  Extends(MarkSent(notifications, ids, delivery)[n], notifications[n])
  <2>1. CASE n \in ids /\ notifications[n].status = "pending"
    <3>1. MarkSent(notifications, ids, delivery)[n] =
            [notifications[n] EXCEPT !.status = "sent", !.delivery = delivery]
      BY <2>1 DEF MarkSent
    <3> QED
      BY <1>1, <3>1 DEF Extends, NotificationRow
  <2>2. CASE ~(n \in ids /\ notifications[n].status = "pending")
    BY <2>2, ExtendsItself DEF MarkSent
  <2> QED
    BY <2>1, <2>2
<1> QED
  BY <1>2 DEF Grown, MarkSent

(* Also with the digest ticking off what it mailed, an entry gets a new    *)
(* text as its update only together with being pending.  It is complete    *)
(* delivery and the merge that must agree here: whichever runs second, a   *)
(* text that was merged into a sent entry is not counted as mailed.        *)
THEOREM DigestKeepsNewTextPending == DSpec => UpdatesAreAnnounced
<1>1. DNoteInv /\ [DNext]_allVars => Grown(notifications', notifications)
  <2> SUFFICES ASSUME DNoteInv, [DNext]_allVars PROVE Grown(notifications', notifications)
    OBVIOUS
  <2>1. Types /\ ClaimInv /\ NoteInv
    BY DEF DNoteInv, DInv
  <2>2. CASE [Next]_vars \/ \E p \in Proc : Forget(p)
    BY <2>1, <2>2, NotesGrowStep
  <2>3. CASE \E d \in Deliverer : CompleteDelivery(d)
    BY <2>1, <2>3, NoteInvImplies, MarkGrows DEF CompleteDelivery
  <2> QED
    BY <2>2, <2>3, DigestSteps
<1>2. Grown(notifications', notifications) =>
        [\A n \in DOMAIN notifications : /\ n \in DOMAIN notifications'
                                         /\ Extends(notifications'[n], notifications[n])]_vars
  BY DEF Grown
<1> QED
  BY <1>1, <1>2, DNoteInvHolds, PTL DEF DSpec, UpdatesAreAnnounced

-----------------------------------------------------------------------------
(* The promise of Lifecycle is enough: its steps alone keep LifecycleOK,   *)
(* so everything that implements it, Digest for one, does so too.          *)

LEMMA PromiseKeepsStates ==
  ASSUME Promise!LifecycleOK, [Promise!LNext]_(Promise!lvars)
  PROVE  Promise!LifecycleOK'
<1> DEFINE OK == /\ WaitingRows \cap SummarisedRows = {}
                 /\ WaitingRows \cap SentRows = {}
                 /\ SummarisedRows \cap SentRows = {}
                 /\ SentRows \subseteq MailedRows
                 /\ MailedRows \subseteq SummarisedRows \cup SentRows
<1>0. (Promise!LifecycleOK <=> OK) /\ (Promise!LifecycleOK <=> OK)'
  BY DEF Promise!LifecycleOK, WaitingRows, SummarisedRows, SentRows, MailedRows, MailedBatches
<1>1. ASSUME NEW m \in 1..MaxRows, Promise!Receive(m) PROVE OK'
  <2>1. /\ m \notin WaitingRows \cup SummarisedRows \cup SentRows
        /\ WaitingRows' = WaitingRows \cup {m}
        /\ UNCHANGED <<SummarisedRows, SentRows, MailedRows>>
    BY <1>1 DEF Promise!Receive, WaitingRows, SummarisedRows, SentRows, MailedRows, MailedBatches
  <2> QED
    BY <1>0, <2>1
<1>2. ASSUME NEW S, Promise!Summarise(S) PROVE OK'
  <2>1. /\ S \subseteq WaitingRows
        /\ WaitingRows' = WaitingRows \ S /\ SummarisedRows' = SummarisedRows \cup S
        /\ UNCHANGED <<SentRows, MailedRows>>
    BY <1>2 DEF Promise!Summarise, WaitingRows, SummarisedRows, SentRows, MailedRows, MailedBatches
  <2> QED
    BY <1>0, <2>1
<1>3. ASSUME NEW S, Promise!Mail(S) PROVE OK'
  <2>1. /\ S \subseteq SummarisedRows \cup SentRows
        /\ MailedRows' = MailedRows \cup S
        /\ UNCHANGED <<WaitingRows, SummarisedRows, SentRows>>
    BY <1>3 DEF Promise!Mail, WaitingRows, SummarisedRows, SentRows, MailedRows, MailedBatches
  <2> QED
    BY <1>0, <2>1
<1>4. ASSUME NEW S, Promise!TickOff(S) PROVE OK'
  <2>1. /\ S \subseteq SummarisedRows \cap MailedRows
        /\ SummarisedRows' = SummarisedRows \ S /\ SentRows' = SentRows \cup S
        /\ UNCHANGED <<WaitingRows, MailedRows>>
    BY <1>4 DEF Promise!TickOff, WaitingRows, SummarisedRows, SentRows, MailedRows, MailedBatches
  <2> QED
    BY <1>0, <2>1
<1>5. CASE UNCHANGED Promise!lvars
  <2>1. UNCHANGED <<WaitingRows, SummarisedRows, SentRows, MailedRows>>
    BY <1>5 DEF Promise!lvars, WaitingRows, SummarisedRows, SentRows, MailedRows, MailedBatches
  <2> QED
    BY <1>0, <2>1
<1> HIDE DEF OK
<1> QED
  BY <1>0, <1>1, <1>2, <1>3, <1>4, <1>5 DEF Promise!LNext

(* A stored message waits, is in a summary that waits, or is in one that   *)
(* is ticked off, never in two of these; only summarised messages are      *)
(* mailed, and none is ticked off that was not.                            *)
THEOREM OneStateAtATime == DSpec => []Promise!LifecycleOK
<1>1. Promise!LInit => Promise!LifecycleOK
  BY DEF Promise!LInit, Promise!LifecycleOK
<1> QED
  BY <1>1, PromiseKeepsStates, DigestKeepsPromise, PTL DEF KeepsPromise, Promise!LSpec
=============================================================================
