-------------------------- MODULE OneDelivererProofs --------------------------
(***************************************************************************)
(* What holds of the delivery history as long as no two calls of deliver   *)
(* overlap, for every set of groups, messages, processes and workers.      *)
(* MCTwoDeliverers.cfg shows what becomes of it when they do.              *)
(***************************************************************************)
EXTENDS DigestProofs

OneDeliverer == \A d, e \in Deliverer : d = e

(* A call under way took its time after the cursor was written, opens its  *)
(* delivery where the cursor is, and then has the last delivery.           *)
WindowInv ==
  \A d \in Deliverer :
    /\ stage[d] # "idle" => cursor < call[d].now
    /\ stage[d] = "create" => call[d].start = cursor
    /\ stage[d] \in Sending => /\ deliveries[call[d].delivery].start = cursor
                               /\ call[d].delivery = Len(deliveries)

(* A call has read what is pending and nobody ticks it off meanwhile; the  *)
(* mails of recorded deliveries are ticked off, and an open delivery has   *)
(* at most the last mail.                                                  *)
MailInv ==
  /\ \A i \in DOMAIN mailbox :
       /\ mailbox[i].delivery \in DOMAIN deliveries
       /\ deliveries[mailbox[i].delivery].status = "sent" =>
            \A b \in mailbox[i].batches : batches[b].status = "sent"
  /\ \A d \in Deliverer :
       /\ call[d].batches \subseteq PendingBatches
       /\ stage[d] = "send" => MailsOf(call[d].delivery) = {}
       /\ stage[d] \in Sending => \A i \in MailsOf(call[d].delivery) :
                                    i = Len(mailbox) /\ mailbox[i].batches = call[d].batches

OneInv == WindowInv /\ WindowsJoinUp /\ MailInv /\ RepeatedOnlyIfUnacknowledged

-----------------------------------------------------------------------------
(* Steps that neither open nor close a delivery nor hand over a mail: what *)
(* they may do to the locals of the calls.                                 *)
QuietCalls ==
  /\ UNCHANGED <<deliveries, mailbox, cursor>>
  /\ \A e \in Deliverer :
       /\ call'[e].batches \subseteq call[e].batches \cup PendingBatches
       /\ stage'[e] # "idle" => \/ cursor < call'[e].now
                                \/ stage[e] # "idle" /\ call'[e].now = call[e].now
       /\ stage'[e] = "create" => \/ call'[e].start = cursor
                                  \/ stage[e] = "create" /\ call'[e].start = call[e].start
       /\ stage'[e] \in Sending => stage'[e] = stage[e] /\ call'[e] = call[e]

LEMMA QuietDeliverStep ==
  ASSUME DeliveryInv, NEW d \in Deliverer,
         \/ Start(d) \/ Summarized(d) \/ PassFailed(d) \/ ReadBatches(d)
         \/ ReadNotifications(d) \/ ReadCursor(d) \/ StoreRaises(d)
  PROVE  QuietCalls
<1>1. PICK N : call \in [Deliverer -> CallShape(N)]
  BY DEF DeliveryInv, CallTyped
<1>2. /\ stage \in [Deliverer -> Stage] /\ call[d] \in CallShape(N)
      /\ NoCall.batches = {}
  BY <1>1 DEF DeliveryInv, NoCall
<1>3. UNCHANGED <<deliveries, mailbox, cursor>>
  BY DEF Start, Summarized, PassFailed, ReadBatches, ReadNotifications, ReadCursor, StoreRaises
<1> DEFINE Becomes(s, mine) ==
             /\ stage' = [stage EXCEPT ![d] = s] /\ call' = [call EXCEPT ![d] = mine]
             /\ s \notin Sending
             /\ mine.batches \subseteq call[d].batches \cup PendingBatches
             /\ s # "idle" => \/ cursor < mine.now
                              \/ stage[d] # "idle" /\ mine.now = call[d].now
             /\ s = "create" => mine.start = cursor
<1>0. ASSUME NEW s, NEW mine, Becomes(s, mine) PROVE QuietCalls
  <2>1. /\ stage'[d] = s /\ call'[d] = mine
        /\ \A e \in Deliverer \ {d} : stage'[e] = stage[e] /\ call'[e] = call[e]
    BY <1>0, <1>1, <1>2
  <2> QED
    BY <1>0, <1>3, <2>1 DEF QuietCalls
<1>4. CASE Start(d)
  <2> DEFINE mine == [NoCall EXCEPT !.now = Now]
  <2>1. mine.batches = {} /\ mine.now = Now
    BY DEF NoCall
  <2>2. cursor < Now
    BY NowIsLater DEF Times
  <2>3. stage' = [stage EXCEPT ![d] = "summarize"] /\ call' = [call EXCEPT ![d] = mine]
    BY <1>4 DEF Start
  <2>4. Becomes("summarize", mine)
    BY <2>1, <2>2, <2>3 DEF Sending
  <2> HIDE DEF Becomes
  <2> QED
    BY <1>0, <2>4
<1>5. CASE Summarized(d)
  <2>1. /\ stage[d] = "summarize" /\ stage' = [stage EXCEPT ![d] = "batches"]
        /\ call' = [call EXCEPT ![d] = call[d]]
    BY <1>1, <1>5 DEF Summarized
  <2>2. Becomes("batches", call[d])
    BY <2>1 DEF Sending
  <2> HIDE DEF Becomes
  <2> QED
    BY <1>0, <2>2
<1>6. ASSUME Quit(d) PROVE QuietCalls
  <2>1. Becomes("idle", NoCall)
    BY <1>2, <1>6 DEF Quit, Sending
  <2> HIDE DEF Becomes
  <2> QED
    BY <1>0, <2>1
<1>7. CASE PassFailed(d) \/ StoreRaises(d)
  BY <1>6, <1>7 DEF PassFailed, StoreRaises
<1>8. CASE ReadBatches(d)
  <2> DEFINE mine == [call[d] EXCEPT !.batches = PendingBatches,
                                     !.rendered = {b \in PendingBatches : Rendered(b)}]
  <2>1. mine.batches = PendingBatches /\ mine.now = call[d].now
    BY <1>2 DEF CallShape
  <2>2. /\ stage[d] = "batches" /\ stage' = [stage EXCEPT ![d] = "notifications"]
        /\ call' = [call EXCEPT ![d] = mine]
    BY <1>8 DEF ReadBatches
  <2> HIDE DEF mine
  <2>3. Becomes("notifications", mine)
    BY <2>1, <2>2 DEF Sending
  <2> HIDE DEF Becomes
  <2> QED
    BY <1>0, <2>3
<1>9. CASE ReadNotifications(d)
  <2>1. \/ Quit(d)
        \/ /\ stage[d] = "notifications" /\ stage' = [stage EXCEPT ![d] = "window"]
           /\ call' = [call EXCEPT ![d].notes = NotesRead]
    BY <1>9, Zenon DEF ReadNotifications
  <2>2. ASSUME stage[d] = "notifications", stage' = [stage EXCEPT ![d] = "window"],
               call' = [call EXCEPT ![d].notes = NotesRead]
        PROVE  QuietCalls
    <3> DEFINE mine == [call[d] EXCEPT !.notes = NotesRead]
    <3>1. mine.batches = call[d].batches /\ mine.now = call[d].now
      BY <1>2 DEF CallShape
    <3>2. call' = [call EXCEPT ![d] = mine]
      BY <2>2
    <3> HIDE DEF mine
    <3>3. Becomes("window", mine)
      BY <2>2, <3>1, <3>2 DEF Sending
    <3> HIDE DEF Becomes
    <3> QED
      BY <1>0, <3>3
  <2> QED
    BY <1>6, <2>1, <2>2
<1>10. CASE ReadCursor(d)
  <2> DEFINE mine == [call[d] EXCEPT !.start = cursor]
  <2>1. mine.batches = call[d].batches /\ mine.now = call[d].now /\ mine.start = cursor
    BY <1>2 DEF CallShape
  <2>2. /\ stage[d] = "window" /\ stage' = [stage EXCEPT ![d] = "create"]
        /\ call' = [call EXCEPT ![d] = mine]
    BY <1>10 DEF ReadCursor
  <2> HIDE DEF mine
  <2>3. Becomes("create", mine)
    BY <2>1, <2>2 DEF Sending
  <2> HIDE DEF Becomes
  <2> QED
    BY <1>0, <2>3
<1> QED
  BY <1>4, <1>5, <1>7, <1>8, <1>9, <1>10

LEMMA QuietOther ==
  ASSUME DeliveryInv, UNCHANGED digestVars \/ \E p \in Proc : CrashAll(p)
  PROVE  QuietCalls
<1>1. CASE UNCHANGED digestVars
  BY <1>1 DEF digestVars, QuietCalls
<1>2. CASE \E p \in Proc : CrashAll(p)
  <2>1. /\ UNCHANGED <<deliveries, mailbox, cursor>>
        /\ \A e \in Deliverer : \/ stage'[e] = "idle" /\ call'[e] = NoCall
                                \/ stage'[e] = stage[e] /\ call'[e] = call[e]
    BY <1>2 DEF CrashAll
  <2>2. NoCall.batches = {}
    BY DEF NoCall
  <2> QED
    BY <2>1, <2>2 DEF QuietCalls, Sending
<1> QED
  BY <1>1, <1>2

LEMMA QuietKeeps ==
  ASSUME Rest, OneInv, BatchesGrow, QuietCalls
  PROVE  OneInv'
<1>1. /\ UNCHANGED <<deliveries, mailbox, cursor>>
      /\ \A k : MailsOf(k)' = MailsOf(k)
  BY DEF QuietCalls, MailsOf
<1>2. WindowInv'
  BY <1>1 DEF OneInv, WindowInv, QuietCalls, Sending
<1>3. WindowsJoinUp'
  BY <1>1 DEF OneInv, WindowsJoinUp, SentDeliveries
<1>4. PendingBatches \subseteq PendingBatches'
  BY DEF PendingBatches, BatchesGrow
<1>5. MailInv'
  <2>1. \A i \in DOMAIN mailbox : \A b \in mailbox[i].batches : batches'[b] = batches[b]
    BY DEF Rest, KnownBatches, BatchesGrow
  <2> QED
    BY <1>1, <1>4, <2>1 DEF OneInv, MailInv, QuietCalls, Sending
<1>6. RepeatedOnlyIfUnacknowledged'
  BY <1>1 DEF OneInv, RepeatedOnlyIfUnacknowledged
<1> QED
  BY <1>2, <1>3, <1>5, <1>6 DEF OneInv

LEMMA OneCreateKeeps ==
  ASSUME OneDeliverer, Rest, OneInv, NEW d \in Deliverer, CreateDelivery(d)
  PROVE  OneInv'
<1> DEFINE new == Len(deliveries) + 1
<1> USE DEF Rest
<1>1. /\ stage[d] = "create" /\ stage' = [stage EXCEPT ![d] = "send"]
      /\ UNCHANGED <<batches, mailbox, cursor>>
      /\ Len(deliveries) \in Nat /\ Len(deliveries') = new
      /\ DOMAIN deliveries = 1..Len(deliveries) /\ DOMAIN deliveries' = 1..new
      /\ \A i \in DOMAIN deliveries : deliveries'[i] = deliveries[i]
      /\ deliveries'[new].start = call[d].start /\ deliveries'[new].status = "preparing"
      /\ call'[d].delivery = new /\ call'[d].batches = call[d].batches
      /\ call'[d].now = call[d].now
  BY CreateEffect
<1>2. stage'[d] = "send" /\ \A e \in Deliverer : e = d
  BY <1>1 DEF OneDeliverer, DeliveryInv
<1>3. MailsOf(new)' = {} /\ \A k : MailsOf(k)' = MailsOf(k)
  BY <1>1 DEF MailsOf, OneInv, MailInv
<1>4. WindowInv'
  BY <1>1, <1>2 DEF OneInv, WindowInv
<1>5. SentDeliveries' = SentDeliveries
  BY <1>1 DEF SentDeliveries
<1>6. WindowsJoinUp'
  <2>1. \A i \in SentDeliveries : deliveries'[i] = deliveries[i]
    BY <1>1 DEF SentDeliveries
  <2> QED
    BY <1>1, <1>5, <2>1 DEF OneInv, WindowsJoinUp
<1>7. MailInv'
  <2>1. ASSUME NEW i \in DOMAIN mailbox'
        PROVE  /\ mailbox'[i].delivery \in DOMAIN deliveries'
               /\ deliveries'[mailbox'[i].delivery].status = "sent" =>
                    \A b \in mailbox'[i].batches : batches'[b].status = "sent"
    BY <1>1 DEF OneInv, MailInv
  <2>2. (MailsOf(call[d].delivery) = {})' /\ call'[d].batches \subseteq PendingBatches'
    BY <1>1, <1>3 DEF OneInv, MailInv, PendingBatches, MailsOf
  <2> QED
    BY <1>2, <2>1, <2>2 DEF MailInv, MailsOf
<1>8. RepeatedOnlyIfUnacknowledged'
  BY <1>1 DEF OneInv, MailInv, RepeatedOnlyIfUnacknowledged
<1> QED
  BY <1>4, <1>6, <1>7, <1>8 DEF OneInv

LEMMA OneSendKeeps ==
  ASSUME OneDeliverer, Rest, OneInv, NEW d \in Deliverer, SendAccepted(d) \/ SendRaises(d)
  PROVE  OneInv'
<1> DEFINE new == Len(mailbox) + 1
<1> USE DEF Rest
<1>1. /\ stage[d] = "send"
      /\ \/ stage' = [stage EXCEPT ![d] = "accepted"]
         \/ stage' = [stage EXCEPT ![d] = "failed"]
      /\ UNCHANGED <<call, deliveries, batches, cursor>>
      /\ Len(mailbox) \in Nat
      /\ DOMAIN mailbox = 1..Len(mailbox)
      /\ \A i \in DOMAIN mailbox : mailbox'[i] = mailbox[i]
      /\ \/ UNCHANGED mailbox
         \/ /\ DOMAIN mailbox' = 1..new /\ Len(mailbox') = new
            /\ mailbox'[new].delivery = call[d].delivery
            /\ mailbox'[new].batches = call[d].batches
  BY SendEffect
<1>2. stage'[d] \in Sending \ {"send"} /\ \A e \in Deliverer : e = d
  BY <1>1 DEF OneDeliverer, DeliveryInv, Sending
<1>3. /\ call[d].delivery \in DOMAIN deliveries
      /\ deliveries[call[d].delivery].status = "preparing"
      /\ MailsOf(call[d].delivery) = {}
      /\ call[d].batches \subseteq PendingBatches
  BY <1>1 DEF OpenInv, OneInv, MailInv, Sending
<1>4. WindowInv'
  BY <1>1, <1>2 DEF OneInv, WindowInv, Sending
<1>5. WindowsJoinUp'
  BY <1>1 DEF OneInv, WindowsJoinUp, SentDeliveries
<1>6. MailInv'
  <2>1. ASSUME NEW i \in DOMAIN mailbox'
        PROVE  /\ mailbox'[i].delivery \in DOMAIN deliveries
               /\ deliveries[mailbox'[i].delivery].status = "sent" =>
                    \A b \in mailbox'[i].batches : batches[b].status = "sent"
    BY <1>1, <1>3 DEF OneInv, MailInv
  <2>2. \A i \in MailsOf(call[d].delivery)' :
          i = Len(mailbox') /\ mailbox'[i].batches = call[d].batches
    BY <1>1, <1>3 DEF MailsOf
  <2> QED
    BY <1>1, <1>2, <1>3, <2>1, <2>2 DEF MailInv, PendingBatches, MailsOf
<1>7. RepeatedOnlyIfUnacknowledged'
  <2> SUFFICES ASSUME NEW i \in DOMAIN mailbox', NEW j \in DOMAIN mailbox', i < j,
                      NEW b \in mailbox'[i].batches \cap mailbox'[j].batches
               PROVE  deliveries[mailbox'[i].delivery].status # "sent"
    BY <1>1 DEF RepeatedOnlyIfUnacknowledged
  <2>1. CASE j \in DOMAIN mailbox
    <3>1. i \in DOMAIN mailbox /\ mailbox'[i] = mailbox[i] /\ mailbox'[j] = mailbox[j]
      BY <1>1, <2>1
    <3>2. mailbox[i].batches \cap mailbox[j].batches # {}
      BY <3>1
    <3>3. RepeatedOnlyIfUnacknowledged
      BY DEF OneInv
    <3> QED
      BY <2>1, <3>1, <3>2, <3>3 DEF RepeatedOnlyIfUnacknowledged
  <2>2. CASE j \notin DOMAIN mailbox
    <3>1. j = new /\ i \in DOMAIN mailbox /\ mailbox'[j].batches = call[d].batches
      BY <1>1, <2>2
    <3>2. batches[b].status = "pending"
      BY <1>3, <3>1 DEF PendingBatches
    <3> QED
      BY <1>1, <3>1, <3>2 DEF OneInv, MailInv
  <2> QED
    BY <2>1, <2>2
<1> QED
  BY <1>4, <1>5, <1>6, <1>7 DEF OneInv

(* The call of the only deliverer is over. *)
LEMMA OneQuit ==
  ASSUME OneDeliverer, DeliveryInv, NEW d \in Deliverer, Quit(d)
  PROVE  \A e \in Deliverer : e = d /\ stage'[e] = "idle" /\ call'[e].batches = {}
<1>1. stage'[d] = "idle" /\ call'[d] = NoCall
  BY DEF Quit, DeliveryInv, CallTyped
<1>2. NoCall.batches = {}
  BY DEF NoCall
<1> QED
  BY <1>1, <1>2 DEF OneDeliverer

LEMMA OneFailKeeps ==
  ASSUME OneDeliverer, Rest, OneInv, NEW d \in Deliverer, FailDelivery(d)
  PROVE  OneInv'
<1> USE DEF Rest
<1>1. /\ stage[d] \in Sending /\ Quit(d) /\ UNCHANGED <<mailbox, batches, cursor>>
      /\ cursor' \in Nat
      /\ deliveries' = [deliveries EXCEPT ![call[d].delivery].status = "failed"]
  BY DEF FailDelivery, Sending, vars, storeVars, DeliveryInv
<1>2. /\ deliveries[call[d].delivery].status = "preparing"
      /\ DOMAIN deliveries' = DOMAIN deliveries
      /\ \A i \in DOMAIN deliveries : /\ deliveries'[i].start = deliveries[i].start
                                      /\ deliveries'[i].end = deliveries[i].end
      /\ \A i \in DOMAIN deliveries : deliveries'[i].status =
           IF i = call[d].delivery THEN "failed" ELSE deliveries[i].status
  BY <1>1, RecordOutcome
<1>3. \A e \in Deliverer : stage'[e] = "idle" /\ call'[e].batches = {}
  BY <1>1, OneQuit
<1>4. WindowInv'
  BY <1>3 DEF WindowInv, Sending
<1>5. SentDeliveries' = SentDeliveries
  BY <1>2 DEF SentDeliveries
<1>6. WindowsJoinUp'
  <2>1. \A i \in SentDeliveries : /\ deliveries'[i].start = deliveries[i].start
                                  /\ deliveries'[i].end = deliveries[i].end
    BY <1>2 DEF SentDeliveries
  <2> QED
    BY <1>1, <1>5, <2>1 DEF OneInv, WindowsJoinUp
<1>7. MailInv'
  BY <1>1, <1>2, <1>3 DEF OneInv, MailInv, Sending
<1>8. RepeatedOnlyIfUnacknowledged'
  BY <1>1, <1>2 DEF OneInv, MailInv, RepeatedOnlyIfUnacknowledged
<1> QED
  BY <1>4, <1>6, <1>7, <1>8 DEF OneInv

LEMMA SentIsFinite ==
  ASSUME deliveries \in Seq(DeliveryRecord)
  PROVE  IsFiniteSet(SentDeliveries) /\ SentDeliveries \subseteq Int
<1>1. Len(deliveries) \in Nat /\ DOMAIN deliveries = 1..Len(deliveries)
  BY LenProperties
<1>2. IsFiniteSet(1..Len(deliveries))
  BY <1>1, FS_Interval
<1>3. SentDeliveries \in SUBSET (1..Len(deliveries))
  BY <1>1 DEF SentDeliveries
<1>4. IsFiniteSet(SentDeliveries)
  BY <1>2, <1>3, FS_Subset, Zenon
<1> QED
  BY <1>1, <1>3, <1>4

(* complete_delivery: the delivery is the last one, its window starts at   *)
(* the cursor, and the sent delivery before it ends there.                 *)
LEMMA OneCompleteKeeps ==
  ASSUME OneDeliverer, Types, Rest, OneInv, NEW d \in Deliverer, CompleteDelivery(d)
  PROVE  OneInv'
<1> DEFINE k == call[d].delivery
<1> USE DEF Rest
<1>1. /\ stage[d] = "accepted" /\ stage[d] \in Sending /\ Quit(d) /\ UNCHANGED mailbox
      /\ deliveries' = [deliveries EXCEPT ![k].status = "sent"]
      /\ batches' = MarkSent(batches, call[d].batches, k)
      /\ cursor' = call[d].now /\ cursor' \in Nat
  BY DEF CompleteDelivery, Sending, DeliveryInv, CallTyped, CallShape
<1>2. /\ k \in DOMAIN deliveries
      /\ deliveries[k].status = "preparing"
      /\ DOMAIN deliveries' = DOMAIN deliveries
      /\ \A i \in DOMAIN deliveries : /\ deliveries'[i].start = deliveries[i].start
                                      /\ deliveries'[i].end = deliveries[i].end
      /\ \A i \in DOMAIN deliveries : deliveries'[i].status =
           IF i = k THEN "sent" ELSE deliveries[i].status
  BY <1>1, RecordOutcome
<1>3. \A e \in Deliverer : stage'[e] = "idle" /\ call'[e].batches = {}
  BY <1>1, OneQuit
<1>4. /\ Len(deliveries) \in Nat /\ DOMAIN deliveries = 1..Len(deliveries)
      /\ \A i \in DOMAIN deliveries : deliveries[i] \in DeliveryRecord
  BY LenProperties, ElementOfSeq DEF DeliveryInv
<1>5. /\ k = Len(deliveries) /\ k \in Nat
      /\ deliveries[k].start = cursor /\ deliveries[k].end = call[d].now
      /\ cursor < call[d].now
  BY <1>1, <1>4 DEF OneInv, WindowInv, OpenInv
<1>6. WindowInv'
  BY <1>3 DEF WindowInv, Sending
<1>7. /\ SentDeliveries' = SentDeliveries \cup {k}
      /\ \A i \in SentDeliveries : i \in Nat /\ i < k
  BY <1>2, <1>4, <1>5 DEF SentDeliveries
<1>8. WindowsJoinUp'
  <2>0. deliveries \in Seq(DeliveryRecord)
    BY DEF DeliveryInv
  <2> USE <1>1, <1>2, <1>5, <1>7
  <2>1. \A i \in SentDeliveries' : i \in DOMAIN deliveries
    BY DEF SentDeliveries
  <2>2. SentDeliveries # {} =>
          \E j \in SentDeliveries : /\ \A i \in SentDeliveries : i <= j
                                    /\ cursor = deliveries[j].end
    <3> HAVE SentDeliveries # {}
    <3>1. PICK j \in SentDeliveries : \A i \in SentDeliveries : i <= j
      BY <2>0, SentIsFinite, FiniteMax
    <3> QED
      BY <3>1 DEF OneInv, WindowsJoinUp
  <2>3. ASSUME NEW i \in SentDeliveries'
        PROVE  LET before == {j \in SentDeliveries' : j < i}
               IN  /\ deliveries'[i].start < deliveries'[i].end
                   /\ IF before = {} THEN deliveries'[i].start = NULL
                      ELSE \E j \in before : /\ \A m \in before : m <= j
                                             /\ deliveries'[i].start = deliveries'[j].end
    <3>1. CASE i = k
      <4>1. {j \in SentDeliveries' : j < i} = SentDeliveries
        BY <3>1
      <4>2. SentDeliveries = {} => cursor = NULL
        BY DEF OneInv, WindowsJoinUp
      <4>3. \A j \in SentDeliveries : deliveries'[j].end = deliveries[j].end
        BY <2>1
      <4>4. deliveries'[i].start = cursor /\ deliveries'[i].start < deliveries'[i].end
        BY <2>1, <3>1
      <4> QED
        BY <2>2, <4>1, <4>2, <4>3, <4>4
    <3>2. CASE i # k
      <4>1. {j \in SentDeliveries' : j < i} = {j \in SentDeliveries : j < i} /\ i \in SentDeliveries
        BY <3>2
      <4>2. \A j \in SentDeliveries : deliveries'[j].end = deliveries[j].end
        BY <2>1
      <4> QED
        BY <2>1, <4>1, <4>2, SMTT(30) DEF OneInv, WindowsJoinUp
    <3> QED
      BY <3>1, <3>2
  <2>4. ASSUME NEW i \in SentDeliveries', \A j \in SentDeliveries' : j <= i
        PROVE  cursor' = deliveries'[i].end
    BY <2>1, <2>4
  <2>5. SentDeliveries' # {}
    OBVIOUS
  <2> QED
    BY <2>3, <2>4, <2>5 DEF WindowsJoinUp
<1>9. /\ DOMAIN batches' = DOMAIN batches
      /\ \A b \in DOMAIN batches :
           /\ b \in call[d].batches /\ batches[b].status = "pending" => batches'[b].status = "sent"
           /\ b \notin call[d].batches \/ batches[b].status # "pending" => batches'[b] = batches[b]
  BY <1>1, <1>5, MarkedBatches DEF Types
<1>10. \A i \in MailsOf(k) : i = Len(mailbox) /\ mailbox[i].batches = call[d].batches
  BY <1>1 DEF OneInv, MailInv
<1>11. MailInv'
  <2>1. ASSUME NEW i \in DOMAIN mailbox, deliveries'[mailbox[i].delivery].status = "sent",
               NEW b \in mailbox[i].batches
        PROVE  batches'[b].status = "sent"
    <3>1. b \in DOMAIN batches
      BY DEF KnownBatches
    <3>2. CASE i \in MailsOf(k)
      <4>1. b \in call[d].batches /\ batches[b].status = "pending"
        BY <1>10, <3>2 DEF OneInv, MailInv, PendingBatches
      <4> QED
        BY <1>9, <3>1, <4>1
    <3>3. CASE i \notin MailsOf(k)
      <4>1. batches[b].status = "sent"
        BY <1>2, <2>1, <3>3 DEF MailsOf, OneInv, MailInv
      <4> QED
        BY <1>9, <3>1, <4>1
    <3> QED
      BY <3>2, <3>3
  <2> QED
    BY <1>1, <1>2, <1>3, <2>1 DEF OneInv, MailInv, Sending
<1>12. RepeatedOnlyIfUnacknowledged'
  <2> SUFFICES ASSUME NEW i \in DOMAIN mailbox, NEW j \in DOMAIN mailbox, i < j,
                      mailbox[i].batches \cap mailbox[j].batches # {}
               PROVE  deliveries'[mailbox[i].delivery].status # "sent"
    BY <1>1 DEF RepeatedOnlyIfUnacknowledged
  <2>1. /\ deliveries[mailbox[i].delivery].status # "sent"
        /\ mailbox[i].delivery \in DOMAIN deliveries
    BY DEF OneInv, MailInv, RepeatedOnlyIfUnacknowledged
  <2>2. i # Len(mailbox)
    BY AppendToSeq DEF DeliveryInv
  <2>3. mailbox[i].delivery # k
    BY <1>10, <2>2 DEF MailsOf
  <2> QED
    BY <1>2, <2>1, <2>3
<1> QED
  BY <1>6, <1>8, <1>11, <1>12 DEF OneInv

-----------------------------------------------------------------------------
LEMMA OneInvInit == DInit => OneInv
<1> SUFFICES ASSUME DInit PROVE OneInv
  OBVIOUS
<1>1. deliveries = <<>> /\ mailbox = <<>> /\ cursor = NULL
  BY DEF DInit, DigestInit
<1>2. \A d \in Deliverer : stage[d] = "idle" /\ call[d].batches = {}
  BY DEF DInit, DigestInit, NoCall
<1>3. SentDeliveries = {}
  BY <1>1 DEF SentDeliveries
<1> QED
  BY <1>1, <1>2, <1>3 DEF OneInv, WindowInv, WindowsJoinUp, MailInv, RepeatedOnlyIfUnacknowledged, Sending

LEMMA OneInvStep ==
  ASSUME OneDeliverer, DInv, OneInv, [DNext]_allVars
  PROVE  OneInv'
<1> USE DEF DInv, Rest
<1>1. CASE \E d \in Deliverer : CompleteDelivery(d)
  BY <1>1, OneCompleteKeeps
<1>2. CASE ~\E d \in Deliverer : CompleteDelivery(d)
  <2>1. BatchesGrow
    BY <1>2, DigestSteps, GrowStep
  <2>2. ASSUME NEW d \in Deliverer, DeliverStep(d) PROVE OneInv'
    <3>1. CASE CreateDelivery(d)
      BY <3>1, OneCreateKeeps
    <3>2. CASE SendAccepted(d) \/ SendRaises(d)
      BY <3>2, OneSendKeeps
    <3>3. CASE FailDelivery(d)
      BY <3>3, OneFailKeeps
    <3>4. CASE \/ Start(d) \/ Summarized(d) \/ PassFailed(d) \/ ReadBatches(d)
               \/ ReadNotifications(d) \/ ReadCursor(d) \/ StoreRaises(d)
      BY <2>1, <3>4, QuietDeliverStep, QuietKeeps
    <3> QED
      BY <1>2, <2>2, <3>1, <3>2, <3>3, <3>4 DEF DeliverStep
  <2>3. ASSUME UNCHANGED digestVars \/ \E p \in Proc : CrashAll(p) PROVE OneInv'
    BY <2>1, <2>3, QuietOther, QuietKeeps
  <2> QED
    BY <2>2, <2>3 DEF DNext, PassStep, allVars
<1> QED
  BY <1>1, <1>2

LEMMA OneInvHolds == ASSUME OneDeliverer PROVE DSpec => [](DInv /\ OneInv)
<1>1. DInv /\ OneInv /\ [DNext]_allVars => OneInv'
  BY OneInvStep
<1> QED
  BY <1>1, DInvHolds, DInvStep, OneInvInit, PTL DEF DSpec

(* Without overlapping calls the windows of the sent deliveries join up,   *)
(* whatever failed or crashed in between (create_delivery's window_start   *)
(* is last_successful_delivery_at, complete_delivery sets it to the end).  *)
THEOREM WindowsWithoutGaps == ASSUME OneDeliverer PROVE DSpec => []WindowsJoinUp
<1>1. DInv /\ OneInv => WindowsJoinUp
  BY DEF OneInv
<1> QED
  BY <1>1, OneInvHolds, PTL

(* Without overlapping calls a summary is mailed twice only when the first *)
(* delivery was never recorded as sent.                                    *)
THEOREM NoNeedlessRepeat == ASSUME OneDeliverer PROVE DSpec => []RepeatedOnlyIfUnacknowledged
<1>1. DInv /\ OneInv => RepeatedOnlyIfUnacknowledged
  BY DEF OneInv
<1> QED
  BY <1>1, OneInvHolds, PTL

(* Without overlapping calls the cursor only moves forward, together with  *)
(* a delivery whose mail the provider took.                                *)
THEOREM CursorNeverBack == ASSUME OneDeliverer PROVE DSpec => CursorFollowsMail
<1>1. DInv /\ OneInv /\ [DNext]_allVars =>
        (cursor' # cursor =>
           /\ cursor' > cursor
           /\ \E i \in DOMAIN deliveries : /\ deliveries[i].status # "sent"
                                           /\ deliveries'[i].status = "sent"
                                           /\ deliveries[i].end = cursor'
                                           /\ MailsOf(i) # {})
  <2> SUFFICES ASSUME DInv, OneInv, [DNext]_allVars, cursor' # cursor
               PROVE  /\ cursor' > cursor
                      /\ \E i \in DOMAIN deliveries : /\ deliveries[i].status # "sent"
                                                      /\ deliveries'[i].status = "sent"
                                                      /\ deliveries[i].end = cursor'
                                                      /\ MailsOf(i) # {}
    OBVIOUS
  <2>1. PICK d \in Deliverer : CompleteDelivery(d)
    <3>1. ASSUME NEW d \in Deliverer, DeliverStep(d) PROVE CompleteDelivery(d)
      BY <3>1 DEF DeliverStep, Start, Summarized, PassFailed, ReadBatches, ReadNotifications,
                  ReadCursor, CreateDelivery, SendAccepted, SendRaises, FailDelivery, StoreRaises
    <3> QED
      BY <3>1 DEF DNext, PassStep, CrashAll, digestVars, allVars
  <2>2. /\ stage[d] = "accepted" /\ stage[d] \in Sending /\ Quit(d) /\ UNCHANGED mailbox
        /\ deliveries' = [deliveries EXCEPT ![call[d].delivery].status = "sent"]
        /\ cursor' = call[d].now /\ cursor' \in Nat /\ cursor \in Nat
    BY <2>1 DEF CompleteDelivery, Sending, DInv, DeliveryInv, CallTyped, CallShape
  <2>3. /\ call[d].delivery \in DOMAIN deliveries
        /\ deliveries[call[d].delivery].status = "preparing"
        /\ deliveries'[call[d].delivery].status = "sent"
    BY <2>2, RecordOutcome DEF DInv, Rest
  <2>4. /\ deliveries[call[d].delivery].end = call[d].now
        /\ MailsOf(call[d].delivery) # {}
        /\ cursor < call[d].now
    BY <2>2 DEF DInv, OpenInv, OneInv, WindowInv
  <2> QED
    BY <2>2, <2>3, <2>4
<1> QED
  BY <1>1, OneInvHolds, PTL DEF DSpec, CursorFollowsMail
=============================================================================
