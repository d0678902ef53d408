-------------------------------- MODULE Digest --------------------------------
(***************************************************************************)
(* The daily digest: DigestService.deliver of app/digest/service.py, called*)
(* by the scheduler's digest_job and by the CLI's send-digest.             *)
(*                                                                         *)
(* A deliverer first makes a forced summary pass (it is a worker of        *)
(* Summarizer), then reads what is pending, renders it, opens a delivery,  *)
(* hands the mail to the provider in a thread and records the outcome.     *)
(* deliver takes no lock: between its database calls request threads and   *)
(* the other process run, and while the mail is being sent the other       *)
(* coroutines of its own process too.                                      *)
(***************************************************************************)
EXTENDS Summarizer

CONSTANTS
  Deliverer,        \* the workers that are the first step of a deliver call
  MaxUnacked,       \* bound on the deliveries that were opened but never completed
  MaxTime           \* bound on the times taken by deliver calls

ASSUME DelivererAssumption == /\ Deliverer \subseteq Worker
                              /\ IsFiniteSet(Deliverer)
                              /\ MaxUnacked \in Nat
                              /\ MaxTime \in Nat

VARIABLES
  stage,        \* where each deliver call is
  call,         \* its local variables
  deliveries,   \* table deliveries: row id = position
  cursor,       \* setting last_successful_delivery_at, NULL when absent
  mailbox       \* history: the mails the provider accepted, oldest first

digestVars == <<stage, call, deliveries, cursor, mailbox>>
allVars == <<vars, digestVars>>

Stage == {"idle", "summarize", "batches", "notifications", "window", "create",
          "send", "accepted", "failed"}

(* Between the end of the forced pass and the await of the mailer, deliver *)
(* does not yield: no other coroutine of the process runs.                 *)
NoYield == {"batches", "notifications", "window", "create"}

(* The part of a notification that the mail shows and that can change.     *)
NoteSeen == [id: Nat \ {0}, update: Update]

Mail == [delivery: Nat \ {0}, batches: SUBSET Nat, rendered: SUBSET Nat,
         notes: SUBSET NoteSeen]

DeliveryRow == [start: Nat, end: Nat \ {0}, status: {"preparing", "sent", "failed"}]

(* now, the ids of the batches read and of those the renderer shows, the   *)
(* notifications read, the cursor read, the id of the opened delivery.     *)
NoCall == [now |-> 0, batches |-> {}, rendered |-> {}, notes |-> {}, start |-> NULL, delivery |-> NULL]

DigestInit ==
  /\ stage      = [d \in Deliverer |-> "idle"]
  /\ call       = [d \in Deliverer |-> NoCall]
  /\ deliveries = <<>>
  /\ cursor     = NULL
  /\ mailbox    = <<>>

DInit == Init /\ DigestInit

-----------------------------------------------------------------------------
(* A deliver call takes the time once, at its start.  Times are ordered    *)
(* only among the stored ones and those of the calls under way, so a rank  *)
(* above all of these stands for the clock.                                *)
Times == {cursor} \cup {deliveries[i].end : i \in DOMAIN deliveries}
                  \cup {call[d].now : d \in Deliverer}
Now == 1 + CHOOSE t \in Times : \A u \in Times : u <= t

Unacked == {i \in DOMAIN deliveries : deliveries[i].status # "sent"}

LoopFree(w) == \A d \in Deliverer \ {w} : ProcOf[d] = ProcOf[w] => stage[d] \notin NoYield

Start(d) ==
  /\ stage[d] = "idle"
  /\ LoopFree(d)
  /\ Now <= MaxTime
  /\ Request(d)
  /\ stage' = [stage EXCEPT ![d] = "summarize"]
  /\ call' = [call EXCEPT ![d] = [NoCall EXCEPT !.now = Now]]
  /\ UNCHANGED <<deliveries, cursor, mailbox>>

(* The forced pass came to its end, or raised out of deliver. *)
Summarized(d) ==
  /\ stage[d] = "summarize"
  /\ LoopFree(d)
  /\ Finish(d)
  /\ stage' = [stage EXCEPT ![d] = "batches"]
  /\ UNCHANGED <<call, deliveries, cursor, mailbox>>

Quit(d) ==
  /\ stage' = [stage EXCEPT ![d] = "idle"]
  /\ call' = [call EXCEPT ![d] = NoCall]

PassFailed(d) ==
  /\ stage[d] = "summarize"
  /\ LoopFree(d)
  /\ Abort(d)
  /\ Quit(d)
  /\ UNCHANGED <<deliveries, cursor, mailbox>>

(* render_digest looks only at the fields of the type the group has now.   *)
Rendered(b) ==
  LET type == groups[batches[b].group].type
  IN  \/ batches[b].content = "details" /\ type = batches[b].kind
      \/ batches[b].content = "overview" /\ type # "course"

(* The first SELECT of pending_digest. *)
ReadBatches(d) ==
  /\ stage[d] = "batches"
  /\ stage' = [stage EXCEPT ![d] = "notifications"]
  /\ call' = [call EXCEPT ![d].batches = PendingBatches,
                          ![d].rendered = {b \in PendingBatches : Rendered(b)}]
  /\ UNCHANGED <<vars, deliveries, cursor, mailbox>>

(* The second SELECT, then render_digest: nothing to tell ends the call.   *)
NotesRead == {[id |-> n, update |-> notifications[n].update] : n \in PendingNotifications}

(* Faulty variant for mutation: only notifications count as content. *)
ReadNotificationsOnly(d) ==
  /\ stage[d] = "notifications"
  /\ \/ /\ NotesRead # {}
        /\ stage' = [stage EXCEPT ![d] = "window"]
        /\ call' = [call EXCEPT ![d].notes = NotesRead]
     \/ /\ NotesRead = {}
        /\ Quit(d)
  /\ UNCHANGED <<vars, deliveries, cursor, mailbox>>

ReadNotifications(d) ==
  /\ stage[d] = "notifications"
  /\ \/ /\ call[d].rendered # {} \/ NotesRead # {}
        /\ stage' = [stage EXCEPT ![d] = "window"]
        /\ call' = [call EXCEPT ![d].notes = NotesRead]
     \/ /\ call[d].rendered = {} /\ NotesRead = {}
        /\ Quit(d)
  /\ UNCHANGED <<vars, deliveries, cursor, mailbox>>

ReadCursor(d) ==
  /\ stage[d] = "window"
  /\ stage' = [stage EXCEPT ![d] = "create"]
  /\ call' = [call EXCEPT ![d].start = cursor]
  /\ UNCHANGED <<vars, deliveries, cursor, mailbox>>

(* Faulty variant for mutation: the id is that of the delivery before.     *)
CreateAfterLast(d) ==
  /\ stage[d] = "create"
  /\ deliveries' = Append(deliveries, [start |-> call[d].start, end |-> call[d].now,
                                       status |-> "preparing"])
  /\ stage' = [stage EXCEPT ![d] = "send"]
  /\ call' = [call EXCEPT ![d].delivery = Len(deliveries)]
  /\ UNCHANGED <<vars, cursor, mailbox>>

CreateDelivery(d) ==
  /\ stage[d] = "create"
  /\ deliveries' = Append(deliveries, [start |-> call[d].start, end |-> call[d].now,
                                       status |-> "preparing"])
  /\ stage' = [stage EXCEPT ![d] = "send"]
  /\ call' = [call EXCEPT ![d].delivery = Len(deliveries) + 1]
  /\ UNCHANGED <<vars, cursor, mailbox>>

Accept(d) ==
  mailbox' = Append(mailbox, [delivery |-> call[d].delivery, batches |-> call[d].batches,
                              rendered |-> call[d].rendered, notes |-> call[d].notes])

(* mailer.send returns: the provider took the mail. *)
SendAccepted(d) ==
  /\ stage[d] = "send"
  /\ Accept(d)
  /\ stage' = [stage EXCEPT ![d] = "accepted"]
  /\ UNCHANGED <<vars, call, deliveries, cursor>>

(* Faulty variant for mutation: the exception of the mailer is swallowed. *)
SendSwallowed(d) ==
  /\ stage[d] = "send"
  /\ Cardinality(Unacked) <= MaxUnacked
  /\ Accept(d) \/ UNCHANGED mailbox
  /\ stage' = [stage EXCEPT ![d] = "accepted"]
  /\ UNCHANGED <<vars, call, deliveries, cursor>>

(* mailer.send raises.  An answer that is lost or late leaves a mail that  *)
(* was accepted all the same.                                              *)
SendRaises(d) ==
  /\ stage[d] = "send"
  /\ Cardinality(Unacked) <= MaxUnacked
  /\ Accept(d) \/ UNCHANGED mailbox
  /\ stage' = [stage EXCEPT ![d] = "failed"]
  /\ UNCHANGED <<vars, call, deliveries, cursor>>

(* Faulty variant for mutation: the cursor moves although the mail failed. *)
FailAndAdvance(d) ==
  /\ stage[d] = "failed"
  /\ LoopFree(d)
  /\ deliveries' = [deliveries EXCEPT ![call[d].delivery].status = "failed"]
  /\ cursor' = call[d].now
  /\ Quit(d)
  /\ UNCHANGED <<vars, mailbox>>

FailDelivery(d) ==
  /\ stage[d] = "failed"
  /\ LoopFree(d)
  /\ deliveries' = [deliveries EXCEPT ![call[d].delivery].status = "failed"]
  /\ Quit(d)
  /\ UNCHANGED <<vars, cursor, mailbox>>

(* Faulty variant for mutation: every pending row is marked, whatever was  *)
(* read.                                                                   *)
MarkAllSent(rows, ids, delivery) ==
  [i \in DOMAIN rows |->
    IF rows[i].status = "pending"
    THEN [rows[i] EXCEPT !.status = "sent", !.delivery = delivery] ELSE rows[i]]

(* The UPDATE ... WHERE id IN (...) AND status='pending' of both tables.   *)
MarkSent(rows, ids, delivery) ==
  [i \in DOMAIN rows |->
    IF i \in ids /\ rows[i].status = "pending"
    THEN [rows[i] EXCEPT !.status = "sent", !.delivery = delivery] ELSE rows[i]]

(* Faulty variant for mutation: the cursor is set to the time of completion. *)
CompleteAtNow(d) ==
  /\ stage[d] = "accepted"
  /\ LoopFree(d)
  /\ batches' = MarkSent(batches, call[d].batches, call[d].delivery)
  /\ notifications' = MarkSent(notifications, IdsOf(call[d].notes), call[d].delivery)
  /\ deliveries' = [deliveries EXCEPT ![call[d].delivery].status = "sent"]
  /\ cursor' = Now
  /\ Quit(d)
  /\ UNCHANGED <<groups, messages, lastMessageId, workerVars, mailbox>>

(* Faulty variant for mutation: the UPDATE of digest_deliveries is missing *)
(* its WHERE id=?.                                                         *)
CompleteAllDeliveries(d) ==
  /\ stage[d] = "accepted"
  /\ LoopFree(d)
  /\ batches' = MarkSent(batches, call[d].batches, call[d].delivery)
  /\ notifications' = MarkSent(notifications, IdsOf(call[d].notes), call[d].delivery)
  /\ deliveries' = [i \in DOMAIN deliveries |-> [deliveries[i] EXCEPT !.status = "sent"]]
  /\ cursor' = call[d].now
  /\ Quit(d)
  /\ UNCHANGED <<groups, messages, lastMessageId, workerVars, mailbox>>

(* complete_delivery, one transaction: what was read and is still pending  *)
(* is marked sent, rendered or not, and the cursor moves.                  *)
CompleteDelivery(d) ==
  /\ stage[d] = "accepted"
  /\ LoopFree(d)
  /\ batches' = MarkSent(batches, call[d].batches, call[d].delivery)
  /\ notifications' = MarkSent(notifications, IdsOf(call[d].notes), call[d].delivery)
  /\ deliveries' = [deliveries EXCEPT ![call[d].delivery].status = "sent"]
  /\ cursor' = call[d].now
  /\ Quit(d)
  /\ UNCHANGED <<groups, messages, lastMessageId, workerVars, mailbox>>

(* A database call of deliver raises: outside the try block nothing is     *)
(* recorded, and an open delivery stays "preparing".                       *)
StoreRaises(d) ==
  /\ stage[d] \in NoYield \cup {"accepted", "failed"}
  /\ LoopFree(d)
  /\ call[d].delivery # NULL => Cardinality(Unacked) <= MaxUnacked
  /\ Quit(d)
  /\ UNCHANGED <<vars, deliveries, cursor, mailbox>>

DeliverStep(d) ==
  \/ Start(d) \/ Summarized(d) \/ PassFailed(d) \/ ReadBatches(d) \/ ReadNotifications(d)
  \/ ReadCursor(d) \/ CreateDelivery(d) \/ SendAccepted(d) \/ SendRaises(d)
  \/ FailDelivery(d) \/ CompleteDelivery(d) \/ StoreRaises(d)

(* The steps of a summary pass that deliver does not see. *)
PassStep(w) ==
  /\ LoopFree(w)
  /\ \/ Enter(w) \/ GetGroup(w) \/ NotDue(w) \/ Due(w) \/ Save(w)
     \/ w \notin Deliverer /\ (Request(w) \/ Finish(w) \/ Abort(w))
  /\ UNCHANGED digestVars

(* A crash also ends the deliver calls of the process, the sending thread  *)
(* included; whatever is in the tables stays.                              *)
CrashAll(p) ==
  LET dead == {d \in Deliverer : ProcOf[d] = p}
  IN  /\ \/ \E w \in Worker : ProcOf[w] = p /\ pc[w] # "idle"
         \/ \E d \in dead : stage[d] # "idle"
      /\ (\E d \in dead : call[d].delivery # NULL) => Cardinality(Unacked) <= MaxUnacked
      /\ Forget(p)
      /\ stage' = [d \in Deliverer |-> IF d \in dead THEN "idle" ELSE stage[d]]
      /\ call' = [d \in Deliverer |-> IF d \in dead THEN NoCall ELSE call[d]]
      /\ UNCHANGED <<deliveries, cursor, mailbox>>

DNext ==
  \/ \E d \in Deliverer : DeliverStep(d)
  \/ \E w \in Worker : PassStep(w)
  \/ \E p \in Proc : CrashAll(p)
  \/ Environment /\ UNCHANGED digestVars

DSpec == DInit /\ [][DNext]_allVars

-----------------------------------------------------------------------------
(* Fairness of the daily job d, called again every day: its steps and      *)
(* those of the other coroutines of its process happen, crashes and failing*)
(* database calls end, and a provider that is asked again and again takes  *)
(* a mail and answers in time some day.                                    *)

DUndisturbed(d) ==
  /\ Undisturbed(ProcOf[d])
  /\ stage[d] # "idle" /\ stage'[d] = "idle" =>
       MustAbort(d) \/ ReadNotifications(d) \/ FailDelivery(d) \/ CompleteDelivery(d)

DFairness(d) ==
  /\ WF_allVars(DeliverStep(d))
  /\ \A w \in Worker : ProcOf[w] = ProcOf[d] => WF_allVars(PassStep(w))
  /\ SF_allVars(SendAccepted(d))
  /\ <>[][DUndisturbed(d)]_allVars

-----------------------------------------------------------------------------
(* Properties *)

CallTypeOK ==
  /\ stage \in [Deliverer -> Stage]
  /\ call \in [Deliverer -> [now : Nat, batches : SUBSET Nat, rendered : SUBSET Nat,
                             notes : SUBSET NoteSeen, start : Nat, delivery : Nat]]

(* Type invariant of the delivery tables and of the deliver calls.         *)
DTypeOK ==
  /\ TypeOK
  /\ CallTypeOK
  /\ deliveries \in Seq(DeliveryRow)
  /\ cursor \in Nat
  /\ mailbox \in Seq(Mail)

MailsOf(delivery) == {i \in DOMAIN mailbox : mailbox[i].delivery = delivery}

(* Nothing is ticked off without a mail: a summary is "sent" exactly when  *)
(* it names a delivery, that delivery is "sent" itself and the provider    *)
(* accepted a mail for it that was made from the summary.  It holds        *)
(* whichever calls fail, crash or overlap.                                 *)
SentWasMailed ==
  /\ \A i \in DOMAIN deliveries : deliveries[i].status = "sent" => MailsOf(i) # {}
  /\ \A b \in DOMAIN batches :
       IF batches[b].status = "pending" THEN batches[b].delivery = NULL
       ELSE /\ batches[b].delivery \in DOMAIN deliveries
            /\ deliveries[batches[b].delivery].status = "sent"
            /\ \E i \in MailsOf(batches[b].delivery) : b \in mailbox[i].batches

(* The same of a notification, whose status an update may set back to      *)
(* "pending" at any time.                                                  *)
SentNoteWasMailed ==
  \A n \in DOMAIN notifications :
    IF notifications[n].status = "pending" THEN notifications[n].delivery = NULL
    ELSE /\ notifications[n].delivery \in DOMAIN deliveries
         /\ deliveries[notifications[n].delivery].status = "sent"
         /\ \E i \in MailsOf(notifications[n].delivery) : n \in IdsOf(mailbox[i].notes)

(* What the reader gets: a summary that says something and is "sent" was   *)
(* in the text of an accepted mail.  It holds while groups keep their type:*)
(* complete_delivery also ticks off what the renderer left out.            *)
SentWasShown ==
  \A b \in DOMAIN batches : batches[b].status = "sent" /\ batches[b].content # "nothing" =>
    \E i \in DOMAIN mailbox : b \in mailbox[i].rendered

(* With one deliverer a summary is mailed again only if the outcome of the *)
(* earlier delivery was never recorded as sent (the provider's answer was  *)
(* lost, or the process died before complete_delivery).                    *)
RepeatedOnlyIfUnacknowledged ==
  \A i, j \in DOMAIN mailbox :
    i < j /\ mailbox[i].batches \cap mailbox[j].batches # {} =>
      deliveries[mailbox[i].delivery].status # "sent"

SentDeliveries == {i \in DOMAIN deliveries : deliveries[i].status = "sent"}

(* With one deliverer the windows of the sent deliveries join up, first to *)
(* last, and the cursor is where the last one ends, however many attempts  *)
(* failed in between.                                                      *)
WindowsJoinUp ==
  /\ \A i \in SentDeliveries :
       LET before == {j \in SentDeliveries : j < i}
       IN  /\ deliveries[i].start < deliveries[i].end
           /\ IF before = {} THEN deliveries[i].start = NULL
              ELSE \E j \in before : /\ \A k \in before : k <= j
                                     /\ deliveries[i].start = deliveries[j].end
  /\ \A i \in SentDeliveries :
       (\A j \in SentDeliveries : j <= i) => cursor = deliveries[i].end
  /\ SentDeliveries = {} => cursor = NULL

(* The cursor only moves forward, and only in a step that records as sent  *)
(* a delivery the provider accepted.                                       *)
CursorFollowsMail ==
  [][cursor' # cursor =>
       /\ cursor' > cursor
       /\ \E i \in DOMAIN deliveries : /\ deliveries[i].status # "sent"
                                       /\ deliveries'[i].status = "sent"
                                       /\ deliveries[i].end = cursor'
                                       /\ MailsOf(i) # {}]_allVars

(* What was recorded is not written again, whichever calls overlap or come *)
(* later.  A delivery keeps its window, and once it says how it ended it   *)
(* says so for ever; a summary that is ticked off stays as it is, under the*)
(* delivery that mailed it; a notification that is ticked off is not       *)
(* relabelled with another delivery, unless a new update is announced      *)
(* first.                                                                  *)
OutcomesAreFinal ==
  [][/\ \A i \in DOMAIN deliveries :
          /\ i \in DOMAIN deliveries'
          /\ deliveries'[i].start = deliveries[i].start /\ deliveries'[i].end = deliveries[i].end
          /\ deliveries'[i].status # deliveries[i].status =>
               deliveries[i].status = "preparing" /\ deliveries'[i].status \in {"sent", "failed"}
     /\ \A b \in DOMAIN batches : batches[b].status = "sent" =>
          b \in DOMAIN batches' /\ batches'[b] = batches[b]
     /\ \A n \in DOMAIN notifications : notifications[n].status = "sent" =>
          /\ n \in DOMAIN notifications'
          /\ \/ notifications'[n].status = "sent" /\ notifications'[n].delivery = notifications[n].delivery
             \/ notifications'[n].status = "pending" /\ notifications'[n].delivery = NULL]_allVars

(* A notification that is "sent" was mailed with the update it holds now.  *)
UpdateWasMailed ==
  \A n \in DOMAIN notifications :
    notifications[n].status = "sent" /\ notifications[n].update \in Text =>
      \E i \in DOMAIN mailbox : [id |-> n, update |-> notifications[n].update] \in mailbox[i].notes

(* Whatever fails, crashes or overlaps, the pipeline from the arrival of a *)
(* message to the digest keeps the promise of Lifecycle: here a message is *)
(* the id of its row, and it is in the state its summary is in.            *)
RowsOf(B) == UNION {IdsOf(batches[b].shown) : b \in B}

Promise == INSTANCE Lifecycle WITH
             Id         <- 1..MaxRows,
             waiting    <- {r \in RowIds : messages[r].batch = NULL},
             summarised <- RowsOf(PendingBatches),
             sent       <- RowsOf(DOMAIN batches \ PendingBatches),
             mailed     <- RowsOf(UNION {mailbox[i].batches : i \in DOMAIN mailbox})

KeepsPromise == Promise!LSpec

(* Every summary that can be shown is sent some day.                       *)
EventuallySent ==
  \A b \in 1..MaxRows :
    (b \in DOMAIN batches /\ batches[b].status = "pending" /\ Rendered(b))
      ~> (b \in DOMAIN batches /\ batches[b].status = "sent")
=============================================================================
