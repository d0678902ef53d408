---------------------------- MODULE TimedSummarizer ----------------------------
(***************************************************************************)
(* Summarizer with a clock and with the attempts of a model call: when     *)
(* trigger_reason of app/summarizer/triggers.py finds a group due, and how *)
(* FailoverLLM of app/llm/failover.py asks the providers.                  *)
(*                                                                         *)
(* Summarizer leaves to chance whether a small group is due and whether    *)
(* the model answers; here both are decided as the code decides them.      *)
(* Every behaviour of TimedSpec is one of Summarizer!Spec.                 *)
(***************************************************************************)
EXTENDS Summarizer

CONSTANTS
  Idle,       \* SummaryPolicy.idle_minutes of each group type
  Window,     \* SummaryPolicy.max_window_hours of each group type
  Retries,    \* retries of the primary provider, then of the fallback if any
  Usable,     \* the providers that may answer usably for a group
  MaxClock    \* bound on the clock

Provider == DOMAIN Retries

ASSUME ClockAssumption    == /\ Idle \in [GroupType -> Nat]
                             /\ Window \in [GroupType -> Nat]
                             /\ MaxClock \in Nat
ASSUME ProviderAssumption == /\ Retries \in Seq(Nat)
                             /\ Retries # <<>>
                             /\ Usable \in [Group -> SUBSET Provider]
                             /\ Poison = {g \in Group : Usable[g] = {}}

VARIABLES
  clock,      \* the time of day and date, in units of the smallest threshold
  now,        \* the time each call of summarize_due_groups took at its start
  why,        \* the reason a worker found the group at hand due
  attempt,    \* the request to a provider a worker waits for
  origin      \* provider and attempts of each row of summary_batches

timeVars  == <<clock, now, why, attempt, origin>>
timedVars == <<vars, timeVars>>

Reason    == {"forced", "message_count", "idle", "max_window"}
NoAttempt == [provider |-> 0, retry |-> 0, attempts |-> 0]

TimedInit ==
  /\ Init
  /\ clock   = 0
  /\ now     = [w \in Worker |-> 0]
  /\ why     = [w \in Worker |-> NONE]
  /\ attempt = [w \in Worker |-> NoAttempt]
  /\ origin  = <<>>

-----------------------------------------------------------------------------
(* trigger_reason *)

SentTimes(rows) == {SentAt[messages[r].message] : r \in rows}
Oldest(rows) == CHOOSE t \in SentTimes(rows) : \A u \in SentTimes(rows) : t <= u
Newest(rows) == CHOOSE t \in SentTimes(rows) : \A u \in SentTimes(rows) : u <= t

(* Faulty variants for mutation: one message too many; the difference is   *)
(* taken the wrong way.                                                    *)
MoreThanEnough(rows, type)   == Cardinality(rows) > MaxMessages[type]
QuietReversed(rows, type, t) == Newest(rows) - t >= Idle[type]

Enough(rows, type)     == Cardinality(rows) >= MaxMessages[type]
Quiet(rows, type, t)   == t - Newest(rows) >= Idle[type]
Overdue(rows, type, t) == t - Oldest(rows) >= Window[type]

TriggerReason(rows, type, t, force) ==
  IF rows = {} THEN NONE
  ELSE IF force THEN "forced"
  ELSE IF Enough(rows, type) THEN "message_count"
  ELSE IF Quiet(rows, type, t) THEN "idle"
  ELSE IF Overdue(rows, type, t) THEN "max_window"
  ELSE NONE

-----------------------------------------------------------------------------
(* generate_validated *)

FirstAttempt == [provider |-> 1, retry |-> 0, attempts |-> 1]

NextRetry(a)    == [a EXCEPT !.retry = @ + 1, !.attempts = @ + 1]
NextProvider(a) == [provider |-> a.provider + 1, retry |-> 0, attempts |-> a.attempts + 1]

(* Faulty variant for mutation: the fallback is asked before the primary   *)
(* is retried.                                                             *)
FallbackEarly(a) ==
  IF a.provider < Len(Retries) THEN NextProvider(a)
  ELSE IF a.retry < Retries[a.provider] THEN NextRetry(a)
  ELSE NoAttempt

(* What follows a failed attempt: a retry, the next provider, or LLMError. *)
NextAttempt(a) ==
  IF a.retry < Retries[a.provider] THEN NextRetry(a)
  ELSE IF a.provider < Len(Retries) THEN NextProvider(a)
  ELSE NoAttempt

-----------------------------------------------------------------------------
Tick ==
  /\ clock < MaxClock
  /\ clock' = clock + 1
  /\ UNCHANGED <<vars, now, why, attempt, origin>>

(* Faulty variant for mutation: the default of the parameter now is        *)
(* evaluated once, when the module is loaded.                              *)
LoadTime == 0

(* now = now or datetime.now(timezone.utc), before the lock is asked for. *)
TakenTime == clock

TimedRequest(w) ==
  /\ Request(w)
  /\ now' = [now EXCEPT ![w] = TakenTime]
  /\ UNCHANGED <<clock, why, attempt, origin>>

(* pending_messages, trigger_reason, and the first request to the primary. *)
Decide(w) ==
  LET reason == TriggerReason(PendingRows(Current(w)), kind[w], now[w], w \in Forced)
  IN  /\ pc[w] = "messages"
      /\ \/ /\ reason = NONE
            /\ pc' = [pc EXCEPT ![w] = "group"]
            /\ todo' = [todo EXCEPT ![w] = @ \ {Current(w)}]
            /\ kind' = [kind EXCEPT ![w] = NONE]
            /\ UNCHANGED <<shown, why, attempt>>
         \/ /\ reason # NONE
            /\ pc' = [pc EXCEPT ![w] = "llm"]
            /\ shown' = [shown EXCEPT ![w] = PendingSnapshot(Current(w))]
            /\ why' = [why EXCEPT ![w] = reason]
            /\ attempt' = [attempt EXCEPT ![w] = FirstAttempt]
            /\ UNCHANGED <<todo, kind>>
      /\ UNCHANGED <<storeVars, runLock, clock, now, origin>>

(* A request that fails, or an answer the schema refuses. *)
AttemptFails(w) ==
  /\ pc[w] = "llm"
  /\ NextAttempt(attempt[w]) # NoAttempt
  /\ attempt' = [attempt EXCEPT ![w] = NextAttempt(@)]
  /\ UNCHANGED <<vars, clock, now, why, origin>>

Answered(w) == /\ why' = [why EXCEPT ![w] = NONE]
               /\ attempt' = [attempt EXCEPT ![w] = NoAttempt]

(* The provider at hand answers usably and the summary is saved. *)
AnswerAndSave(w) ==
  /\ pc[w] = "llm"
  /\ attempt[w].provider \in Usable[Current(w)]
  /\ Save(w)
  /\ origin' = Append(origin, [provider |-> attempt[w].provider, attempts |-> attempt[w].attempts])
  /\ Answered(w)
  /\ UNCHANGED <<clock, now>>

Return(w) == /\ now' = [now EXCEPT ![w] = 0]
             /\ Answered(w)
             /\ UNCHANGED <<clock, origin>>

OnLastAttempt(w) == pc[w] = "llm" /\ NextAttempt(attempt[w]) = NoAttempt

(* The last attempt of the last provider failed: LLMError. *)
Exhausted(w) ==
  /\ OnLastAttempt(w)
  /\ Abort(w)
  /\ Return(w)

TimedStep(w) ==
  \/ TimedRequest(w)
  \/ (Enter(w) \/ GetGroup(w)) /\ UNCHANGED timeVars
  \/ Decide(w) \/ AttemptFails(w) \/ AnswerAndSave(w) \/ Exhausted(w)
  \/ (Finish(w) \/ Abort(w)) /\ Return(w)

TimedCrash(p) ==
  LET dead == {w \in Worker : ProcOf[w] = p}
  IN  /\ Crash(p)
      /\ now' = [w \in Worker |-> IF w \in dead THEN 0 ELSE now[w]]
      /\ why' = [w \in Worker |-> IF w \in dead THEN NONE ELSE why[w]]
      /\ attempt' = [w \in Worker |-> IF w \in dead THEN NoAttempt ELSE attempt[w]]
      /\ UNCHANGED <<clock, origin>>

(* A message arrives when it was sent, or later. *)
Arrive(m) == SentAt[m] <= clock /\ Ingest(m)

TimedNext ==
  \/ Tick
  \/ \E w \in Worker : TimedStep(w)
  \/ \E p \in Proc : TimedCrash(p)
  \/ /\ \/ \E m \in Message : Arrive(m)
        \/ \E g \in Group : Activity(g)
        \/ \E typeOf \in Subscriptions : Subscribe(typeOf)
        \/ \E listed \in Catalogues : SyncGroups(listed)
        \/ \E before \in Cutoffs : Cleanup(before)
     /\ UNCHANGED timeVars

TimedSpec == TimedInit /\ [][TimedNext]_timedVars

-----------------------------------------------------------------------------
(* Fairness of the scheduler's job.  Time goes on; the steps of the calls  *)
(* of the job's process happen; crashes and failing database calls end; a  *)
(* provider that can answer for a group does so some time if it is asked   *)
(* again and again.  Nothing is assumed about a group becoming due.        *)

TimedUndisturbed(p) ==
  \A w \in Worker : ProcOf[w] = p /\ pc[w] # "idle" /\ pc'[w] = "idle" =>
    Finish(w) \/ MustAbort(w) \/ OnLastAttempt(w)

TimedFairness(w) ==
  /\ WF_timedVars(Tick)
  /\ WF_timedVars(TimedStep(w))
  /\ \A g \in Group : SF_timedVars(AnswerAndSave(w) /\ Current(w) = g)
  /\ <>[][TimedUndisturbed(ProcOf[w])]_timedVars

-----------------------------------------------------------------------------
(* Properties *)

(* trigger_reason with the clock is one of the decisions Summarizer allows,*)
(* and the attempts of a model call are its one step of waiting: what the  *)
(* other modules show of Summarizer holds of the code with its clock.      *)
ImplementsSummarizer == Spec

(* The strong fairness that Summarizer!Fairness assumes of Due is what the *)
(* clock provides: a group with pending messages that the job w looks at   *)
(* again and again is found due, because now is taken anew by every call.  *)
DueIsFair(w) == \A g \in Group : SF_vars(Due(w) /\ Current(w) = g)

(* The time a call works with is older than the clock by the wait for the  *)
(* lock and the model calls before; it never makes a group due too early:  *)
(* while the model is asked because of the idle time or the window, the    *)
(* youngest (or the oldest) message it is shown really is that old.        *)
OnlyWhenDue ==
  \A w \in Worker : pc[w] = "llm" =>
    LET ages == {clock - SentAt[s.message] : s \in shown[w]}
    IN  /\ why[w] = "idle" => \A a \in ages : a >= Idle[kind[w]]
        /\ why[w] = "max_window" => \E a \in ages : a >= Window[kind[w]]
        /\ why[w] = "message_count" => Cardinality(shown[w]) >= MaxMessages[kind[w]]

(* The attempts that are made when the first p providers all fail. *)
AttemptsOf[p \in 0..Len(Retries)] ==
  IF p = 0 THEN 0 ELSE AttemptsOf[p - 1] + Retries[p] + 1

(* A summary of provider p cost all the attempts of the providers before   *)
(* it and at most its own; the attempts recorded with the row are those    *)
(* made.                                                                   *)
AttemptsTellProvider ==
  /\ Len(origin) = Len(batches)
  /\ \A b \in DOMAIN origin :
       /\ origin[b].attempts > AttemptsOf[origin[b].provider - 1]
       /\ origin[b].attempts <= AttemptsOf[origin[b].provider]

(* LLMError is raised, and the pass given up, only after every provider    *)
(* has failed as often as its retries allow.                               *)
GivenUpAfterAll ==
  \A w \in Worker : OnLastAttempt(w) => attempt[w].attempts = AttemptsOf[Len(Retries)]
=============================================================================
