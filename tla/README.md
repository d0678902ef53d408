# Formal model of QQ Group Summary

TLA+ models, TLC runs and TLAPS proofs of the message pipeline of this
repository: QQ messages reach the server through a Koishi plugin, are stored,
turned into stage summaries by a language model, and mailed once a day. The
models follow the code under `app/` and `koishi/src/`; every definition that
stands for code is mapped to its lines in `PROJECT.json`.

Check a run with `tlc -config MCClaims.cfg MCSummarizer` (module and cfg of each
run are in `PROJECT.json`), the proofs of a module with
`tlapm SummarizerProofs.tla`.

## The system

```
 Koishi (TypeScript)            server process                      CLI process
 +-----------------+   HTTP   +------------------------------+   +-----------------+
 | on message      |--------->| api: request threads         |   | summarize       |
 | syncBridge 30 s |          | scheduler on the event loop: |   | send-digest     |
 +-----------------+          |   summarize (1 min)          |   | cleanup         |
                              |   daily_digest (cron)        |   +--------+--------+
                              |   cleanup (03:15, thread)    |            |
                              +------+---------------+-------+            |
                                     |               |                    |
                          language model,       SQLite (WAL), BEGIN IMMEDIATE
                          mail provider          one file, both processes
```

| Component | State | Operations | Interaction |
|---|---|---|---|
| storage (`app/storage/database.py`) | tables groups, messages, summary_batches, notifications, deliveries, settings, mail_events | one transaction per method | everything shared goes through it |
| summarizer (`app/summarizer/service.py`, `schemas.py`) | `_run_lock`; locals of a pass: groups still to visit, messages read | `summarize_due_groups`, `summarize_group` | reads, awaits the model, saves under a claim check |
| triggers (`app/summarizer/triggers.py`) | none | `trigger_reason` | called with the messages read and a `now` taken before the lock |
| digest (`app/digest/service.py`) | locals of a call; cursor `last_successful_delivery_at` | `deliver` | forced summary pass, reads, sends in a thread, completes or fails |
| renderer (`app/digest/renderer.py`) | none | `render_digest` | chooses fields by the group type of now |
| scheduler (`app/jobs/scheduler.py`) | three jobs in memory, `max_instances=1` | start, run, reschedule | swallows the exceptions of the jobs |
| cli (`app/cli.py`) | none | init-db, summarize, send-digest, cleanup | a second process: another lock, the same tables |
| ingestion (`app/ingestion/`) | none | `ingest` | classify noise, `insert_message` |
| api (`app/api.py`) | none of its own | endpoints | request threads between any two database calls of the jobs; PUT subscription on the event loop |
| runtime (`app/runtime.py`, `app/main.py`) | the settings in the table, the jobs in the scheduler | `build_runtime` with `migrate`, `update_delivery_schedule`, lifespan | every process builds one on the same file |
| failover (`app/llm/`) | attempt counters of a call | `generate_validated` | primary with retries, then fallback |
| mail (`app/mail/`) | none | `send` | accepts, refuses, or the answer is lost |
| qq login (`app/qq_login.py`) | cached credential under a lock | `snapshot`, `refresh_qr_code` | request threads share it; renews the credential once |
| koishi forwarder (`koishi/src/`) | none that lasts | on message, syncBridge | posts activity, then the message with retries; the group list every 30 s |
| config, web UI, deployment, prompts | | | no state of the pipeline |

What makes each of them correct, and what is hard about it:

* **storage**: a message row is claimed by at most one summary and the claim
  names it; pending messages are never deleted; ids are not reused; a
  notification exists once per dedup key. Hard: another process between any two
  transactions, cleanup by age meanwhile.
* **summarizer**: one snapshot per group and pass, saved whole or not at all;
  every pending message is summarised in the end. Hard: minutes of waiting for
  the model between reading and saving, exceptions half way through the groups,
  two processes, crashes.
* **digest**: what is ticked off was in an accepted mail; what was not ticked
  off is mailed again; windows join up; the cursor moves only forward. Hard:
  the mail is sent while summaries go on, the provider's answer may be lost, a
  crash between acceptance and `complete_delivery`, two deliverers.
* **triggers, failover**: a group is summarised when it is due and not earlier;
  the fallback is asked after the primary's retries. Hard: `now` is taken before
  the lock and before the model calls of earlier groups, messages arrive
  meanwhile.
* **forwarder**: content only of selected groups; what the handler is told is
  true; the catalogue becomes the list of the account's groups. Hard: requests
  that time out and are carried out later, two syncs under way at once, groups
  read page by page while they change.
* **runtime, scheduler, subscription**: nobody uses a half upgraded database;
  address and time are those of one request; the job runs at the stored time
  and at most once a minute. Hard: two processes migrate at once, crashes
  between any two statements, overlapping requests that wait for their mails.
* **qq login**: one renewal for all threads; the lock is always freed. Hard: a
  lock held across four HTTP calls that may all raise, sessions that expire in
  between.

The hazards, each with its line and the property that would catch it, are
listed under `hazards` in `PROJECT.json`.

## The modules

**Store** holds the shared tables and one operator per transaction. Every
write of `Database` runs under `BEGIN IMMEDIATE`, so each is one atomic step; a
transaction that raises changes nothing and is no step. Rows are records,
`messages` is a function from the ids still stored, `batches` and
`notifications` are sequences because their rows are never deleted.
`summary_json` is kept as the rows it was written from (`shown`), the schema
(`kind`) and what it says (`content`: nothing, something in the shared field
`overview`, or only in fields of its own schema); `by` is a history field.
`SaveSummaryBatch` is the whole of `save_summary_batch`: claim check, insert,
claim, and the fold of the candidates through `UpsertNotification`.

**Summarizer** extends Store with the workers. A worker is one call of
`summarize_due_groups`; its `pc` stops where the code calls the database or
awaits: `waiting` (for the lock), `group` (before `get_group`), `messages`
(before `pending_messages`), `llm` (awaiting the model). `Request`, `Enter`,
`GetGroup`, `NotDue`, `Due`, `Save`, `Finish` are the steps of the normal path;
`Abort` is an exception at any of them, which leaves the loop and releases the
lock; `Crash` is the death of a process, which can come at any time and has no code
(the orderly shutdown in `app/runtime.py` is another thing). `runLock` is a queue per process: the
holder, then the waiters in order, as `asyncio.Lock` grants them. `Environment`
is what the request threads and the cleanup job do meanwhile: `Ingest`,
`Activity`, `Subscribe`, `SyncGroups`, `Cleanup`.

**TimedSummarizer** extends Summarizer with what it leaves to chance: a clock,
the `now` each call takes before it asks for the lock (`TakenTime`),
`trigger_reason` by count, idle time and longest window (`TriggerReason`,
`Decide`), and the attempts of `generate_validated` over the primary and the
fallback (`NextAttempt`). Every step of it is a step of Summarizer or leaves
Summarizer's variables alone (`ImplementsSummarizer`).

**Digest** extends Summarizer with `deliver` and the tables only it writes. A
deliverer is a worker whose pass is the first step of `deliver`. Between the end
of that pass and the await of the mailer `deliver` does not yield, so no other
coroutine of its process runs (`LoopFree`), but request threads and the other
process do; the two SELECTs of `pending_digest` are two steps because they are
not in one transaction. `SendAccepted` and `SendRaises` are the outcomes of the
mailer; in `SendRaises` the provider may have accepted all the same. `mailbox`
is a history variable: the mails the provider accepted and what they were made
from. `now` is a rank above all times stored or held by a call, because the
code only stores and compares by order.

**Lifecycle** is the abstract promise for every stored message: received,
summarised once, mailed, ticked off only after it was mailed, never back. It
knows nothing of groups, locks, processes or deliveries; `LifecycleOK` is what
the promise comes to. Digest implements it
under the mapping `Promise` (`KeepsPromise`).

**Forwarder** extends Store with the Koishi plugin and the API in front of the
tables. A message handler goes through `activity`, `ready` and `posted`;
`syncBridge` calls are at a page of the group list. `inflight` holds the
requests the server may still carry out: giving up on a request does not take it
out of there, so it may be carried out after the handler has retried, ended or
died. The module instantiates Summarizer without workers: every step must be one
of the environment Summarizer assumes (`ImplementsEnvironment`), which composes
the two.

**Runtime** models the processes' start (`migrate` statement by statement,
because `executescript` commits, then the two defaults), the scheduler's daily
job with its next run, the steps of PUT subscription, and the clock in minutes.
Of all coroutines of the server one at a time runs without yielding (`MayRun`).

**QQLogin** models the request threads of the login page: the lock, the cached
credential, the refused request that leads to one renewal, and NapCat's sessions
as numbers, the credential being the number of the session it belongs to.

**MCSummarizer, MCTimed, MCDigest, MCForwarder, MCRuntime, MCQQLogin** give the
constants of the runs. **SummarizerProofs, TimedProofs, DigestProofs,
OneDelivererProofs, OrderLemmas, ForwarderProofs, RuntimeProofs, QQLoginProofs**
hold the theorems and lemmas.

Operators introduced by "Faulty variant for mutation" are broken versions of the
definition that follows them. No specification uses them: each is put in place
of that definition to see that a property notices.

## The runs

| Run | Instance | Shows |
|---|---|---|
| claims | 1 group, 2 messages, 3 rows, server (job, api) and CLI, crashes | no message row summarised twice, a QQ message only after its earlier row was deleted; none lost or claimed by the wrong summary; the claim check fails only across processes; every pending message is summarised in the end although the CLI takes claims away |
| notes | 2 course groups, 2 messages, 3 rows, 1 worker, up to 2 candidates per summary, subscriptions and catalogue changing | types; one notification per key; no dangling source reference; merging keeps entries and sources, and a new text as the update makes the entry pending (the empty text is the exception, see below) |
| timed | 2 groups of different policies, 3 messages, clock, primary with a retry and fallback | a summary is due when it is asked for; recorded attempts are those made; a group is given up only after all of them; the step from Summarizer to clock and providers is a refinement, the fairness Summarizer assumes of `Due` included |
| digest | 1 course group, 2 messages, job and digest, crashes, lost answers | batches and notifications ticked off only if mailed, summaries only if shown; repeats only after an unrecorded success; windows join up; the cursor follows accepted mails; outcomes and ticked-off rows are final; a new text of a mailed notification is pending; the lifecycle of Lifecycle; every summary with content is sent in the end |
| forwarder | 2 groups on 2 pages, 1 message, 1 retry, 2 syncs under way | content only of selected groups; outcomes are true; the plugin is Summarizer's environment; the catalogue converges |
| runtime | server and CLI, 2 tables, 2 columns, 3 initial schemas, 2 requests, days of 3 minutes | upgrade complete before use; settings of one request, and after a crash between the two writes the address alone ahead; job at the stored time, at most once a minute; the server comes up |
| qq_login | 2 threads, 3 sessions | one thread past the lock; refused only if the session expired meanwhile; one login per session; the lock is freed |
| poison_group, first_seen, lost_update, type_change, two_deliverers | small instances | five places where the code does not do what the documents say |

The five findings:

* **lost_update**: an update merged into a notification while its mail is being
  sent is marked sent although no mail showed it (`complete_delivery` marks by
  id what is still pending). The README promises that pending data is never
  dropped.
* **first_seen**: the main record of a notification is the message summarised
  first, not the one that appeared first, as `design.md` has it.
* **poison_group**: a group whose model calls keep failing keeps all groups
  after it from being summarised, although each group is meant to have its own
  buffer and triggers.
* **type_change**: a summary whose group changes its type before the digest is
  rendered by the fields of the new type, may show nothing, and is marked sent
  with the others.
* **two_deliverers**: when `send-digest` of the CLI overlaps the daily job, the
  call that started first may finish last and moves the cursor backwards.

Two runs look at two deliverers: two_deliverers shows what goes wrong, and
`NothingTickedOffUnmailed`, `RecordsAreFinal` and the other theorems of
`DigestProofs` prove for any number of them what does not. `SentWasShown` holds in the digest run, where no group changes
its type; type_change is the same property where one does.

One more place differs from the documents and is not a run of its own. An answer
may give `""` as the update of a notification it repeats. `COALESCE` takes it for
a value (`app/storage/database.py:410`), so it replaces a text that may never
have been mailed, and the digest then shows no update, although the README
promises that pending data is never dropped (`src/README.md:116`).
`UpdatesAreAnnounced` names this as its one exception: without the line
`new.update = EMPTY` in `Extends` the notes run fails. What the property does
say is that a text is replaced in no other way, and that a new text never stands
in an entry that counts as mailed.

### Bounds

* `MaxRows`: the rows ever inserted into `messages`. With one more row than
  messages a message can be cleaned up and delivered again under a new id, which
  is the case the claims and notes runs are about (one less would hide id reuse).
* `MaxMessages` is 1 or 2, so that a pass can find a group not due, due by
  count, and due by time. `MaxCandidates` bounds the notifications of one
  summary; two are needed for a duplicate within one answer.
* `MaxUnacked`: deliveries that were opened and never completed (failed sends,
  lost answers, crashes). The real number is unbounded; one is enough for a
  repetition, and a second repetition starts from the same tables but for one
  more unfinished delivery. A failure beyond the bound is not taken, which for
  liveness is what the fairness below assumes in any case. `MaxTime` bounds the
  ranks handed to `deliver` calls: with one deliverer none is refused by 8.
* `MaxClock` is 2 units in timed, one beyond the shorter and equal to the longer
  threshold, so a group is found not due, idle, and overdue; the idle time of
  the academic group is never reached, so only its window makes it due. It is 4
  minutes in runtime with days of 3: the job runs on two days and may be
  rescheduled before, at and after its time.
* `Retries` is one retry, so there is a first, a repeated and a last try; timed
  has a fallback without retry after it. `MaxMoves` lets the account leave one
  group, or enter it, while two calls of syncBridge hold older lists.
* `MaxSession` is 3: two expiries, so a credential can be two sessions old.

Two processes are enough for TLC, because a process meets another only through
the tables; most theorems hold for any number. Deadlock is not checked in the
runs whose rows, clock or moves are used up in the end; then nothing need be
left to do. It is checked in qq_login.

### Fairness

The safety properties need none; it is stated for the liveness properties, and
of the server only, never of the CLI:

* **Summarizer** (`Fairness`, claims): weak fairness of the steps of the job and
  of the other coroutines of its process that have begun, because the event loop
  runs ready coroutines and the interval trigger calls the job again and again,
  exceptions included; strong fairness of `Due` per group, because the longest
  window is measured from the first pending message (the timed run shows this
  from the clock, `JobFindsDue`); from some time on the process does not crash
  and a pass fails only for a reason in the tables or in the answers of the model
  (`MustAbort`: a group disabled meanwhile, a claim lost to another process, a
  group the model never answers for). A claim lost to the CLI is *not* excluded:
  progress is shown in spite of it.
* **TimedSummarizer** (`TimedFairness`): the clock goes on, the job's steps
  happen, and a provider that can answer for a group does so if it is asked again
  and again. Nothing is assumed about a group becoming due.
* **Digest** (`DFairness`): the same of the daily job, and strong fairness of
  `SendAccepted`: a provider that is asked every day accepts one day.
* **Forwarder** (`ForwarderFairness`): the timers and the server's threads run;
  from some time on syncBridge is not cut off between its post and its being
  carried out (`SyncUndisturbed`). Nothing is assumed of the message handler.
* **Runtime** (`RFairness`): the supervisor restarts the server and its start goes
  on; in the end it crashes only by its own failing `ALTER TABLE`, which is not
  excluded.
* **QQLogin** (`QFairness`): threads go on; HTTP calls end, if by their timeout.

## The proofs

All theorems hold for every value of the constants that satisfies the named
assumptions of the modules. Four need more, and for each a finding shows that it
fails otherwise: the three of `OneDelivererProofs` one deliverer, which is what
the daily job alone is (`max_instances=1`; two_deliverers shows the failure), and
`TickedOffWasShown` that subscriptions keep the type of a group
(`SubscriptionsKeepTypes`; type_change shows the failure).

| Theorem | Statement |
|---|---|
| TypeCorrect | `Spec => []Types`: tables and locals keep their types; who is past the lock holds it |
| SummarizerTypeCorrect | `Spec => []TypeOK`, the notifications included |
| ClaimsCorrect, NeverSummarisedTwice, LockKeepsSnapshotFresh, PendingIsKept | `Spec => []ClaimsMatchSummaries`, `[]SummarisedOnce`, `[]StaleOnlyAcrossProcesses`, `PendingOnlyLeavesBySummary` |
| NotificationsUnique, NewTextIsPending | `Spec => []OneNotificationPerKey`, `UpdatesAreAnnounced` |
| TimedImplements | `TimedSpec => Spec`: clock and providers refine the summarizer |
| NeverTooEarly, AttemptsAreThoseMade, GivenUpOnlyAtTheEnd | `TimedSpec => []OnlyWhenDue`, `[]AttemptsTellProvider`, `[]GivenUpAfterAll` |
| TimedKeepsClaims | the safety theorems of Summarizer for `TimedSpec`, by the refinement |
| NothingTickedOffUnmailed, NoNoteTickedOffUnmailed | `DSpec => []SentWasMailed`, `[]SentNoteWasMailed`, for any set of deliverers |
| DigestTypeCorrect | `DSpec => []DTypeOK` |
| TickedOffWasShown | `DSpec => []SentWasShown` while groups keep their type |
| RecordsAreFinal | `DSpec => OutcomesAreFinal` |
| DigestKeepsClaims, DigestKeepsNewTextPending | the claims, the unique keys and `UpdatesAreAnnounced` for `DSpec`, for any set of deliverers |
| DigestKeepsPromise | `DSpec => KeepsPromise`: Digest implements Lifecycle, for any set of deliverers |
| OneStateAtATime | `DSpec => []Promise!LifecycleOK`, from the promise alone |
| WindowsWithoutGaps, NoNeedlessRepeat, CursorNeverBack | with one deliverer, `DSpec => []WindowsJoinUp`, `[]RepeatedOnlyIfUnacknowledged`, `CursorFollowsMail` |
| ForwarderTypes, OnlySelectedContent, HandlerTellsTruth | `ForwarderSpec => []ForwarderTypeOK`, `[]ContentOnlyIfSelected`, `[]OutcomeIsTrue` |
| PluginIsEnvironment | `ForwarderSpec => ImplementsEnvironment` |
| RuntimeTypes, UpgradeIsWhole, SettingsDoNotMix, JobIsAsStored, NeverTwiceInAMinute | `RSpec => []RTypeOK`, `[]MigratedBeforeUse`, `[]SettingsAreOneRequest`, `[]JobFollowsSetting`, `[]OncePerMinute` |
| OneThreadInPost, RefusedOnlyByExpiry, OneLogin | `QSpec => []QTypeOK`, `[]RejectedOnlyIfExpired`, `[]OneLoginPerSession` |

**Summarizer.** `Types` is inductive because of `ControlInv`: a worker in
`group`, `messages` or `llm` is at the head of its process's lock queue, so of
two workers of one process at most one is past `Enter`. The claim invariants are
not inductive alone. That a stored row some batch was written from is claimed by
*that* batch could be broken by inserting a message under an id a batch or a
waiting worker already knows, and by saving a snapshot whose rows were exchanged
since. `ClaimInv` therefore adds `ClaimedIdsDrawn` and `ReadInv`: ids that were
read or claimed are at most `lastMessageId`, and a row that was read and is still
stored has the content it was read with. `Ingest` keeps them because an id only
grows, `Cleanup` because it only removes claimed rows, `Save` because
`save_summary_batch` checks that every row is unclaimed. The lock enters once:
another worker that waits for an answer is in another process than the one that
saves. `LatestRow` carries the second half of `SummarisedOnce`: where a message is
stored it has the last of the ids it was ever read or summarised under, so of two
summaries with one QQ message the earlier one's row is gone.

The table of notifications is written by a fold over the candidates of an answer.
`FoldLeft` recurs over the sets of positions that are left, and that such a
function exists (`FoldExists`) and what it stays in (`UpsertsStayIn`) is proved
without induction, by the smallest number for which it would fail: a set of
tables that one `UpsertNotification` does not leave is not left by any number of
them. What is left is one upsert. `NoteInv` says which tables those are, for
`OneNotificationPerKey` unique keys and sources that are claimed rows of the
entry's group, and why the candidates fit: a message is stored once, so the row
of a cited message is the row that was read, and that is of the group the worker
is at and is claimed in the same transaction. For `UpdatesAreAnnounced` it is
the tables that extend the one before (`Extends`); `complete_delivery` extends it
too, because it touches pending rows and no text.

**TimedSummarizer.** The refinement is step by step: `Decide` is `NotDue` or
`Due`, a failed attempt stutters until the last one, which is `Abort`. For
`OnlyWhenDue`, `TimeInv` keeps what `trigger_reason` found about the *messages
read* and the call's `now`; since `now` is at most the clock and the clock only
grows, the ages only grow. `AttemptInv` counts: the attempts of the request a
worker waits for are those of the providers before (`AttemptsOf`, a recursive
function, which exists by the same argument as the fold), the retries before, and
itself. So an answer costs what its provider says, and after the last attempt of
the last provider the count is that of all.

**Digest.** `DInv` adds to the invariants of Summarizer, which every step of
Digest preserves, that an open delivery belongs to exactly one call and is still
`preparing` (`OpenInv`), that the mail of an accepted call was made from what the
call read, and that only stored summaries are read (`KnownBatches`). So
`complete_delivery` of one call cannot touch another's delivery, and what it
ticks off is in its own mail. For the lifecycle, a saved batch is a `Summarise`
of its rows because their claims are checked, and nothing is received twice
because ids are drawn once (`ClaimedIdsDrawn`). For one deliverer, `WindowInv`
ties the open delivery's start to the cursor and puts the call's time above it;
`MailInv` says that the mails of recorded deliveries are ticked off and that an
open delivery has at most the last mail, so that two mails with one batch mean
that the first was never recorded. `OrderLemmas` supplies that finite sets of
numbers have a maximum and inhabited ones a minimum.

For notifications `Told` says of the calls what `DInv` says for batches: a ticked
off entry was in the accepted mail of the delivery it names, the mail of an
accepted call holds what the call read, and the locals of a call are typed by what
it can read. Between two deliveries an entry may only become fresh, pending
without a delivery, or keep both fields (`NotesMove`), for any number of upserts
in one step. `RecordsAreFinal` rests on this too (`TickedStep`): a summary pass
leaves ticked-off rows alone or announces them anew, and `complete_delivery`
touches only rows that are still pending, so the later of two overlapping
deliveries does not put its number on rows of the earlier.
`TickedOffWasShown` adds `FixedTypes`, that a summary was validated
against the type its group has, hence that a summary that says something is
rendered when it is read (`PendingRendered`), and `AllShown`, that this is so of
what calls hold and mails show. `OneStateAtATime` uses nothing of Digest but
`KeepsPromise`: it is proved from the steps of Lifecycle.

**Forwarder.** `FInv` says of every request on its way what the server's answer
to the activity post had said (`SelectedFirst`), and that a handler that still
tries has tries left (`TriesInv`).

**Runtime.** `SchemaInv`: what a migrating process has behind it is in the file
and columns are never removed, hence a process at the end finds everything,
whoever added it. `SettingsInv`: at most one request is past its confirmation
mail, because nothing is awaited after it, and what that request has written so
far is what is stored. The address is written first, so a request that is cut off
leaves at most the address ahead of the time. `JobInv`: the job's next run is later than every run.

**QQLogin.** `PostInv`: the thread at the post uses the shared credential, and
one that logs in found it expired.

Only model-checked: all liveness (`EventuallySummarised`, `JobFindsDue`,
`EventuallySent`, `CatalogueConverges`, `ServerComesUp`, `LockIsFreed`), which
needs fairness and ENABLED and is beyond this prover. Every safety property of a
passing run is also a theorem. What the five findings violate is of course not.

## Not modelled

* Text: prompts, normalisation of segments, noise patterns, wording and HTML of
  the digest; the JSON clean-up of a model's answer.
* I/O: HTTP to the model, to NapCat and to the mail providers, SMTP. Only the
  outcomes are modelled.
* `mail_events` and the Mailjet webhook (an idempotent insert nothing reads but
  the web page), the bridge status and `last_message_at` (overwriting writes that
  only the web page shows), the retention setting (written at the start and never
  read; cleanup takes its days from the configuration).
* Read-only queries and the web UI, among them the dashboard's time window, which
  is a comparison of two texts and a matter for a unit test.
* In Forwarder, the cleanup of old rows: it may only delete what is summarised,
  which Summarizer covers, redelivery afterwards included.
* Configuration parsing, authorisation, deployment scripts, except that processes
  are restarted. `sync_groups` and the public `upsert_notification`, which only
  tests call.
* A run of a job that is more than `misfire_grace_time` late, which needs an event
  loop that is blocked for an hour.

## What could come next

1. The plugin in front of the whole pipeline: Forwarder and Digest over the same
   tables, so that the theorems of Digest hold of requests that are carried out
   late.
2. Runtime and Digest composed: the daily job of one as the deliverer of the
   other, so that a day skipped by a restart shows in the lifecycle of a message.
