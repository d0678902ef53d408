-------------------------------- MODULE Runtime --------------------------------
(***************************************************************************)
(* How the processes start (build_runtime of app/runtime.py with migrate of*)
(* app/storage/database.py), when the scheduler calls the daily digest     *)
(* (app/jobs/scheduler.py), and how PUT /api/v1/subscription of app/api.py *)
(* changes the two settings both depend on.                                *)
(*                                                                         *)
(* The server and commands of the CLI start on one database file, possibly *)
(* at the same time; any of them may die at any moment and be started      *)
(* again.  Jobs are kept in memory.                                        *)
(*                                                                         *)
(* Left out: the retention setting, which is written but never read,       *)
(* the other two jobs, and a fire that is more than misfire_grace_time     *)
(* late, which needs an event loop blocked for an hour.                    *)
(***************************************************************************)
EXTENDS Integers, Sequences, SequencesExt

CONSTANTS
  Proc,           \* operating system processes
  Server,         \* the one that serves the API and runs the scheduler
  Tables,         \* the CREATE statements of the script, in order
  Columns,        \* the columns added to table groups, in order
  OldSchemas,     \* the schemas the database file may have at first
  Config,         \* address and time of config.yaml
  Request,        \* calls of PUT /api/v1/subscription
  Asked,          \* address and time each of them asks for
  DayLength,      \* minutes of a day
  MaxClock        \* bound on the clock

ASSUME ServerAssumption == Server \in Proc
ASSUME DayAssumption == /\ DayLength \in Nat \ {0}
                        /\ MaxClock \in Nat
                        /\ Config.time \in 0..(DayLength - 1)
                        /\ \A r \in Request : Asked[r].time \in 0..(DayLength - 1)

VARIABLES
  schema,     \* the tables, the columns and the version row there are
  settings,   \* table settings: subscription_email and daily_email_time
  pc,         \* where each process is
  step,       \* its position in the migration
  columns,    \* what PRAGMA table_info told it
  request,    \* where each call of PUT subscription is
  job,        \* the daily_digest job of the scheduler: its time and next run
  delivering, \* whether digest_job is running
  clock,      \* minutes since the start of the first day
  saved,      \* history: what the request that was saved last asked for
  torn,       \* history: a request failed after one of its two writes
  fired       \* history: when digest_job was called

startVars == <<pc, step, columns>>
jobVars   == <<job, delivering>>
rvars     == <<schema, settings, startVars, request, jobVars, clock, saved, torn, fired>>

NoJob == [time |-> 0, next |-> 0]

PC    == {"down", "migrate", "email", "time", "schedule", "up"}
Place == {"none", "confirm", "email", "time", "reschedule"}

(* Faulty variant for mutation: the version is recorded first. *)
VersionFirst == Tables \o <<"version">> \o Columns

Script == Tables \o Columns \o <<"version">>

Complete == ToSet(Tables) \cup ToSet(Columns) \cup {"version"}

(* The row of SCHEMA_VERSION is in a file only if an upgrade to it was     *)
(* brought to its end.                                                     *)
ASSUME SchemaAssumption == /\ Tables \in Seq(STRING) /\ Columns \in Seq(STRING)
                           /\ "version" \notin ToSet(Tables) \cup ToSet(Columns)
                           /\ \A S \in OldSchemas :
                                /\ S \subseteq Complete
                                /\ "version" \in S => Complete \subseteq S

RInit ==
  /\ schema \in OldSchemas
  /\ settings = <<>>
  /\ pc      = [p \in Proc |-> "down"]
  /\ step    = [p \in Proc |-> 1]
  /\ columns = [p \in Proc |-> {}]
  /\ request = [r \in Request |-> "none"]
  /\ job     = NoJob
  /\ delivering = FALSE
  /\ clock   = 0
  /\ saved   = Config
  /\ torn    = FALSE
  /\ fired   = <<>>

-----------------------------------------------------------------------------
(* Start of a process *)

Boot(p) ==
  /\ pc[p] = "down"
  /\ pc' = [pc EXCEPT ![p] = "migrate"]
  /\ step' = [step EXCEPT ![p] = 1]
  /\ UNCHANGED <<schema, settings, columns, request, jobVars, clock, saved, torn, fired>>

Statement(p) == Script[step[p]]

Migrating(p) == pc[p] = "migrate"

NextStatement(p) ==
  /\ step' = [step EXCEPT ![p] = @ + 1]
  /\ pc' = IF step[p] = Len(Script) THEN [pc EXCEPT ![p] = "email"] ELSE pc

Died(p) ==
  /\ pc' = [pc EXCEPT ![p] = "down"]
  /\ columns' = [columns EXCEPT ![p] = {}]
  /\ UNCHANGED step

(* executescript commits the transaction that migrate had begun, so that   *)
(* from here on every statement is a transaction of its own:               *)
(* CREATE TABLE IF NOT EXISTS, and INSERT OR IGNORE of the version.        *)
CreateIfAbsent(p) ==
  /\ Migrating(p)
  /\ Statement(p) \notin ToSet(Columns)
  /\ schema' = schema \cup {Statement(p)}
  /\ NextStatement(p)
  /\ columns' = [columns EXCEPT ![p] = IF step[p] = Len(Tables) THEN ToSet(Columns) \cap schema ELSE @]
  /\ UNCHANGED <<settings, request, jobVars, clock, saved, torn, fired>>

(* Faulty variant for mutation: the column is added without a look at      *)
(* table_info.                                                             *)
NeverSeen(p) == FALSE

Seen(p) == Statement(p) \in columns[p]

(* ALTER TABLE ADD COLUMN, unless table_info had the column.  A process    *)
(* that added it since makes the statement fail, and the start with it.    *)
AddColumn(p) ==
  /\ Migrating(p)
  /\ Statement(p) \in ToSet(Columns)
  /\ \/ /\ Seen(p)
        /\ NextStatement(p)
        /\ UNCHANGED <<schema, columns>>
     \/ /\ ~Seen(p) /\ Statement(p) \notin schema
        /\ schema' = schema \cup {Statement(p)}
        /\ NextStatement(p)
        /\ UNCHANGED columns
     \/ /\ ~Seen(p) /\ Statement(p) \in schema
        /\ Died(p)
        /\ UNCHANGED schema
  /\ UNCHANGED <<settings, request, jobVars, clock, saved, torn, fired>>

SetSetting(key, value) ==
  settings' = [k \in DOMAIN settings \cup {key} |-> IF k = key THEN value ELSE settings[k]]

(* Faulty variant for mutation: INSERT OR REPLACE. *)
SetAnyway(key, value) == SetSetting(key, value)

SetSettingIfAbsent(key, value) ==
  IF key \in DOMAIN settings THEN UNCHANGED settings ELSE SetSetting(key, value)

DefaultEmail(p) ==
  /\ pc[p] = "email"
  /\ SetSettingIfAbsent("email", Config.email)
  /\ pc' = [pc EXCEPT ![p] = "time"]
  /\ UNCHANGED <<schema, step, columns, request, jobVars, clock, saved, torn, fired>>

(* Faulty variant for mutation: a time that has just come counts as well. *)
FromNow(t, n) == CHOOSE k \in n..(n + DayLength - 1) : k % DayLength = t

(* CronTrigger: the next minute after n with that hour and minute. *)
NextRun(t, n) == CHOOSE k \in (n + 1)..(n + DayLength) : k % DayLength = t

JobAt(t) == [time |-> t, next |-> NextRun(t, clock)]

(* Faulty variant for mutation: the time of config.yaml is scheduled. *)
ConfiguredTime == Config.time

ScheduledTime == settings.time

(* Faulty variant for mutation: the scheduler is started when it is built, *)
(* in a CLI process too.                                                   *)
StartWhenBuilt(p) ==
  /\ pc[p] = "time"
  /\ SetSettingIfAbsent("time", Config.time)
  /\ pc' = [pc EXCEPT ![p] = IF p = Server THEN "schedule" ELSE "up"]
  /\ job' = JobAt(Config.time)
  /\ UNCHANGED <<schema, step, columns, request, delivering, clock, saved, torn, fired>>

(* The scheduler of a CLI process is built but not started. *)
DefaultTime(p) ==
  /\ pc[p] = "time"
  /\ SetSettingIfAbsent("time", Config.time)
  /\ pc' = [pc EXCEPT ![p] = IF p = Server THEN "schedule" ELSE "up"]
  /\ UNCHANGED <<schema, step, columns, request, jobVars, clock, saved, torn, fired>>

(* build_scheduler reads the time, scheduler.start computes the next run.  *)
StartScheduler ==
  /\ pc[Server] = "schedule"
  /\ pc' = [pc EXCEPT ![Server] = "up"]
  /\ job' = JobAt(ScheduledTime)
  /\ UNCHANGED <<schema, settings, step, columns, request, delivering, clock, saved, torn, fired>>

-----------------------------------------------------------------------------
(* PUT /api/v1/subscription *)

(* After the await of the confirmation mail the handler does not yield, so *)
(* no other coroutine of the server runs until it is done.                 *)
Unyielding == {"email", "time", "reschedule"}
Busy == \E r \in Request : request[r] \in Unyielding

(* Faulty variant for mutation: the writes are awaited as well. *)
MayRunAnytime(r) == TRUE

MayRun(r) == \A q \in Request \ {r} : request[q] \notin Unyielding

Goto(r, place) == request' = [request EXCEPT ![r] = place]

Put(r) ==
  /\ pc[Server] = "up" /\ ~Busy
  /\ request[r] = "none"
  /\ Goto(r, "confirm")
  /\ UNCHANGED <<schema, settings, startVars, jobVars, clock, saved, torn, fired>>

(* The confirmation mail was sent. *)
Confirmed(r) ==
  /\ request[r] = "confirm"
  /\ MayRun(r)
  /\ Goto(r, "email")
  /\ UNCHANGED <<schema, settings, startVars, jobVars, clock, saved, torn, fired>>

(* The mail could not be sent: 502, nothing is changed. *)
NotConfirmed(r) ==
  /\ request[r] = "confirm"
  /\ MayRun(r)
  /\ Goto(r, "none")
  /\ UNCHANGED <<schema, settings, startVars, jobVars, clock, saved, torn, fired>>

SaveEmail(r) ==
  /\ request[r] = "email"
  /\ MayRun(r)
  /\ SetSetting("email", Asked[r].email)
  /\ Goto(r, "time")
  /\ UNCHANGED <<schema, startVars, jobVars, clock, saved, torn, fired>>

SaveTime(r) ==
  /\ request[r] = "time"
  /\ MayRun(r)
  /\ SetSetting("time", Asked[r].time)
  /\ Goto(r, "reschedule")
  /\ saved' = Asked[r]
  /\ torn' = FALSE
  /\ UNCHANGED <<schema, startVars, jobVars, clock, fired>>

(* update_delivery_schedule: the next run is computed anew. *)
Reschedule(r) ==
  /\ request[r] = "reschedule"
  /\ MayRun(r)
  /\ job' = JobAt(Asked[r].time)
  /\ Goto(r, "none")
  /\ UNCHANGED <<schema, settings, startVars, delivering, clock, saved, torn, fired>>

(* The database stays locked for longer than busy_timeout: 500. *)
WriteFails(r) ==
  /\ request[r] \in {"email", "time"}
  /\ MayRun(r)
  /\ Goto(r, "none")
  /\ torn' = (torn \/ request[r] = "time")
  /\ UNCHANGED <<schema, settings, startVars, jobVars, clock, saved, fired>>

-----------------------------------------------------------------------------
(* The scheduler *)

Late == job # NoJob /\ job.next <= clock

(* The job is called, unless its call before still runs (max_instances=1). *)
Fire ==
  /\ Late /\ ~Busy
  /\ job' = [job EXCEPT !.next = NextRun(job.time, clock)]
  /\ delivering' = TRUE
  /\ fired' = IF delivering THEN fired ELSE Append(fired, clock)
  /\ UNCHANGED <<schema, settings, startVars, request, clock, saved, torn>>

(* digest_job returns; it catches what deliver raises. *)
Delivered ==
  /\ delivering /\ ~Busy
  /\ delivering' = FALSE
  /\ UNCHANGED <<schema, settings, startVars, request, job, clock, saved, torn, fired>>

(* A run that is due is called within the minute, unless the loop is busy. *)
Tick ==
  /\ clock < MaxClock
  /\ job # NoJob => clock < job.next \/ (Busy /\ clock = job.next)
  /\ clock' = clock + 1
  /\ UNCHANGED <<schema, settings, startVars, request, jobVars, saved, torn, fired>>

(* A process ends, or dies.  With the server go its requests and jobs. *)
Crash(p) ==
  /\ pc[p] # "down"
  /\ Died(p)
  /\ IF p = Server
     THEN /\ request' = [r \in Request |-> "none"]
          /\ job' = NoJob
          /\ delivering' = FALSE
          /\ torn' = (torn \/ \E r \in Request : request[r] = "time")
     ELSE UNCHANGED <<request, jobVars, torn>>
  /\ UNCHANGED <<schema, settings, clock, saved, fired>>

StartStep(p) ==
  \/ Boot(p) \/ CreateIfAbsent(p) \/ AddColumn(p) \/ DefaultEmail(p) \/ DefaultTime(p)
  \/ p = Server /\ StartScheduler

RequestStep(r) ==
  \/ Confirmed(r) \/ NotConfirmed(r) \/ SaveEmail(r) \/ SaveTime(r) \/ Reschedule(r) \/ WriteFails(r)

RNext ==
  \/ \E p \in Proc : StartStep(p) \/ Crash(p)
  \/ \E r \in Request : Put(r) \/ RequestStep(r)
  \/ Fire \/ Delivered \/ Tick

RSpec == RInit /\ [][RNext]_rvars

(* supervisor starts the server again and again (autorestart); from some   *)
(* time on it is ended by nothing but its own migration.  Nothing is       *)
(* assumed of the CLI.                                                     *)
RFairness ==
  /\ WF_rvars(StartStep(Server))
  /\ <>[][Crash(Server) => AddColumn(Server)]_rvars

-----------------------------------------------------------------------------
(* Properties *)

(* Type invariant; the job exists while the server is up and only then. *)
RTypeOK ==
  /\ schema \subseteq Complete
  /\ pc \in [Proc -> PC]
  /\ step \in [Proc -> 1..(Len(Script) + 1)]
  /\ columns \in [Proc -> SUBSET ToSet(Columns)]
  /\ request \in [Request -> Place]
  /\ DOMAIN settings \subseteq {"email", "time"}
  /\ job # NoJob <=> pc[Server] = "up"
  /\ job # NoJob => job.time \in 0..(DayLength - 1) /\ job.next \in Nat
  /\ delivering \in BOOLEAN
  /\ clock \in 0..MaxClock
  /\ fired \in Seq(Nat)

(* However often the upgrade was cut off, whichever processes ran it at    *)
(* the same time: a process that is past it, and the version row, which is *)
(* written last, find every table and column there.                        *)
MigratedBeforeUse ==
  /\ \A p \in Proc : pc[p] \notin {"down", "migrate"} => Complete \subseteq schema
  /\ "version" \in schema => Complete \subseteq schema

(* The two settings are those of one request, the one saved last, or of    *)
(* config.yaml: overlapping requests do not mix and a restart does not     *)
(* bring back the defaults.  Only a crash or a failing write between the   *)
(* two transactions splits a request, until one is saved whole, and then   *)
(* it is the address alone that is ahead: the time, which the job runs at, *)
(* stays that of the last request that was saved whole, over restarts too. *)
SettingsAreOneRequest ==
  /\ ~torn /\ (\A r \in Request : request[r] # "time") =>
       \A key \in DOMAIN settings : settings[key] = saved[key]
  /\ "time" \in DOMAIN settings => settings.time = saved.time

(* While the server runs, its job runs at the time the settings name, the  *)
(* next time within a day, whatever happened to requests and processes.    *)
JobFollowsSetting ==
  job # NoJob =>
    /\ job.next % DayLength = job.time
    /\ job.next <= clock + DayLength
    /\ (\A r \in Request : request[r] # "reschedule") => job.time = settings.time

(* digest_job is called once in a minute at most, so at most once a day    *)
(* for one daily time, also when the server is restarted or the time is    *)
(* set again just then.                                                    *)
OncePerMinute == \A i, j \in DOMAIN fired : fired[i] = fired[j] => i = j

(* The server comes up in the end and stays up, although processes that    *)
(* upgrade the database at the same time may make each other fail.         *)
ServerComesUp == <>[](pc[Server] = "up")
=============================================================================
