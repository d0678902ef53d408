----------------------------- MODULE RuntimeProofs -----------------------------
(***************************************************************************)
(* Theorems about Runtime, for any number of processes and requests, any   *)
(* script and any length of the day.                                       *)
(***************************************************************************)
EXTENDS Runtime, SequenceTheorems, TLAPS

-----------------------------------------------------------------------------
(* The migration script and the daily time. *)

LEMMA ScriptFacts ==
  /\ Len(Script) \in Nat \ {0}
  /\ \A i \in 1..Len(Script) : Script[i] \in Complete
  /\ \A x \in Complete : \E i \in 1..Len(Script) : Script[i] = x
  /\ \A i \in 1..Len(Script) : Script[i] = "version" <=> i = Len(Script)
<1> DEFINE T == Len(Tables)
           C == Len(Columns)
           front == Tables \o Columns
           last == <<"version">>
<1>1. /\ T \in Nat /\ C \in Nat
      /\ ToSet(Tables) = {Tables[i] : i \in 1..T}
      /\ ToSet(Columns) = {Columns[i] : i \in 1..C}
  BY SchemaAssumption, LenProperties DEF ToSet
<1>0. Tables \in Seq(Complete) /\ Columns \in Seq(Complete)
  <2>1. Tables \in [1..T -> Complete] /\ Columns \in [1..C -> Complete]
    BY <1>1, SchemaAssumption, LenProperties DEF Complete
  <2> QED
    BY <1>1, <2>1, SeqDef
<1>2. /\ front \in Seq(Complete) /\ Len(front) = T + C
      /\ \A i \in 1..(T + C) : front[i] = IF i <= T THEN Tables[i] ELSE Columns[i - T]
  BY <1>0, ConcatProperties
<1>3. last \in Seq(Complete) /\ Len(last) = 1 /\ last[1] = "version"
  BY DEF Complete
<1>4. Script = front \o last
  BY DEF Script
<1> HIDE DEF front, last
<1>5. /\ Len(Script) = T + C + 1
      /\ \A i \in 1..(T + C + 1) : Script[i] = IF i <= T + C THEN front[i] ELSE last[i - (T + C)]
  <2>0. front \in Seq(Complete) /\ last \in Seq(Complete)
    BY <1>2, <1>3
  <2>1. /\ Len(Script) = Len(front) + Len(last)
        /\ \A i \in 1..(Len(front) + Len(last)) :
             Script[i] = IF i <= Len(front) THEN front[i] ELSE last[i - Len(front)]
    BY <2>0, <1>4, ConcatProperties
  <2> QED
    BY <1>2, <1>3, <2>1
<1>6. \A i \in 1..(T + C + 1) :
        Script[i] = IF i <= T THEN Tables[i] ELSE IF i <= T + C THEN Columns[i - T] ELSE "version"
  <2> SUFFICES ASSUME NEW i \in 1..(T + C + 1)
               PROVE  Script[i] = IF i <= T THEN Tables[i]
                                  ELSE IF i <= T + C THEN Columns[i - T] ELSE "version"
    OBVIOUS
  <2>1. CASE i <= T + C
    BY <1>1, <1>2, <1>5, <2>1
  <2>2. CASE ~(i <= T + C)
    <3>1. i = T + C + 1 /\ i - (T + C) = 1
      BY <1>1, <2>2
    <3> QED
      BY <1>1, <1>3, <1>5, <2>2, <3>1
  <2> QED
    BY <2>1, <2>2
<1> HIDE DEF T, C
<1>7. \A i \in 1..(T + C) : Script[i] \in ToSet(Tables) \cup ToSet(Columns)
  BY <1>1, <1>6
<1>8. Script[T + C + 1] = "version"
  BY <1>1, <1>6
<1>9. ASSUME NEW x \in Complete PROVE \E i \in 1..Len(Script) : Script[i] = x
  <2>1. CASE x \in ToSet(Tables)
    <3>1. PICK i \in 1..T : x = Tables[i]
      BY <1>1, <2>1
    <3> QED
      BY <1>1, <1>5, <1>6, <3>1
  <2>2. CASE x \in ToSet(Columns)
    <3>1. PICK i \in 1..C : x = Columns[i]
      BY <1>1, <2>2
    <3>2. i + T \in 1..(T + C) /\ ~(i + T <= T) /\ (i + T) - T = i
      BY <1>1
    <3>3. Script[i + T] = x
      BY <1>1, <1>6, <3>1, <3>2
    <3> QED
      BY <1>1, <1>5, <3>2, <3>3
  <2>3. CASE x = "version"
    BY <1>1, <1>5, <1>8, <2>3
  <2> QED
    BY <2>1, <2>2, <2>3 DEF Complete
<1>10. \A i \in 1..Len(Script) : Script[i] = "version" <=> i = Len(Script)
  <2>1. "version" \notin ToSet(Tables) \cup ToSet(Columns)
    BY SchemaAssumption, Zenon
  <2> QED
    BY <1>1, <1>5, <1>7, <1>8, <2>1
<1>11. \A i \in 1..Len(Script) : Script[i] \in Complete
  BY <1>1, <1>5, <1>7, <1>8 DEF Complete
<1> QED
  BY <1>1, <1>5, <1>9, <1>10, <1>11

(* The next run of a daily time is found, later than now and within a day. *)
LEMMA NextRunFacts ==
  ASSUME NEW t \in 0..(DayLength - 1), NEW n \in Nat
  PROVE  /\ NextRun(t, n) \in Nat /\ n < NextRun(t, n) /\ NextRun(t, n) <= n + DayLength
         /\ NextRun(t, n) % DayLength = t
<1> DEFINE q == n \div DayLength
           m == n % DayLength
           k == IF m < t THEN DayLength * q + t ELSE DayLength * (q + 1) + t
<1>1. DayLength \in Nat \ {0}
  BY DayAssumption
<1>2. n = DayLength * q + m /\ m \in 0..(DayLength - 1) /\ q \in Int
  BY <1>1
<1>3. DayLength * (q + 1) = DayLength * q + DayLength
  BY <1>1, <1>2
<1>4. DayLength * q \in Int
  BY <1>1, <1>2
<1> HIDE DEF q, m
<1>5. k \in (n + 1)..(n + DayLength)
  BY <1>1, <1>2, <1>3, <1>4
<1>6. k % DayLength = t
  <2>1. (DayLength * q + t) % DayLength = t
    BY <1>1, <1>2
  <2>2. (DayLength * (q + 1) + t) % DayLength = t
    <3>1. q + 1 \in Int
      BY <1>2
    <3> DEFINE s == q + 1
    <3> HIDE DEF s
    <3>2. s \in Int => (DayLength * s + t) % DayLength = t
      BY <1>1
    <3> QED
      BY <3>1, <3>2 DEF s
  <2> QED
    BY <2>1, <2>2
<1> HIDE DEF k
<1>7. \E j \in (n + 1)..(n + DayLength) : j % DayLength = t
  BY <1>5, <1>6
<1>8. NextRun(t, n) \in (n + 1)..(n + DayLength) /\ NextRun(t, n) % DayLength = t
  BY <1>7 DEF NextRun
<1> QED
  BY <1>1, <1>8

LEMMA JobAtFacts ==
  ASSUME NEW t \in 0..(DayLength - 1), clock \in Nat
  PROVE  /\ JobAt(t) \in [time : Nat, next : Nat] /\ JobAt(t) # NoJob
         /\ JobAt(t).time = t /\ clock < JobAt(t).next /\ JobAt(t).next <= clock + DayLength
         /\ JobAt(t).next % DayLength = t
<1>1. DayLength \in Nat \ {0}
  BY DayAssumption
<1>2. /\ NextRun(t, clock) \in Nat /\ clock < NextRun(t, clock)
      /\ NextRun(t, clock) <= clock + DayLength /\ NextRun(t, clock) % DayLength = t
  BY NextRunFacts
<1> QED
  BY <1>1, <1>2 DEF JobAt, NoJob

-----------------------------------------------------------------------------
(* The inductive invariant. *)

TypeInv == RTypeOK /\ job \in [time : Nat, next : Nat]

(* What a process that migrates has behind it is in the file, and nothing  *)
(* is ever taken out.                                                      *)
SchemaInv ==
  /\ \A p \in Proc :
       /\ columns[p] \subseteq schema
       /\ pc[p] = "migrate" => /\ step[p] <= Len(Script)
                               /\ \A i \in 1..(step[p] - 1) : Script[i] \in schema
  /\ MigratedBeforeUse

(* One request at a time is past its confirmation mail; what it has        *)
(* written is what is stored.  A setting is absent only until the first    *)
(* process is past build_runtime, so before any request.                   *)
SettingsInv ==
  /\ \A r \in Request : request[r] # "none" => pc[Server] = "up"
  /\ \A r, q \in Request : request[r] \in Unyielding /\ request[q] \in Unyielding => r = q
  /\ \A r \in Request :
       /\ request[r] = "time" => settings.email = Asked[r].email
       /\ request[r] = "reschedule" => settings.time = Asked[r].time
  /\ \A p \in Proc :
       /\ pc[p] \in {"time", "schedule", "up"} => "email" \in DOMAIN settings
       /\ pc[p] \in {"schedule", "up"} => "time" \in DOMAIN settings
  /\ "time" \in DOMAIN settings => settings.time \in 0..(DayLength - 1)
  /\ \A key \in {"email", "time"} : key \notin DOMAIN settings => saved = Config
  /\ SettingsAreOneRequest

(* The scheduler only looks forward: the next run is later than every run. *)
JobInv ==
  /\ JobFollowsSetting
  /\ \A i \in DOMAIN fired : /\ fired[i] <= clock
                             /\ job # NoJob => fired[i] < job.next
  /\ OncePerMinute

RInv == TypeInv /\ SchemaInv /\ SettingsInv /\ JobInv

LEMMA RInvInit == RInit => RInv
<1> SUFFICES ASSUME RInit PROVE RInv
  OBVIOUS
<1>0. schema \subseteq Complete /\ ("version" \in schema => Complete \subseteq schema)
  <2>1. schema \in OldSchemas
    BY DEF RInit
  <2>2. \A S \in OldSchemas : S \subseteq Complete /\ ("version" \in S => Complete \subseteq S)
    BY SchemaAssumption, Zenon
  <2> QED
    BY <2>1, <2>2
<1>1. TypeInv
  <2>1. schema \subseteq Complete /\ clock \in 0..MaxClock
    BY <1>0, DayAssumption DEF RInit
  <2>2. step \in [Proc -> 1..(Len(Script) + 1)]
    BY ScriptFacts DEF RInit
  <2>3. settings = <<>> /\ fired = <<>> /\ fired \in Seq(Nat)
    BY DEF RInit
  <2>4. job = NoJob /\ pc[Server] = "down"
    BY ServerAssumption DEF RInit
  <2>5. /\ pc \in [Proc -> PC] /\ columns \in [Proc -> SUBSET ToSet(Columns)]
        /\ request \in [Request -> Place] /\ delivering \in BOOLEAN
    BY DEF RInit, PC, Place
  <2> QED
    BY <2>1, <2>2, <2>3, <2>4, <2>5 DEF TypeInv, RTypeOK, NoJob
<1>2. SchemaInv
  <2>1. \A p \in Proc : pc[p] = "down" /\ columns[p] = {}
    BY DEF RInit
  <2> QED
    BY <1>0, <2>1 DEF SchemaInv, MigratedBeforeUse
<1>3. SettingsInv
  <2>1. /\ DOMAIN settings = {} /\ saved = Config
        /\ \A p \in Proc : pc[p] = "down"
        /\ \A r \in Request : request[r] = "none"
    BY DEF RInit
  <2> QED
    BY <2>1 DEF SettingsInv, SettingsAreOneRequest, Unyielding
<1>4. JobInv
  BY DEF RInit, JobInv, JobFollowsSetting, OncePerMinute
<1> QED
  BY <1>1, <1>2, <1>3, <1>4 DEF RInv

-----------------------------------------------------------------------------
LEMMA SchemaStep ==
  ASSUME TypeInv, SchemaInv, [RNext]_rvars
  PROVE  SchemaInv'
<1> USE DEF TypeInv, RTypeOK
<1>1. ASSUME UNCHANGED <<schema, startVars>> PROVE SchemaInv'
  BY <1>1 DEF SchemaInv, MigratedBeforeUse, startVars
<1>2. ASSUME NEW p \in Proc, Boot(p) PROVE SchemaInv'
  <2>1. /\ UNCHANGED <<schema, columns>>
        /\ step' = [step EXCEPT ![p] = 1] /\ pc' = [pc EXCEPT ![p] = "migrate"]
    BY <1>2 DEF Boot
  <2>2. /\ step'[p] = 1 /\ pc'[p] = "migrate" /\ 1 <= Len(Script)
        /\ \A q \in Proc \ {p} : step'[q] = step[q] /\ pc'[q] = pc[q]
    BY <2>1, ScriptFacts
  <2> QED
    BY <2>1, <2>2 DEF SchemaInv, MigratedBeforeUse
<1>3. ASSUME NEW p \in Proc, Died(p), UNCHANGED schema PROVE SchemaInv'
  <2>1. /\ UNCHANGED <<schema, step>>
        /\ pc' = [pc EXCEPT ![p] = "down"] /\ columns' = [columns EXCEPT ![p] = {}]
    BY <1>3 DEF Died
  <2>2. /\ pc'[p] = "down" /\ columns'[p] = {}
        /\ \A q \in Proc \ {p} : columns'[q] = columns[q] /\ pc'[q] = pc[q]
    BY <2>1
  <2> QED
    BY <2>1, <2>2 DEF SchemaInv, MigratedBeforeUse
(* A statement of the script was carried out. *)
<1>4. ASSUME NEW p \in Proc, Migrating(p), NextStatement(p),
             schema' = schema \/ schema' = schema \cup {Statement(p)}, Statement(p) \in schema',
             \A q \in Proc : columns'[q] \subseteq schema
      PROVE  SchemaInv'
  <2>1. /\ pc[p] = "migrate" /\ step[p] \in 1..Len(Script)
        /\ \A i \in 1..(step[p] - 1) : Script[i] \in schema
    BY <1>4, ScriptFacts DEF Migrating, SchemaInv
  <2>2. \A i \in 1..step[p] : Script[i] \in schema'
    BY <1>4, <2>1 DEF Statement
  <2>3. /\ step'[p] = step[p] + 1
        /\ pc'[p] = IF step[p] = Len(Script) THEN "email" ELSE "migrate"
        /\ \A q \in Proc \ {p} : step'[q] = step[q] /\ pc'[q] = pc[q]
    BY <1>4, <2>1 DEF NextStatement
  <2>4. step[p] = Len(Script) => Complete \subseteq schema'
    BY <2>2, ScriptFacts
  <2>5. "version" \in schema' => Complete \subseteq schema'
    <3>1. CASE "version" \in schema
      BY <1>4, <3>1 DEF SchemaInv, MigratedBeforeUse
    <3>2. CASE "version" \notin schema /\ "version" \in schema'
      <4>1. Script[step[p]] = "version"
        BY <1>4, <3>2 DEF Statement
      <4> QED
        BY <2>1, <2>4, <4>1, ScriptFacts
    <3> QED
      BY <3>1, <3>2
  <2>6. \A q \in Proc : pc'[q] = "migrate" =>
          step'[q] <= Len(Script) /\ \A i \in 1..(step'[q] - 1) : Script[i] \in schema'
    <3>1. pc'[p] = "migrate" =>
            step'[p] <= Len(Script) /\ \A i \in 1..(step'[p] - 1) : Script[i] \in schema'
      BY <2>1, <2>2, <2>3, ScriptFacts
    <3>2. ASSUME NEW q \in Proc \ {p}, pc'[q] = "migrate"
          PROVE  step'[q] <= Len(Script) /\ \A i \in 1..(step'[q] - 1) : Script[i] \in schema'
      BY <1>4, <2>3, <3>2 DEF SchemaInv
    <3> QED
      BY <3>1, <3>2
  <2>7. \A q \in Proc : pc'[q] \notin {"down", "migrate"} => Complete \subseteq schema'
    BY <1>4, <2>3, <2>4 DEF SchemaInv, MigratedBeforeUse
  <2> QED
    BY <1>4, <2>5, <2>6, <2>7 DEF SchemaInv, MigratedBeforeUse
<1>5. ASSUME NEW p \in Proc, CreateIfAbsent(p) PROVE SchemaInv'
  <2>1. \A q \in Proc : columns'[q] \subseteq schema
    BY <1>5 DEF CreateIfAbsent, SchemaInv
  <2> QED
    BY <1>4, <1>5, <2>1 DEF CreateIfAbsent
<1>6. ASSUME NEW p \in Proc, AddColumn(p) PROVE SchemaInv'
  <2>1. CASE Died(p) /\ UNCHANGED schema
    BY <1>3, <2>1
  <2>2. CASE ~(Died(p) /\ UNCHANGED schema)
    <3>1. /\ Migrating(p) /\ NextStatement(p) /\ UNCHANGED columns
          /\ \/ Seen(p) /\ UNCHANGED schema
             \/ schema' = schema \cup {Statement(p)}
      BY <1>6, <2>2 DEF AddColumn
    <3>2. Statement(p) \in schema'
      BY <3>1 DEF Seen, SchemaInv
    <3> QED
      BY <1>4, <3>1, <3>2 DEF SchemaInv
  <2> QED
    BY <2>1, <2>2
<1>7. ASSUME NEW p \in Proc, NEW place \in PC \ {"migrate"},
             pc[p] \notin {"down", "migrate"}, pc' = [pc EXCEPT ![p] = place],
             UNCHANGED <<schema, step, columns>>
      PROVE  SchemaInv'
  <2>1. pc'[p] = place /\ \A q \in Proc \ {p} : pc'[q] = pc[q]
    BY <1>7
  <2> QED
    BY <1>7, <2>1 DEF SchemaInv, MigratedBeforeUse
<1>8. ASSUME NEW p \in Proc, DefaultEmail(p) \/ DefaultTime(p) PROVE SchemaInv'
  BY <1>7, <1>8 DEF DefaultEmail, DefaultTime, PC
<1>9. ASSUME StartScheduler PROVE SchemaInv'
  BY <1>7, <1>9, ServerAssumption DEF StartScheduler, PC
<1>10. ASSUME NEW r \in Request, Put(r) \/ RequestStep(r) PROVE UNCHANGED <<schema, startVars>>
  BY <1>10 DEF Put, RequestStep, Confirmed, NotConfirmed, SaveEmail, SaveTime, Reschedule, WriteFails
<1>11. ASSUME Fire \/ Delivered \/ Tick \/ UNCHANGED rvars PROVE UNCHANGED <<schema, startVars>>
  BY <1>11 DEF Fire, Delivered, Tick, rvars
<1>12. ASSUME NEW p \in Proc, Crash(p) PROVE Died(p) /\ UNCHANGED schema
  BY <1>12 DEF Crash
<1> QED
  BY <1>1, <1>2, <1>3, <1>5, <1>6, <1>8, <1>9, <1>10, <1>11, <1>12 DEF RNext, StartStep

LEMMA TypeStep ==
  ASSUME RInv, [RNext]_rvars
  PROVE  TypeInv'
<1> USE DEF TypeInv, RTypeOK, RInv
<1>1. /\ MaxClock \in Nat /\ DayLength \in Nat \ {0} /\ clock \in Nat
      /\ \A r \in Request : Asked[r].time \in 0..(DayLength - 1)
  BY DayAssumption
<1>2. \A t \in 0..(DayLength - 1) :
        JobAt(t) # NoJob /\ JobAt(t) \in [time : Nat, next : Nat] /\ JobAt(t).time = t
  BY <1>1, JobAtFacts
<1>3. ASSUME NEW p \in Proc, Died(p), p = Server => job' = NoJob,
             p # Server => UNCHANGED job, request' \in [Request -> Place], delivering' \in BOOLEAN,
             UNCHANGED <<schema, settings, clock, fired>>
      PROVE  TypeInv'
  <2>1. /\ pc' = [pc EXCEPT ![p] = "down"] /\ UNCHANGED step
        /\ columns' = [columns EXCEPT ![p] = {}]
    BY <1>3 DEF Died
  <2>2. pc' \in [Proc -> PC] /\ columns' \in [Proc -> SUBSET ToSet(Columns)]
    BY <2>1 DEF PC
  <2>3. /\ job' # NoJob <=> pc'[Server] = "up"
        /\ job' # NoJob => UNCHANGED job
        /\ job' \in [time : Nat, next : Nat]
    BY <1>3, <2>1, ServerAssumption DEF NoJob
  <2> QED
    BY <1>3, <2>1, <2>2, <2>3
<1>4. ASSUME NEW p \in Proc, Migrating(p), NextStatement(p), Statement(p) \in Complete,
             schema' \subseteq schema \cup {Statement(p)},
             columns' \in [Proc -> SUBSET ToSet(Columns)],
             UNCHANGED <<settings, request, jobVars, clock, fired>>
      PROVE  TypeInv'
  <2>1. pc[p] = "migrate" /\ step[p] \in 1..Len(Script)
    BY <1>4, ScriptFacts DEF Migrating, SchemaInv
  <2>2. /\ step' \in [Proc -> 1..(Len(Script) + 1)]
        /\ pc' \in [Proc -> PC] /\ (pc'[Server] = "up" <=> pc[Server] = "up")
    BY <1>4, <2>1, ScriptFacts, ServerAssumption DEF NextStatement, PC
  <2> QED
    BY <1>4, <2>2 DEF jobVars
<1>5. ASSUME NEW p \in Proc, Migrating(p) PROVE Statement(p) \in Complete
  BY <1>5, ScriptFacts DEF Migrating, SchemaInv, Statement
<1>6. ASSUME NEW p \in Proc, StartStep(p) PROVE TypeInv'
  <2>1. CASE Boot(p)
    <3>1. /\ step' = [step EXCEPT ![p] = 1] /\ pc' = [pc EXCEPT ![p] = "migrate"]
          /\ pc[p] = "down"
          /\ UNCHANGED <<schema, settings, columns, request, jobVars, clock, fired>>
      BY <2>1 DEF Boot
    <3>2. /\ step' \in [Proc -> 1..(Len(Script) + 1)] /\ pc' \in [Proc -> PC]
          /\ (pc'[Server] = "up" <=> pc[Server] = "up")
      BY <3>1, ScriptFacts, ServerAssumption DEF PC
    <3> QED
      BY <3>1, <3>2 DEF jobVars
  <2>2. CASE CreateIfAbsent(p)
    <3>1. columns' \in [Proc -> SUBSET ToSet(Columns)]
      BY <2>2 DEF CreateIfAbsent
    <3> QED
      BY <1>4, <1>5, <2>2, <3>1 DEF CreateIfAbsent
  <2>3. CASE AddColumn(p)
    <3>1. /\ Migrating(p) /\ UNCHANGED <<settings, request, jobVars, clock, fired>>
          /\ \/ NextStatement(p) /\ UNCHANGED columns /\ schema' \subseteq schema \cup {Statement(p)}
             \/ Died(p) /\ UNCHANGED schema
      BY <2>3 DEF AddColumn
    <3>2. CASE Died(p) /\ UNCHANGED schema
      <4>1. p = Server => job = NoJob
        BY <3>1 DEF Migrating
      <4> QED
        BY <1>3, <3>1, <3>2, <4>1 DEF jobVars
    <3> QED
      BY <1>4, <1>5, <3>1, <3>2
  <2>4. CASE DefaultEmail(p)
    <3>1. /\ pc[p] = "email" /\ pc' = [pc EXCEPT ![p] = "time"]
          /\ DOMAIN settings' \subseteq DOMAIN settings \cup {"email"}
          /\ UNCHANGED <<schema, step, columns, request, jobVars, clock, fired>>
      BY <2>4 DEF DefaultEmail, SetSettingIfAbsent, SetSetting
    <3>2. pc' \in [Proc -> PC] /\ (pc'[Server] = "up" <=> pc[Server] = "up")
      BY <3>1, ServerAssumption DEF PC
    <3> QED
      BY <3>1, <3>2 DEF jobVars
  <2>5. CASE DefaultTime(p)
    <3>1. /\ pc[p] = "time" /\ pc' = [pc EXCEPT ![p] = IF p = Server THEN "schedule" ELSE "up"]
          /\ DOMAIN settings' \subseteq DOMAIN settings \cup {"time"}
          /\ UNCHANGED <<schema, step, columns, request, jobVars, clock, fired>>
      BY <2>5 DEF DefaultTime, SetSettingIfAbsent, SetSetting
    <3>2. pc' \in [Proc -> PC] /\ (pc'[Server] = "up" <=> pc[Server] = "up")
      BY <3>1, ServerAssumption DEF PC
    <3> QED
      BY <3>1, <3>2 DEF jobVars
  <2>6. CASE p = Server /\ StartScheduler
    <3>1. /\ pc[Server] = "schedule" /\ pc' = [pc EXCEPT ![Server] = "up"]
          /\ job' = JobAt(settings.time)
          /\ UNCHANGED <<schema, settings, step, columns, request, delivering, clock, fired>>
      BY <2>6 DEF StartScheduler, ScheduledTime
    <3>2. pc' \in [Proc -> PC] /\ pc'[Server] = "up"
      BY <3>1, ServerAssumption DEF PC
    <3>3. settings.time \in 0..(DayLength - 1)
      BY <3>1, ServerAssumption DEF SettingsInv
    <3>4. job' # NoJob /\ job' \in [time : Nat, next : Nat] /\ job'.time \in 0..(DayLength - 1)
      BY <1>2, <3>1, <3>3
    <3> QED
      BY <3>1, <3>2, <3>4
  <2> QED
    BY <1>6, <2>1, <2>2, <2>3, <2>4, <2>5, <2>6 DEF StartStep
<1>7. ASSUME NEW p \in Proc, Crash(p) PROVE TypeInv'
  <2>1. request' \in [Request -> Place] /\ delivering' \in BOOLEAN
    BY <1>7 DEF Crash, Place, jobVars
  <2> QED
    BY <1>3, <1>7, <2>1 DEF Crash, jobVars
<1>8. ASSUME NEW r \in Request, Put(r) \/ RequestStep(r) PROVE TypeInv'
  <2>1. /\ \E place \in Place : request' = [request EXCEPT ![r] = place]
        /\ UNCHANGED <<schema, startVars, delivering, clock, fired>>
    BY <1>8 DEF Put, RequestStep, Confirmed, NotConfirmed, SaveEmail, SaveTime, Reschedule,
                WriteFails, Goto, Place, jobVars
  <2>2. request' \in [Request -> Place]
    BY <2>1
  <2>3. DOMAIN settings' \subseteq DOMAIN settings \cup {"email", "time"}
    BY <1>8 DEF Put, RequestStep, Confirmed, NotConfirmed, SaveEmail, SaveTime, Reschedule,
                WriteFails, SetSetting
  <2>4. /\ job' # NoJob <=> job # NoJob
        /\ job' \in [time : Nat, next : Nat]
        /\ job' # NoJob => job'.time \in 0..(DayLength - 1) /\ job'.next \in Nat
    <3>1. CASE UNCHANGED job
      BY <3>1
    <3>2. CASE Reschedule(r)
      <4>1. request[r] # "none" /\ job' = JobAt(Asked[r].time)
        BY <3>2 DEF Reschedule
      <4>2. job # NoJob
        BY <4>1 DEF SettingsInv
      <4>3. job' # NoJob /\ job' \in [time : Nat, next : Nat] /\ job'.time \in 0..(DayLength - 1)
        BY <1>1, <1>2, <4>1
      <4> QED
        BY <4>2, <4>3
    <3>3. UNCHANGED job \/ Reschedule(r)
      BY <1>8 DEF Put, RequestStep, Confirmed, NotConfirmed, SaveEmail, SaveTime, WriteFails, jobVars
    <3> QED
      BY <3>1, <3>2, <3>3
  <2> QED
    BY <2>1, <2>2, <2>3, <2>4 DEF startVars
<1>9. CASE Fire
  <2>1. job # NoJob /\ job.time \in 0..(DayLength - 1)
    BY <1>9 DEF Fire, Late
  <2>2. /\ NextRun(job.time, clock) \in Nat /\ NextRun(job.time, clock) > 0
    BY <1>1, <2>1, NextRunFacts
  <2>3. job' = [job EXCEPT !.next = NextRun(job.time, clock)]
    BY <1>9 DEF Fire
  <2>4. job' \in [time : Nat, next : Nat] /\ job'.time = job.time /\ job' # NoJob
    BY <2>2, <2>3 DEF NoJob
  <2>5. fired' \in Seq(Nat)
    BY <1>1, <1>9, AppendProperties DEF Fire
  <2> QED
    BY <1>9, <2>1, <2>4, <2>5 DEF Fire, startVars
<1>10. CASE Delivered
  BY <1>10 DEF Delivered, startVars
<1>12. CASE Tick
  <2>1. clock' \in 0..MaxClock
    BY <1>1, <1>12 DEF Tick
  <2> QED
    BY <1>12, <2>1 DEF Tick, startVars, jobVars
<1>11. CASE UNCHANGED rvars
  BY <1>11 DEF rvars, startVars, jobVars
<1> QED
  BY <1>6, <1>7, <1>8, <1>9, <1>10, <1>11, <1>12 DEF RNext

-----------------------------------------------------------------------------
(* The settings. *)

LEMMA SettingFacts ==
  ASSUME NEW key, NEW value
  PROVE  /\ SetSetting(key, value) =>
              /\ DOMAIN settings' = DOMAIN settings \cup {key}
              /\ settings'[key] = value
              /\ \A k \in DOMAIN settings \ {key} : settings'[k] = settings[k]
         /\ SetSettingIfAbsent(key, value) =>
              /\ DOMAIN settings' = DOMAIN settings \cup {key}
              /\ settings'[key] = IF key \in DOMAIN settings THEN settings[key] ELSE value
              /\ \A k \in DOMAIN settings \ {key} : settings'[k] = settings[k]
BY DEF SetSetting, SetSettingIfAbsent

(* What a request that is past its confirmation mail may rely on. *)
LEMMA OnlyRequest ==
  ASSUME TypeInv, SettingsInv, NEW r \in Request, request[r] # "none"
  PROVE  /\ "email" \in DOMAIN settings /\ "time" \in DOMAIN settings
         /\ request[r] \in Unyielding => \A q \in Request \ {r} : request[q] \notin Unyielding
BY ServerAssumption DEF SettingsInv

LEMMA SettingsStep ==
  ASSUME RInv, [RNext]_rvars
  PROVE  SettingsInv'
<1> USE DEF RInv, TypeInv, RTypeOK
<1>1. /\ Config.time \in 0..(DayLength - 1)
      /\ \A r \in Request : Asked[r].time \in 0..(DayLength - 1)
  BY DayAssumption
(* Steps of the start of a process that leave the settings alone. *)
<1>2. ASSUME UNCHANGED <<settings, request, saved, torn>>, pc' \in [Proc -> PC],
             \A p \in Proc : \/ pc'[p] \in {"down", "migrate", "email"} \/ pc'[p] = pc[p]
                             \/ pc[p] = "schedule" /\ pc'[p] = "up",
             pc[Server] = "up" => pc'[Server] = "up"
      PROVE  SettingsInv'
  BY <1>2 DEF SettingsInv, SettingsAreOneRequest
<1>3. ASSUME NEW p \in Proc, StartStep(p), ~DefaultEmail(p), ~DefaultTime(p) PROVE SettingsInv'
  <2> DEFINE Moves == /\ \/ pc'[p] \in {"down", "migrate", "email"}
                         \/ pc[p] = "schedule" /\ pc'[p] = "up"
                      /\ \A q \in Proc \ {p} : pc'[q] = pc[q]
                      /\ pc' \in [Proc -> PC] /\ pc[p] # "up"
                      /\ UNCHANGED <<settings, request, saved, torn>>
  <2>1. ASSUME Moves PROVE SettingsInv'
    BY <1>2, <2>1, ServerAssumption
  <2>2. ASSUME NextStatement(p), Migrating(p), UNCHANGED <<settings, request, saved, torn>>
        PROVE  SettingsInv'
    <3>1. CASE pc' = pc
      BY <1>2, <2>2, <3>1
    <3>2. CASE pc' = [pc EXCEPT ![p] = "email"]
      <4>1. Moves
        BY <2>2, <3>2 DEF Migrating, PC
      <4> QED
        BY <2>1, <4>1
    <3> QED
      BY <2>2, <3>1, <3>2 DEF NextStatement
  <2>3. CASE Boot(p)
    <3>1. Moves
      BY <2>3 DEF Boot, PC
    <3> QED
      BY <2>1, <3>1
  <2>4. CASE CreateIfAbsent(p)
    BY <2>2, <2>4 DEF CreateIfAbsent
  <2>5. CASE AddColumn(p)
    <3>1. CASE Died(p)
      <4>1. Moves
        BY <2>5, <3>1 DEF AddColumn, Died, Migrating, PC
      <4> QED
        BY <2>1, <4>1
    <3>2. CASE NextStatement(p)
      BY <2>2, <2>5, <3>2 DEF AddColumn
    <3> QED
      BY <2>5, <3>1, <3>2 DEF AddColumn
  <2>6. CASE p = Server /\ StartScheduler
    <3>1. Moves
      BY <2>6 DEF StartScheduler, PC
    <3> QED
      BY <2>1, <3>1
  <2> QED
    BY <1>3, <2>3, <2>4, <2>5, <2>6 DEF StartStep
<1>4. ASSUME NEW p \in Proc, DefaultEmail(p) PROVE SettingsInv'
  <2>1. /\ DOMAIN settings' = DOMAIN settings \cup {"email"}
        /\ settings'["email"] = IF "email" \in DOMAIN settings THEN settings["email"] ELSE Config.email
        /\ \A k \in DOMAIN settings \ {"email"} : settings'[k] = settings[k]
    BY <1>4, SettingFacts DEF DefaultEmail
  <2>2. /\ pc'[p] = "time" /\ pc[p] = "email" /\ \A q \in Proc \ {p} : pc'[q] = pc[q]
        /\ UNCHANGED <<request, saved, torn>>
    BY <1>4 DEF DefaultEmail
  <2>3. pc[Server] = "up" => "email" \in DOMAIN settings /\ pc'[Server] = "up"
    BY <2>2, ServerAssumption DEF SettingsInv
  <2>4. "email" \in DOMAIN settings => \A k \in DOMAIN settings' : settings'[k] = settings[k]
    BY <2>1
  <2>5. SettingsAreOneRequest'
    <3>1. CASE "email" \in DOMAIN settings
      BY <2>1, <2>2, <2>4, <3>1 DEF SettingsInv, SettingsAreOneRequest
    <3>2. CASE "email" \notin DOMAIN settings
      BY <2>1, <2>2, <3>2 DEF SettingsInv, SettingsAreOneRequest
    <3> QED
      BY <3>1, <3>2
  <2>6. "time" \in DOMAIN settings' => "time" \in DOMAIN settings /\ settings'["time"] = settings["time"]
    BY <2>1
  <2>7. \A r \in Request : request[r] # "none" =>
          settings'["email"] = settings["email"] /\ settings'["time"] = settings["time"]
    BY <2>3, <2>4, <2>1, OnlyRequest DEF SettingsInv
  <2> QED
    BY <2>1, <2>2, <2>3, <2>5, <2>6, <2>7, ServerAssumption DEF SettingsInv
<1>5. ASSUME NEW p \in Proc, DefaultTime(p) PROVE SettingsInv'
  <2>1. /\ DOMAIN settings' = DOMAIN settings \cup {"time"}
        /\ settings'["time"] = IF "time" \in DOMAIN settings THEN settings["time"] ELSE Config.time
        /\ \A k \in DOMAIN settings \ {"time"} : settings'[k] = settings[k]
    BY <1>5, SettingFacts DEF DefaultTime
  <2>2. /\ pc'[p] \in {"schedule", "up"} /\ pc[p] = "time" /\ \A q \in Proc \ {p} : pc'[q] = pc[q]
        /\ UNCHANGED <<request, saved, torn>>
    BY <1>5 DEF DefaultTime
  <2>3. pc[Server] = "up" => "time" \in DOMAIN settings /\ pc'[Server] = "up"
    BY <2>2, ServerAssumption DEF SettingsInv
  <2>4. "time" \in DOMAIN settings => \A k \in DOMAIN settings' : settings'[k] = settings[k]
    BY <2>1
  <2>5. SettingsAreOneRequest'
    <3>1. CASE "time" \in DOMAIN settings
      BY <2>1, <2>2, <2>4, <3>1 DEF SettingsInv, SettingsAreOneRequest
    <3>2. CASE "time" \notin DOMAIN settings
      BY <2>1, <2>2, <3>2 DEF SettingsInv, SettingsAreOneRequest
    <3> QED
      BY <3>1, <3>2
  <2>6. settings'["time"] \in 0..(DayLength - 1)
    BY <1>1, <2>1 DEF SettingsInv
  <2>7. \A r \in Request : request[r] # "none" =>
          settings'["email"] = settings["email"] /\ settings'["time"] = settings["time"]
    BY <2>3, <2>4, <2>1, OnlyRequest DEF SettingsInv
  <2> QED
    BY <2>1, <2>2, <2>3, <2>5, <2>6, <2>7, ServerAssumption DEF SettingsInv
<1>6. ASSUME NEW p \in Proc, Crash(p) PROVE SettingsInv'
  <2>1. /\ pc'[p] = "down" /\ \A q \in Proc \ {p} : pc'[q] = pc[q]
        /\ UNCHANGED <<settings, saved>>
    BY <1>6 DEF Crash, Died
  <2>2. CASE p = Server
    <3>1. /\ \A r \in Request : request'[r] = "none"
          /\ torn' = (torn \/ \E r \in Request : request[r] = "time")
      BY <1>6, <2>2 DEF Crash
    <3> QED
      BY <2>1, <3>1 DEF SettingsInv, SettingsAreOneRequest, Unyielding
  <2>3. CASE p # Server
    <3>1. UNCHANGED <<request, torn>>
      BY <1>6, <2>3 DEF Crash
    <3> QED
      BY <2>1, <2>3, <3>1, ServerAssumption DEF SettingsInv, SettingsAreOneRequest
  <2> QED
    BY <2>2, <2>3
(* A request goes on without a write. *)
<1>7. ASSUME NEW r \in Request, NEW place \in {"none", "confirm", "email"}, Goto(r, place),
             request[r] # "time", pc[Server] = "up",
             place = "email" => MayRun(r),
             UNCHANGED <<settings, pc, saved, torn>>
      PROVE  SettingsInv'
  <2>1. request'[r] = place /\ \A q \in Request \ {r} : request'[q] = request[q]
    BY <1>7 DEF Goto
  <2>2. SettingsAreOneRequest'
    <3>1. SUFFICES ASSUME ~torn', \A q \in Request : request'[q] # "time"
                   PROVE  \A key \in DOMAIN settings' : settings'[key] = saved'[key]
      BY <1>7 DEF SettingsInv, SettingsAreOneRequest
    <3>2. ~torn /\ \A q \in Request : request[q] # "time"
      BY <1>7, <2>1, <3>1
    <3> QED
      BY <1>7, <3>2 DEF SettingsInv, SettingsAreOneRequest
  <2>3. \A q \in Request : request'[q] # "none" => pc'[Server] = "up"
    BY <1>7
  <2>4. \A q, s \in Request : request'[q] \in Unyielding /\ request'[s] \in Unyielding => q = s
    <3>1. \A q, s \in Request : request[q] \in Unyielding /\ request[s] \in Unyielding => q = s
      BY DEF SettingsInv
    <3>2. CASE place = "email"
      BY <1>7, <2>1, <3>2 DEF MayRun
    <3>3. CASE place # "email"
      <4>1. request'[r] \notin Unyielding
        BY <1>7, <2>1, <3>3 DEF Unyielding
      <4> QED
        BY <2>1, <3>1, <4>1
    <3> QED
      BY <3>2, <3>3
  <2>5. \A q \in Request :
          /\ request'[q] = "time" => settings'.email = Asked[q].email
          /\ request'[q] = "reschedule" => settings'.time = Asked[q].time
    BY <1>7, <2>1 DEF SettingsInv
  <2> QED
    BY <1>7, <2>2, <2>3, <2>4, <2>5 DEF SettingsInv
<1>8. ASSUME NEW r \in Request, Put(r) \/ Confirmed(r) \/ NotConfirmed(r) \/ Reschedule(r)
      PROVE  SettingsInv'
  <2>1. pc[Server] = "up"
    BY <1>8 DEF Put, Confirmed, NotConfirmed, Reschedule, SettingsInv
  <2> QED
    BY <1>7, <1>8, <2>1 DEF Put, Confirmed, NotConfirmed, Reschedule, startVars
<1>9. ASSUME NEW r \in Request, WriteFails(r) PROVE SettingsInv'
  <2>1. /\ request[r] \in {"email", "time"} /\ request'[r] = "none"
        /\ \A q \in Request \ {r} : request'[q] = request[q]
        /\ torn' = (torn \/ request[r] = "time")
        /\ UNCHANGED <<settings, pc, saved>>
    BY <1>9 DEF WriteFails, Goto, startVars
  <2> QED
    BY <2>1 DEF SettingsInv, SettingsAreOneRequest, Unyielding
<1>10. ASSUME NEW r \in Request, SaveEmail(r) PROVE SettingsInv'
  <2>1. /\ request[r] = "email" /\ request'[r] = "time"
        /\ \A q \in Request \ {r} : request'[q] = request[q]
        /\ UNCHANGED <<pc, saved, torn>>
    BY <1>10 DEF SaveEmail, Goto, startVars
  <2>2. /\ "email" \in DOMAIN settings /\ "time" \in DOMAIN settings
        /\ \A q \in Request \ {r} : request[q] \notin Unyielding
    BY <2>1, OnlyRequest DEF Unyielding
  <2>3. /\ DOMAIN settings' = DOMAIN settings
        /\ settings'["email"] = Asked[r].email /\ settings'["time"] = settings["time"]
    BY <1>10, <2>2 DEF SaveEmail, SetSetting
  <2>4. SettingsAreOneRequest'
    BY <2>1, <2>3 DEF SettingsInv, SettingsAreOneRequest
  <2>5. \A q, s \in Request : request'[q] \in Unyielding /\ request'[s] \in Unyielding => q = s
    BY <2>1, <2>2
  <2>6. \A q \in Request :
          /\ request'[q] # "none" => pc'[Server] = "up"
          /\ request'[q] = "time" => settings'["email"] = Asked[q].email
          /\ request'[q] # "reschedule"
    BY <2>1, <2>2, <2>3 DEF SettingsInv, Unyielding
  <2> QED
    BY <2>1, <2>2, <2>3, <2>4, <2>5, <2>6 DEF SettingsInv
<1>11. ASSUME NEW r \in Request, SaveTime(r) PROVE SettingsInv'
  <2>1. /\ request[r] = "time" /\ request'[r] = "reschedule"
        /\ \A q \in Request \ {r} : request'[q] = request[q]
        /\ saved' = Asked[r] /\ torn' = FALSE
        /\ UNCHANGED pc
    BY <1>11 DEF SaveTime, Goto, startVars
  <2>2. /\ "email" \in DOMAIN settings /\ "time" \in DOMAIN settings
        /\ \A q \in Request \ {r} : request[q] \notin Unyielding
    BY <2>1, OnlyRequest DEF Unyielding
  <2>3. /\ DOMAIN settings' = DOMAIN settings
        /\ settings'["time"] = Asked[r].time /\ settings'["email"] = settings["email"]
    BY <1>11, <2>2 DEF SaveTime, SetSetting
  <2>4. SettingsAreOneRequest'
    BY <2>1, <2>2, <2>3 DEF SettingsInv, SettingsAreOneRequest
  <2> QED
    BY <1>1, <2>1, <2>2, <2>3, <2>4 DEF SettingsInv, Unyielding
<1>12. CASE Fire \/ Delivered \/ Tick \/ UNCHANGED rvars
  BY <1>2, <1>12 DEF Fire, Delivered, Tick, rvars, startVars
<1> QED
  BY <1>3, <1>4, <1>5, <1>6, <1>8, <1>9, <1>10, <1>11, <1>12 DEF RNext, RequestStep

-----------------------------------------------------------------------------
(* The scheduler. *)

LEMMA JobStep ==
  ASSUME RInv, TypeInv', [RNext]_rvars
  PROVE  JobInv'
<1> USE DEF RInv, TypeInv, RTypeOK
<1>1. /\ MaxClock \in Nat /\ DayLength \in Nat \ {0} /\ clock \in Nat
      /\ \A r \in Request : Asked[r].time \in 0..(DayLength - 1)
  BY DayAssumption
(* The job is computed anew: it is later than every run until now. *)
<1>2. ASSUME NEW t \in 0..(DayLength - 1), job' = JobAt(t), UNCHANGED <<settings, clock, fired>>,
             (\A r \in Request : request'[r] # "reschedule") => settings.time = t
      PROVE  JobInv'
  <2>1. /\ job'.time = t /\ clock < job'.next /\ job'.next <= clock + DayLength
        /\ job'.next % DayLength = t /\ job'.next \in Nat
    BY <1>1, <1>2, JobAtFacts
  <2>2. \A i \in DOMAIN fired : fired[i] < job'.next
    <3>1. \A i \in DOMAIN fired : fired[i] \in Nat
      BY ElementOfSeq, LenProperties
    <3> QED
      BY <1>1, <2>1, <3>1 DEF JobInv
  <2> QED
    BY <1>2, <2>1, <2>2 DEF JobInv, JobFollowsSetting, OncePerMinute
(* Steps the scheduler does not see. *)
<1>3. ASSUME UNCHANGED <<job, clock, fired>>,
             job # NoJob => ("time" \in DOMAIN settings' => settings'["time"] = settings["time"]),
             job # NoJob => "time" \in DOMAIN settings',
             \A r \in Request : request[r] = "reschedule" => request'[r] = "reschedule"
      PROVE  JobInv'
  BY <1>3 DEF JobInv, JobFollowsSetting, OncePerMinute
<1>4. job # NoJob => "time" \in DOMAIN settings
  BY ServerAssumption DEF SettingsInv
<1>5. ASSUME NEW p \in Proc, StartStep(p), ~(p = Server /\ StartScheduler) PROVE JobInv'
  <2>1. UNCHANGED <<job, clock, fired, request>>
    BY <1>5 DEF StartStep, Boot, CreateIfAbsent, AddColumn, DefaultEmail, DefaultTime, jobVars
  <2>2. "time" \in DOMAIN settings =>
          "time" \in DOMAIN settings' /\ settings'["time"] = settings["time"]
    <3>1. CASE DefaultEmail(p) \/ DefaultTime(p)
      BY <3>1 DEF DefaultEmail, DefaultTime, SetSettingIfAbsent, SetSetting
    <3>2. CASE ~(DefaultEmail(p) \/ DefaultTime(p))
      BY <1>5, <3>2 DEF StartStep, Boot, CreateIfAbsent, AddColumn
    <3> QED
      BY <3>1, <3>2
  <2> QED
    BY <1>3, <1>4, <2>1, <2>2
<1>6. ASSUME StartScheduler PROVE JobInv'
  <2>1. /\ job' = JobAt(settings.time) /\ UNCHANGED <<settings, clock, fired>>
        /\ settings.time \in 0..(DayLength - 1)
    BY <1>6, ServerAssumption DEF StartScheduler, ScheduledTime, SettingsInv
  <2> QED
    BY <1>2, <2>1
<1>7. ASSUME NEW p \in Proc, Crash(p) PROVE JobInv'
  <2>1. CASE p = Server
    <3>1. job' = NoJob /\ UNCHANGED <<clock, fired>>
      BY <1>7, <2>1 DEF Crash
    <3> QED
      BY <3>1 DEF JobInv, JobFollowsSetting, OncePerMinute
  <2>2. CASE p # Server
    <3>1. UNCHANGED <<job, clock, fired, request, settings>>
      BY <1>7, <2>2 DEF Crash, jobVars
    <3> QED
      BY <1>3, <1>4, <3>1
  <2> QED
    BY <2>1, <2>2
<1>8. ASSUME NEW r \in Request,
             Put(r) \/ Confirmed(r) \/ NotConfirmed(r) \/ SaveEmail(r) \/ WriteFails(r)
      PROVE  JobInv'
  <2>1. /\ UNCHANGED <<job, clock, fired>> /\ request[r] # "reschedule"
        /\ \A q \in Request \ {r} : request'[q] = request[q]
    BY <1>8 DEF Put, Confirmed, NotConfirmed, SaveEmail, WriteFails, Goto, jobVars
  <2>2. "time" \in DOMAIN settings =>
          "time" \in DOMAIN settings' /\ settings'["time"] = settings["time"]
    BY <1>8 DEF Put, Confirmed, NotConfirmed, SaveEmail, WriteFails, SetSetting
  <2> QED
    BY <1>3, <1>4, <2>1, <2>2
<1>9. ASSUME NEW r \in Request, SaveTime(r) PROVE JobInv'
  <2>1. /\ UNCHANGED <<job, clock, fired>> /\ request'[r] = "reschedule"
    BY <1>9 DEF SaveTime, Goto, jobVars
  <2> QED
    BY <2>1 DEF JobInv, JobFollowsSetting, OncePerMinute
<1>10. ASSUME NEW r \in Request, Reschedule(r) PROVE JobInv'
  <2>1. /\ job' = JobAt(Asked[r].time) /\ UNCHANGED <<settings, clock, fired>>
        /\ request[r] = "reschedule"
    BY <1>10 DEF Reschedule
  <2>2. settings.time = Asked[r].time
    BY <2>1 DEF SettingsInv
  <2> QED
    BY <1>1, <1>2, <2>1, <2>2
<1>11. CASE Fire
  <2>1. /\ job # NoJob /\ job.next <= clock /\ job.time \in 0..(DayLength - 1)
        /\ job' = [job EXCEPT !.next = NextRun(job.time, clock)]
        /\ fired' = fired \/ fired' = Append(fired, clock)
        /\ UNCHANGED <<settings, request, clock>>
    BY <1>11 DEF Fire, Late
  <2>2. /\ job'.time = job.time /\ job'.next \in Nat /\ job'.next % DayLength = job'.time
        /\ clock < job'.next /\ job'.next <= clock + DayLength
    BY <1>1, <2>1, NextRunFacts
  <2>3. /\ Len(fired) \in Nat /\ DOMAIN fired = 1..Len(fired)
        /\ \A i \in DOMAIN fired : fired[i] \in Nat /\ fired[i] < clock
    <3>1. \A i \in DOMAIN fired : fired[i] \in Nat /\ fired[i] < job.next
      <4>1. \A i \in DOMAIN fired : fired[i] < job.next
        BY <2>1 DEF JobInv
      <4>2. fired \in Seq(Nat)
        BY DEF TypeInv, RTypeOK
      <4>3. \A i \in DOMAIN fired : fired[i] \in Nat
        BY <4>2, ElementOfSeq, LenProperties
      <4> QED
        BY <4>1, <4>3
    <3> QED
      BY <1>1, <2>1, <3>1, LenProperties
  <2>4. fired' = Append(fired, clock) =>
          /\ DOMAIN fired' = 1..(Len(fired) + 1) /\ fired'[Len(fired) + 1] = clock
          /\ \A i \in 1..Len(fired) : fired'[i] = fired[i]
    BY <1>1, <2>3, AppendProperties, LenProperties
  <2>7. \A i \in DOMAIN fired' : fired'[i] \in Nat /\ fired'[i] <= clock
    <3>1. CASE fired' = fired
      BY <1>1, <2>3, <3>1
    <3>2. CASE fired' = Append(fired, clock)
      BY <1>1, <2>3, <2>4, <3>2
    <3> QED
      BY <2>1, <3>1, <3>2
  <2>5. OncePerMinute'
    <3>1. CASE fired' = fired
      BY <3>1 DEF JobInv, OncePerMinute
    <3>2. CASE fired' = Append(fired, clock)
      <4> SUFFICES ASSUME NEW i \in DOMAIN fired', NEW j \in DOMAIN fired', fired'[i] = fired'[j]
                   PROVE  i = j
        BY DEF OncePerMinute
      <4>1. CASE i \in 1..Len(fired) /\ j \in 1..Len(fired)
        BY <2>3, <2>4, <3>2, <4>1 DEF JobInv, OncePerMinute
      <4>2. CASE ~(i \in 1..Len(fired) /\ j \in 1..Len(fired))
        BY <1>1, <2>3, <2>4, <3>2, <4>2
      <4> QED
        BY <4>1, <4>2
    <3> QED
      BY <2>1, <3>1, <3>2
  <2>6. JobFollowsSetting'
    BY <2>1, <2>2 DEF JobInv, JobFollowsSetting
  <2> QED
    BY <1>1, <2>1, <2>2, <2>5, <2>6, <2>7 DEF JobInv
<1>12. CASE Tick
  <2>1. UNCHANGED <<settings, request, job, fired>> /\ clock' = clock + 1
    BY <1>12 DEF Tick, jobVars
  <2>2. \A i \in DOMAIN fired : fired[i] \in Nat
    BY ElementOfSeq, LenProperties
  <2>3. job # NoJob => job.next <= clock' + DayLength
    BY <1>1, <2>1 DEF JobInv, JobFollowsSetting
  <2> QED
    BY <1>1, <2>1, <2>2, <2>3 DEF JobInv, JobFollowsSetting, OncePerMinute
<1>13. CASE Delivered \/ UNCHANGED rvars
  BY <1>3, <1>4, <1>13 DEF Delivered, rvars, jobVars
<1> QED
  BY <1>5, <1>6, <1>7, <1>8, <1>9, <1>10, <1>11, <1>12, <1>13 DEF RNext, StartStep, RequestStep

-----------------------------------------------------------------------------
LEMMA RInvHolds == RSpec => []RInv
<1>1. RInv /\ [RNext]_rvars => RInv'
  BY TypeStep, SchemaStep, SettingsStep, JobStep DEF RInv
<1> QED
  BY <1>1, RInvInit, PTL DEF RSpec

(* Types, and: the job exists exactly while the server is up. *)
THEOREM RuntimeTypes == RSpec => []RTypeOK
<1>1. RInv => RTypeOK
  BY DEF RInv, TypeInv
<1> QED
  BY <1>1, RInvHolds, PTL

(* However many processes run migrate at once, and wherever they are cut   *)
(* off, one that is past it finds the whole schema.                        *)
THEOREM UpgradeIsWhole == RSpec => []MigratedBeforeUse
<1>1. RInv => MigratedBeforeUse
  BY DEF RInv, SchemaInv
<1> QED
  BY <1>1, RInvHolds, PTL

(* Any number of overlapping PUT subscription requests, restarts and       *)
(* default settings do not mix address and time of two requests.           *)
THEOREM SettingsDoNotMix == RSpec => []SettingsAreOneRequest
<1>1. RInv => SettingsAreOneRequest
  BY DEF RInv, SettingsInv
<1> QED
  BY <1>1, RInvHolds, PTL

(* The daily job follows the stored time and runs within a day. *)
THEOREM JobIsAsStored == RSpec => []JobFollowsSetting
<1>1. RInv => JobFollowsSetting
  BY DEF RInv, JobInv
<1> QED
  BY <1>1, RInvHolds, PTL

(* No restart and no change of the time makes the job run twice in a       *)
(* minute.                                                                 *)
THEOREM NeverTwiceInAMinute == RSpec => []OncePerMinute
<1>1. RInv => OncePerMinute
  BY DEF RInv, JobInv
<1> QED
  BY <1>1, RInvHolds, PTL
=============================================================================
