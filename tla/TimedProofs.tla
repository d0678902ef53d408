------------------------------ MODULE TimedProofs ------------------------------
(***************************************************************************)
(* Theorems about TimedSummarizer, for every set of groups, messages and   *)
(* workers, every policy, every list of providers and any bound of the     *)
(* clock.                                                                  *)
(***************************************************************************)
EXTENDS TimedSummarizer, SummarizerProofs, OrderLemmas

-----------------------------------------------------------------------------
(* The refinement needs no invariant: each step of the timed module does   *)
(* to the variables of Summarizer what one step of Summarizer may do.      *)

LEMMA DecideMaps ==
  ASSUME NEW w \in Worker, Decide(w)
  PROVE  NotDue(w) \/ Due(w)
<1> DEFINE rows == PendingRows(Current(w))
           reason == TriggerReason(rows, kind[w], now[w], w \in Forced)
<1>1. CASE reason = NONE
  <2>1. rows = {} \/ ~MustRun(w)
    BY <1>1 DEF TriggerReason, Enough, MustRun, NONE
  <2> QED
    BY <1>1, <2>1 DEF Decide, NotDue
<1>2. CASE reason # NONE
  <2>1. rows # {}
    BY <1>2 DEF TriggerReason
  <2> QED
    BY <1>2, <2>1 DEF Decide, Due
<1> QED
  BY <1>1, <1>2

LEMMA TimedStepMaps == [TimedNext]_timedVars => [Next]_vars
<1> SUFFICES ASSUME [TimedNext]_timedVars PROVE Next \/ UNCHANGED vars
  OBVIOUS
<1>1. ASSUME NEW w \in Worker, TimedStep(w) PROVE WorkerStep(w) \/ UNCHANGED vars
  <2>1. CASE TimedRequest(w)
    BY <2>1 DEF TimedRequest, WorkerStep
  <2>2. CASE Decide(w)
    BY <2>2, DecideMaps DEF WorkerStep
  <2>3. CASE AttemptFails(w)
    BY <2>3 DEF AttemptFails
  <2>4. CASE AnswerAndSave(w)
    BY <2>4 DEF AnswerAndSave, WorkerStep
  <2>5. CASE Exhausted(w)
    BY <2>5 DEF Exhausted, WorkerStep
  <2> QED
    BY <1>1, <2>1, <2>2, <2>3, <2>4, <2>5 DEF TimedStep, WorkerStep
<1>2. ASSUME NEW p \in Proc, TimedCrash(p) PROVE Crash(p)
  BY <1>2 DEF TimedCrash
<1>3. CASE Tick
  BY <1>3 DEF Tick
<1>4. CASE UNCHANGED timedVars
  BY <1>4 DEF timedVars
<1> QED
  BY <1>1, <1>2, <1>3, <1>4 DEF TimedNext, Arrive, Environment, Next

(* trigger_reason with its clock, and generate_validated attempt by        *)
(* attempt, do nothing that Summarizer does not allow: every theorem about *)
(* Summarizer!Spec holds of the timed module.                              *)
THEOREM TimedImplements == TimedSpec => ImplementsSummarizer
<1>1. TimedInit => Init
  BY DEF TimedInit
<1> QED
  BY <1>1, TimedStepMaps, PTL DEF TimedSpec, ImplementsSummarizer, Spec

-----------------------------------------------------------------------------
(* What trigger_reason finds about the rows it is given. *)

LEMMA TimesOfRows ==
  ASSUME StoreTypeOK, NEW rows \in SUBSET RowIds, rows # {}
  PROVE  /\ SentTimes(rows) \subseteq Nat
         /\ Newest(rows) \in SentTimes(rows)
         /\ Oldest(rows) \in SentTimes(rows)
         /\ \A t \in SentTimes(rows) : t <= Newest(rows)
<1>1. SentTimes(rows) \subseteq Nat
  BY MessageAssumption DEF SentTimes, StoreTypeOK, MessageRow
<1>2. IsFiniteSet(rows)
  <2>1. IsFiniteSet(1..lastMessageId)
    BY FS_Interval DEF StoreTypeOK
  <2> QED
    BY <2>1, FS_Subset DEF StoreTypeOK
<1>3. IsFiniteSet(SentTimes(rows))
  <2> DEFINE f == [r \in rows |-> SentAt[messages[r].message]]
  <2>1. f \in Surjection(rows, SentTimes(rows))
    BY DEF Surjection, SentTimes
  <2> QED
    BY <1>2, <2>1, FS_Surjection
<1>4. SentTimes(rows) # {}
  BY DEF SentTimes
<1>5. \E t \in SentTimes(rows) : \A u \in SentTimes(rows) : u <= t
  BY <1>1, <1>3, <1>4, FiniteMax
<1>6. \E t \in SentTimes(rows) : \A u \in SentTimes(rows) : t <= u
  BY <1>1, <1>4, NatMin
<1> QED
  BY <1>1, <1>5, <1>6 DEF Newest, Oldest

LEMMA SnapshotSize ==
  ASSUME StoreTypeOK, NEW g
  PROVE  Cardinality(PendingSnapshot(g)) = Cardinality(PendingRows(g))
<1> DEFINE f == [r \in PendingRows(g) |-> [id |-> r, message |-> messages[r].message]]
<1>1. IsFiniteSet(PendingRows(g))
  <2>1. IsFiniteSet(1..lastMessageId)
    BY FS_Interval DEF StoreTypeOK
  <2> QED
    BY <2>1, FS_Subset DEF StoreTypeOK, PendingRows
<1>2. f \in Bijection(PendingRows(g), PendingSnapshot(g))
  <2>1. f \in Surjection(PendingRows(g), PendingSnapshot(g))
    BY DEF Surjection, PendingSnapshot
  <2>2. f \in Injection(PendingRows(g), PendingSnapshot(g))
    BY DEF Injection, IsInjective, PendingSnapshot
  <2> QED
    BY <2>1, <2>2 DEF Bijection
<1> QED
  BY <1>1, <1>2, FS_Bijection DEF ExistsBijection

(* What is true of the rows when the decision is taken at time t. *)
Justified(reason, snapshot, type, t) ==
  /\ reason = "idle" => \A s \in snapshot : t - SentAt[s.message] >= Idle[type]
  /\ reason = "max_window" => \E s \in snapshot : t - SentAt[s.message] >= Window[type]
  /\ reason = "message_count" => Cardinality(snapshot) >= MaxMessages[type]

LEMMA DecisionJustified ==
  ASSUME StoreTypeOK, NEW g, NEW type \in GroupType, NEW t \in Nat, NEW force \in BOOLEAN
  PROVE  Justified(TriggerReason(PendingRows(g), type, t, force), PendingSnapshot(g), type, t)
<1> DEFINE rows == PendingRows(g)
           reason == TriggerReason(rows, type, t, force)
<1> SUFFICES ASSUME rows # {} PROVE Justified(reason, PendingSnapshot(g), type, t)
  BY DEF TriggerReason, Justified, NONE
<1>1. rows \in SUBSET RowIds
  BY DEF PendingRows
<1>2. /\ SentTimes(rows) \subseteq Nat
      /\ Newest(rows) \in SentTimes(rows)
      /\ Oldest(rows) \in SentTimes(rows)
      /\ \A u \in SentTimes(rows) : u <= Newest(rows)
  BY <1>1, TimesOfRows
<1>3. /\ \A s \in PendingSnapshot(g) : SentAt[s.message] \in SentTimes(rows)
      /\ \A u \in SentTimes(rows) : \E s \in PendingSnapshot(g) : u = SentAt[s.message]
  <2>1. ASSUME NEW s \in PendingSnapshot(g) PROVE SentAt[s.message] \in SentTimes(rows)
    <3>1. PICK r \in rows : s = [id |-> r, message |-> messages[r].message]
      BY DEF PendingSnapshot
    <3>2. s.message = messages[r].message
      BY <3>1
    <3> QED
      BY <3>2 DEF SentTimes
  <2>2. ASSUME NEW u \in SentTimes(rows)
        PROVE  \E s \in PendingSnapshot(g) : u = SentAt[s.message]
    <3>1. PICK r \in rows : u = SentAt[messages[r].message]
      BY DEF SentTimes
    <3> DEFINE s == [id |-> r, message |-> messages[r].message]
    <3>2. s \in PendingSnapshot(g) /\ s.message = messages[r].message
      BY DEF PendingSnapshot
    <3> QED
      BY <3>1, <3>2
  <2> QED
    BY <2>1, <2>2
<1>4. Idle[type] \in Nat /\ Window[type] \in Nat
  BY ClockAssumption
<1>5. ASSUME reason = "idle" PROVE \A s \in PendingSnapshot(g) : t - SentAt[s.message] >= Idle[type]
  <2>1. t - Newest(rows) >= Idle[type]
    BY <1>5 DEF TriggerReason, Quiet, NONE
  <2> QED
    BY <1>2, <1>3, <1>4, <2>1
<1>6. ASSUME reason = "max_window" PROVE \E s \in PendingSnapshot(g) : t - SentAt[s.message] >= Window[type]
  <2>1. t - Oldest(rows) >= Window[type]
    BY <1>6 DEF TriggerReason, Overdue, NONE
  <2> QED
    BY <1>2, <1>3, <2>1
<1>7. ASSUME reason = "message_count" PROVE Cardinality(PendingSnapshot(g)) >= MaxMessages[type]
  <2>1. Cardinality(rows) >= MaxMessages[type]
    BY <1>7 DEF TriggerReason, Enough, NONE
  <2> QED
    BY <2>1, SnapshotSize
<1> QED
  BY <1>5, <1>6, <1>7 DEF Justified

-----------------------------------------------------------------------------
(* The invariant: a call's time is a past one, and what it found at that   *)
(* time is still true of what it is showing the model.                     *)
TimeInv ==
  /\ clock \in Nat
  /\ now \in [Worker -> Nat]
  /\ \A w \in Worker : now[w] <= clock
  /\ DOMAIN why = Worker
  /\ \A w \in Worker : pc[w] = "llm" => Justified(why[w], shown[w], kind[w], now[w])

LEMMA TimeInit == TimedInit => TimeInv
  BY DEF TimedInit, Init, SummarizerInit, TimeInv

(* A step that takes no decision. *)
LEMMA NoDecision ==
  ASSUME TimeInv,
         clock' \in Nat, clock' >= clock,
         now' \in [Worker -> Nat], DOMAIN why' = Worker,
         \A w \in Worker : now'[w] <= clock',
         \A w \in Worker : pc'[w] = "llm" =>
           /\ pc[w] = "llm"
           /\ why'[w] = why[w] /\ shown'[w] = shown[w] /\ kind'[w] = kind[w] /\ now'[w] = now[w]
  PROVE  TimeInv'
<1>1. \A w \in Worker : pc'[w] = "llm" => Justified(why'[w], shown'[w], kind'[w], now'[w])
  BY DEF TimeInv
<1> QED
  BY <1>1 DEF TimeInv, Justified

LEMMA TimeStep == Types /\ TimeInv /\ [TimedNext]_timedVars => TimeInv'
<1> SUFFICES ASSUME Types, TimeInv, [TimedNext]_timedVars PROVE TimeInv'
  OBVIOUS
<1> USE DEF Types, WorkerTypeOK
<1>1. ASSUME NEW w \in Worker, TimedRequest(w) PROVE TimeInv'
  BY <1>1, NoDecision DEF TimedRequest, Request, TakenTime, TimeInv
<1>2. ASSUME NEW w \in Worker, Enter(w) \/ GetGroup(w), UNCHANGED timeVars PROVE TimeInv'
  BY <1>2, NoDecision DEF Enter, GetGroup, timeVars, TimeInv
<1>3. ASSUME NEW w \in Worker, Decide(w) PROVE TimeInv'
  <2> DEFINE g == Current(w)
             reason == TriggerReason(PendingRows(g), kind[w], now[w], w \in Forced)
  <2>1. CASE reason = NONE
    <3>1. /\ UNCHANGED <<clock, now, why, shown>>
          /\ pc' = [pc EXCEPT ![w] = "group"]
          /\ kind' = [kind EXCEPT ![w] = NONE]
      BY <1>3, <2>1 DEF Decide
    <3> QED
      BY <3>1, NoDecision DEF TimeInv
  <2>2. CASE reason # NONE
    <3>1. /\ UNCHANGED <<clock, now, kind>>
          /\ pc' = [pc EXCEPT ![w] = "llm"]
          /\ shown' = [shown EXCEPT ![w] = PendingSnapshot(g)]
          /\ why' = [why EXCEPT ![w] = reason]
      BY <1>3, <2>2 DEF Decide
    <3>2. kind[w] \in GroupType /\ now[w] \in Nat
      BY <1>3 DEF Decide, ControlInv, TimeInv
    <3>3. Justified(reason, PendingSnapshot(g), kind[w], now[w])
      <4>1. (w \in Forced) \in BOOLEAN
        OBVIOUS
      <4> QED
        BY <3>2, <4>1, DecisionJustified
    <3>4. ASSUME NEW v \in Worker, pc'[v] = "llm"
          PROVE  Justified(why'[v], shown'[v], kind'[v], now'[v])
      <4>1. CASE v = w
        BY <3>1, <3>3, <4>1 DEF TimeInv
      <4>2. CASE v # w
        BY <3>1, <3>4, <4>2 DEF TimeInv
      <4> QED
        BY <4>1, <4>2
    <3>5. DOMAIN why' = Worker
      BY <3>1 DEF TimeInv
    <3> QED
      BY <3>1, <3>4, <3>5 DEF TimeInv, Justified
  <2> QED
    BY <2>1, <2>2
<1>4. ASSUME NEW w \in Worker, AttemptFails(w) PROVE TimeInv'
  BY <1>4, NoDecision DEF AttemptFails, vars, workerVars, TimeInv
<1>5. ASSUME NEW w \in Worker, AnswerAndSave(w) PROVE TimeInv'
  BY <1>5, NoDecision DEF AnswerAndSave, Save, Answered, TimeInv
<1>6. ASSUME NEW w \in Worker, Finish(w) \/ Abort(w), Return(w) PROVE TimeInv'
  BY <1>6, NoDecision DEF Finish, Abort, Leave, Return, Answered, TimeInv
<1>7. ASSUME NEW p \in Proc, TimedCrash(p) PROVE TimeInv'
  BY <1>7, NoDecision DEF TimedCrash, Crash, Forget, TimeInv
<1>8. CASE Tick
  BY <1>8, NoDecision DEF Tick, vars, workerVars, TimeInv
<1>9. CASE UNCHANGED <<workerVars, timeVars>>
  BY <1>9, NoDecision DEF workerVars, timeVars, TimeInv
<1>10. ASSUME \/ \E m \in Message : Arrive(m)
              \/ \E g \in Group : Activity(g)
              \/ \E typeOf \in Subscriptions : Subscribe(typeOf)
              \/ \E listed \in Catalogues : SyncGroups(listed)
              \/ \E before \in Cutoffs : Cleanup(before)
       PROVE  UNCHANGED workerVars
  BY <1>10 DEF Arrive, Ingest, Activity, Subscribe, SyncGroups, Cleanup
<1> QED
  BY <1>1, <1>2, <1>3, <1>4, <1>5, <1>6, <1>7, <1>8, <1>9, <1>10
     DEF TimedNext, TimedStep, Exhausted, timedVars, vars

LEMMA TimeInvHolds == TimedSpec => [](Types /\ TimeInv)
<1>1. TimedInit => Types /\ TimeInv
  BY TypesInit, TimeInit DEF TimedInit
<1>2. Types /\ TimeInv /\ [TimedNext]_timedVars => (Types /\ TimeInv)'
  BY TimedStepMaps, TypesStep, TimeStep
<1> QED
  BY <1>1, <1>2, PTL DEF TimedSpec

(* The model is asked because of the idle time or the window only if the   *)
(* messages it is shown are that old, although now was taken before the    *)
(* wait for the lock and before the model calls for the groups before.     *)
THEOREM NeverTooEarly == TimedSpec => []OnlyWhenDue
<1>1. Types /\ TimeInv => OnlyWhenDue
  <2> SUFFICES ASSUME Types, TimeInv, NEW w \in Worker, pc[w] = "llm"
               PROVE  LET ages == {clock - SentAt[s.message] : s \in shown[w]}
                      IN  /\ why[w] = "idle" => \A a \in ages : a >= Idle[kind[w]]
                          /\ why[w] = "max_window" => \E a \in ages : a >= Window[kind[w]]
                          /\ why[w] = "message_count" => Cardinality(shown[w]) >= MaxMessages[kind[w]]
    BY DEF OnlyWhenDue
  <2>1. Justified(why[w], shown[w], kind[w], now[w])
    BY DEF TimeInv
  <2>2. kind[w] \in GroupType
    BY DEF Types, ControlInv
  <2>3. /\ clock \in Nat /\ now[w] \in Nat /\ now[w] <= clock
        /\ Idle[kind[w]] \in Nat /\ Window[kind[w]] \in Nat
    BY <2>2, ClockAssumption DEF TimeInv
  <2>4. \A s \in shown[w] : SentAt[s.message] \in Nat
    BY MessageAssumption DEF Types, WorkerTypeOK, Snapshot
  <2>5. \A s \in shown[w], k \in Nat : now[w] - SentAt[s.message] >= k => clock - SentAt[s.message] >= k
    BY <2>3, <2>4
  <2> QED
    BY <2>1, <2>3, <2>5 DEF Justified
<1> QED
  BY <1>1, TimeInvHolds, PTL

-----------------------------------------------------------------------------
(* The attempts of a model call.  That the recursion of AttemptsOf defines *)
(* a function is shown by the smallest number of providers for which it    *)
(* would not.                                                              *)
IsAttemptsOf(f, n) ==
  f = [p \in 0..n |-> IF p = 0 THEN 0 ELSE f[p - 1] + Retries[p] + 1]

LEMMA AttemptsExist ==
  ASSUME NEW n \in Nat
  PROVE  \E f : IsAttemptsOf(f, n)
<1> DEFINE Bad == {k \in Nat : ~\E f : IsAttemptsOf(f, k)}
<1>1. SUFFICES ASSUME Bad # {} PROVE FALSE
  OBVIOUS
<1>2. PICK k \in Bad : \A j \in Bad : k <= j
  BY <1>1, NatMin
<1>3. k # 0
  <2>1. IsAttemptsOf([p \in 0..0 |-> 0], 0)
    <3>1. \A p \in 0..0 : p = 0
      OBVIOUS
    <3> QED
      BY <3>1 DEF IsAttemptsOf
  <2> QED
    BY <1>2, <2>1
<1>4. k - 1 \in Nat /\ k - 1 \notin Bad
  BY <1>2, <1>3
<1>5. PICK f : IsAttemptsOf(f, k - 1)
  BY <1>4
<1> DEFINE h == [p \in 0..k |-> IF p = k THEN f[k - 1] + Retries[k] + 1 ELSE f[p]]
<1>6. \A p \in 0..k : h[p] = IF p = 0 THEN 0 ELSE h[p - 1] + Retries[p] + 1
  <2> TAKE p \in 0..k
  <2>1. CASE p = k
    BY <1>2, <1>3, <2>1
  <2>2. CASE p # k
    <3>1. p \in 0..(k - 1)
      BY <1>2, <2>2
    <3>2. f[p] = IF p = 0 THEN 0 ELSE f[p - 1] + Retries[p] + 1
      BY <1>5, <3>1 DEF IsAttemptsOf
    <3>3. h[p] = f[p] /\ (p # 0 => h[p - 1] = f[p - 1])
      BY <1>2, <2>2
    <3> HIDE DEF h
    <3> QED
      BY <3>2, <3>3
  <2> QED
    BY <2>1, <2>2
<1>7. h = [p \in 0..k |-> h[p]]
  OBVIOUS
<1> HIDE DEF h
<1>8. IsAttemptsOf(h, k)
  BY <1>6, <1>7 DEF IsAttemptsOf
<1> QED
  BY <1>2, <1>8

LEMMA AttemptsRecursion ==
  /\ AttemptsOf[0] = 0
  /\ \A p \in Provider : AttemptsOf[p] = AttemptsOf[p - 1] + Retries[p] + 1
<1> DEFINE n == Len(Retries)
<1>1. n \in Nat /\ Provider = 1..n
  BY ProviderAssumption, LenProperties DEF Provider
<1>2. IsAttemptsOf(AttemptsOf, n)
  <2>1. AttemptsOf = CHOOSE f : IsAttemptsOf(f, n)
    BY DEF AttemptsOf, IsAttemptsOf
  <2> QED
    BY <1>1, <2>1, AttemptsExist
<1> QED
  BY <1>1, <1>2 DEF IsAttemptsOf

LEMMA AttemptsNat == \A p \in 0..Len(Retries) : AttemptsOf[p] \in Nat
<1> DEFINE Bad == {p \in 0..Len(Retries) : AttemptsOf[p] \notin Nat}
<1>1. SUFFICES ASSUME Bad # {} PROVE FALSE
  OBVIOUS
<1>2. Len(Retries) \in Nat /\ Provider = 1..Len(Retries) /\ Retries \in [Provider -> Nat]
  BY ProviderAssumption, LenProperties DEF Provider
<1>3. PICK p \in Bad : \A q \in Bad : p <= q
  <2>1. Bad \subseteq Nat
    BY <1>2
  <2> HIDE DEF Bad
  <2> QED
    BY <1>1, <2>1, NatMin
<1>4. p # 0
  BY <1>3, AttemptsRecursion
<1>5. p \in Provider /\ p - 1 \in 0..Len(Retries) /\ p - 1 \notin Bad
  BY <1>2, <1>3, <1>4
<1>6. AttemptsOf[p - 1] \in Nat /\ Retries[p] \in Nat
  BY <1>2, <1>5
<1>7. AttemptsOf[p] \in Nat
  BY <1>5, <1>6, AttemptsRecursion
<1> QED
  BY <1>3, <1>7

(* The request a worker waits for is the one its count says: the attempts  *)
(* of the providers before all failed, and so did the retries before.      *)
Counted(a) ==
  /\ a \in [provider : Provider, retry : Nat, attempts : Nat]
  /\ a.retry <= Retries[a.provider]
  /\ a.attempts = AttemptsOf[a.provider - 1] + a.retry + 1

Cost(o) ==
  /\ o.attempts > AttemptsOf[o.provider - 1]
  /\ o.attempts <= AttemptsOf[o.provider]

AttemptInv ==
  /\ DOMAIN attempt = Worker
  /\ \A w \in Worker : pc[w] = "llm" => Counted(attempt[w])
  /\ origin \in Seq([provider : Provider, attempts : Nat])
  /\ Len(origin) = Len(batches)
  /\ \A b \in DOMAIN origin : Cost(origin[b])

LEMMA CountedCost ==
  ASSUME NEW a, Counted(a)
  PROVE  Cost([provider |-> a.provider, attempts |-> a.attempts])
<1>1. /\ a.provider \in Provider /\ a.retry \in Nat
      /\ a.attempts = AttemptsOf[a.provider - 1] + a.retry + 1
      /\ a.retry <= Retries[a.provider]
  BY DEF Counted
<1>2. /\ AttemptsOf[a.provider] = AttemptsOf[a.provider - 1] + Retries[a.provider] + 1
      /\ AttemptsOf[a.provider - 1] \in Nat
      /\ Retries[a.provider] \in Nat
  <2>1. Provider = 1..Len(Retries) /\ Retries \in [Provider -> Nat] /\ Len(Retries) \in Nat
    BY ProviderAssumption, LenProperties DEF Provider
  <2>2. a.provider - 1 \in 0..Len(Retries)
    BY <1>1, <2>1
  <2> QED
    BY <1>1, <2>1, <2>2, AttemptsRecursion, AttemptsNat
<1>3. a.attempts > AttemptsOf[a.provider - 1] /\ a.attempts <= AttemptsOf[a.provider]
  BY <1>1, <1>2
<1> QED
  BY <1>3 DEF Cost

LEMMA FirstIsCounted == Counted(FirstAttempt)
<1>1. 1 \in Provider /\ Retries[1] \in Nat
  BY ProviderAssumption DEF Provider
<1>2. AttemptsOf[1 - 1] = 0
  BY AttemptsRecursion
<1> QED
  BY <1>1, <1>2 DEF Counted, FirstAttempt

LEMMA NextIsCounted ==
  ASSUME NEW a, Counted(a), NextAttempt(a) # NoAttempt
  PROVE  Counted(NextAttempt(a))
<1>1. Provider = 1..Len(Retries) /\ Retries \in [Provider -> Nat] /\ Len(Retries) \in Nat
  BY ProviderAssumption, LenProperties DEF Provider
<1>2. /\ a \in [provider : Provider, retry : Nat, attempts : Nat]
      /\ a.retry <= Retries[a.provider]
      /\ a.attempts = AttemptsOf[a.provider - 1] + a.retry + 1
  BY DEF Counted
<1>3. CASE a.retry < Retries[a.provider]
  <2>1. NextAttempt(a) = [provider |-> a.provider, retry |-> a.retry + 1, attempts |-> a.attempts + 1]
    BY <1>2, <1>3 DEF NextAttempt, NextRetry
  <2>2. /\ a.retry + 1 \in Nat /\ a.attempts + 1 \in Nat
        /\ a.retry + 1 <= Retries[a.provider]
    BY <1>1, <1>2, <1>3
  <2>3. AttemptsOf[a.provider - 1] \in Nat
    BY <1>1, <1>2, AttemptsNat
  <2>4. a.attempts + 1 = AttemptsOf[a.provider - 1] + (a.retry + 1) + 1
    BY <1>2, <2>3
  <2> QED
    BY <1>2, <2>1, <2>2, <2>4 DEF Counted
<1>4. CASE ~(a.retry < Retries[a.provider])
  <2>1. /\ a.provider < Len(Retries)
        /\ NextAttempt(a) = [provider |-> a.provider + 1, retry |-> 0, attempts |-> a.attempts + 1]
    BY <1>4 DEF NextAttempt, NextProvider
  <2>2. a.provider + 1 \in Provider /\ Retries[a.provider + 1] \in Nat
    BY <1>1, <1>2, <2>1
  <2>3. a.retry = Retries[a.provider]
    BY <1>1, <1>2, <1>4
  <2>4. AttemptsOf[a.provider] = a.attempts /\ AttemptsOf[a.provider] \in Nat
    BY <1>1, <1>2, <2>3, AttemptsRecursion, AttemptsNat
  <2>5. (a.provider + 1) - 1 = a.provider
    BY <1>1, <1>2
  <2> QED
    BY <2>1, <2>2, <2>4, <2>5 DEF Counted
<1> QED
  BY <1>3, <1>4

LEMMA AttemptInit == TimedInit => AttemptInv
<1> SUFFICES ASSUME TimedInit PROVE AttemptInv
  OBVIOUS
<1>1. /\ DOMAIN attempt = Worker /\ origin = <<>> /\ batches = <<>>
      /\ \A w \in Worker : pc[w] # "llm"
  BY DEF TimedInit, Init, SummarizerInit, StoreInit
<1> QED
  BY <1>1, EmptySeq DEF AttemptInv

(* A step that saves nothing and sends no request to a provider. *)
LEMMA NoAttemptMade ==
  ASSUME AttemptInv, DOMAIN attempt' = Worker, UNCHANGED <<origin, batches>>,
         \A w \in Worker : pc'[w] = "llm" => pc[w] = "llm" /\ attempt'[w] = attempt[w]
  PROVE  AttemptInv'
BY DEF AttemptInv, Counted, Cost

LEMMA AttemptStep == Types /\ AttemptInv /\ [TimedNext]_timedVars => AttemptInv'
<1> SUFFICES ASSUME Types, AttemptInv, [TimedNext]_timedVars PROVE AttemptInv'
  OBVIOUS
<1> USE DEF Types, WorkerTypeOK
<1>1. ASSUME NEW w \in Worker, TimedRequest(w) PROVE AttemptInv'
  BY <1>1, NoAttemptMade DEF TimedRequest, Request, storeVars, AttemptInv
<1>2. ASSUME NEW w \in Worker, Enter(w) \/ GetGroup(w), UNCHANGED timeVars PROVE AttemptInv'
  BY <1>2, NoAttemptMade DEF Enter, GetGroup, storeVars, timeVars, AttemptInv
<1>3. ASSUME NEW w \in Worker, Decide(w) PROVE AttemptInv'
  <2>0. UNCHANGED <<origin, batches>>
    BY <1>3 DEF Decide, storeVars
  <2>1. CASE UNCHANGED attempt /\ pc' = [pc EXCEPT ![w] = "group"]
    BY <2>0, <2>1, NoAttemptMade DEF AttemptInv
  <2>2. CASE attempt' = [attempt EXCEPT ![w] = FirstAttempt] /\ pc' = [pc EXCEPT ![w] = "llm"]
    <3>1. \A v \in Worker : pc'[v] = "llm" => Counted(attempt'[v])
      BY <2>2, FirstIsCounted DEF AttemptInv
    <3>2. DOMAIN attempt' = Worker
      BY <2>2 DEF AttemptInv
    <3> QED
      BY <2>0, <3>1, <3>2 DEF AttemptInv, Counted, Cost
  <2> QED
    BY <1>3, <2>1, <2>2 DEF Decide
<1>4. ASSUME NEW w \in Worker, AttemptFails(w) PROVE AttemptInv'
  <2>1. /\ pc[w] = "llm" /\ NextAttempt(attempt[w]) # NoAttempt
        /\ attempt' = [attempt EXCEPT ![w] = NextAttempt(attempt[w])]
        /\ UNCHANGED <<pc, batches, origin>>
    BY <1>4 DEF AttemptFails, vars, workerVars, storeVars
  <2>2. Counted(NextAttempt(attempt[w]))
    BY <2>1, NextIsCounted DEF AttemptInv
  <2>3. \A v \in Worker : pc'[v] = "llm" => Counted(attempt'[v])
    BY <2>1, <2>2 DEF AttemptInv
  <2>4. DOMAIN attempt' = Worker
    BY <2>1 DEF AttemptInv
  <2> QED
    BY <2>1, <2>3, <2>4 DEF AttemptInv, Counted, Cost
<1>5. ASSUME NEW w \in Worker, AnswerAndSave(w) PROVE AttemptInv'
  <2> DEFINE row == [provider |-> attempt[w].provider, attempts |-> attempt[w].attempts]
  <2>1. /\ pc[w] = "llm" /\ pc' = [pc EXCEPT ![w] = "group"]
        /\ attempt' = [attempt EXCEPT ![w] = NoAttempt]
        /\ origin' = Append(origin, row)
    BY <1>5 DEF AnswerAndSave, Answered, Save
  <2>2. Len(batches') = Len(batches) + 1
    <3>1. PICK added : batches' = Append(batches, added)
      BY <1>5 DEF AnswerAndSave, Save, SaveSummaryBatch
    <3> QED
      BY <3>1, AppendProperties DEF StoreTypeOK
  <2>3. Counted(attempt[w])
    BY <2>1 DEF AttemptInv
  <2>4. Cost(row) /\ row \in [provider : Provider, attempts : Nat]
    BY <2>3, CountedCost DEF Counted
  <2> HIDE DEF row
  <2>5. /\ origin' \in Seq([provider : Provider, attempts : Nat])
        /\ Len(origin') = Len(origin) + 1
        /\ \A b \in DOMAIN origin' : Cost(origin'[b])
    <3>1. /\ DOMAIN origin = 1..Len(origin) /\ Len(origin) \in Nat
          /\ DOMAIN origin' = 1..(Len(origin) + 1)
          /\ \A b \in 1..Len(origin) : origin'[b] = origin[b]
          /\ origin'[Len(origin) + 1] = row
          /\ origin' \in Seq([provider : Provider, attempts : Nat])
          /\ Len(origin') = Len(origin) + 1
      BY <2>1, <2>4, AppendProperties, LenProperties DEF AttemptInv
    <3>2. \A b \in 1..Len(origin) : Cost(origin'[b])
      BY <3>1 DEF AttemptInv
    <3>3. ASSUME NEW b \in DOMAIN origin' PROVE Cost(origin'[b])
      <4>1. b \in 1..Len(origin) \/ b = Len(origin) + 1
        BY <3>1
      <4> QED
        BY <2>4, <3>1, <3>2, <4>1
    <3> QED
      BY <3>1, <3>3
  <2>6. \A v \in Worker : pc'[v] = "llm" => Counted(attempt'[v])
    BY <2>1 DEF AttemptInv
  <2>7. DOMAIN attempt' = Worker
    BY <2>1 DEF AttemptInv
  <2>8. Len(origin') = Len(batches')
    BY <2>2, <2>5 DEF AttemptInv
  <2> QED
    BY <2>5, <2>6, <2>7, <2>8 DEF AttemptInv, Counted, Cost
<1>6. ASSUME NEW w \in Worker, Finish(w) \/ Abort(w), Return(w) PROVE AttemptInv'
  BY <1>6, NoAttemptMade DEF Finish, Abort, Leave, Return, Answered, storeVars, AttemptInv
<1>7. ASSUME NEW p \in Proc, TimedCrash(p) PROVE AttemptInv'
  BY <1>7, NoAttemptMade DEF TimedCrash, Crash, Forget, storeVars, AttemptInv
<1>8. CASE Tick \/ UNCHANGED timedVars
  <2>1. UNCHANGED <<pc, batches, origin, attempt>>
    BY <1>8 DEF Tick, timedVars, timeVars, vars, workerVars, storeVars
  <2> QED
    BY <2>1, NoAttemptMade DEF AttemptInv
<1>9. ASSUME \/ \E m \in Message : Arrive(m)
             \/ \E g \in Group : Activity(g)
             \/ \E typeOf \in Subscriptions : Subscribe(typeOf)
             \/ \E listed \in Catalogues : SyncGroups(listed)
             \/ \E before \in Cutoffs : Cleanup(before),
             UNCHANGED timeVars
      PROVE  AttemptInv'
  <2>1. UNCHANGED <<workerVars, batches>>
    <3>1. CASE \E m \in Message : Arrive(m)
      BY <3>1 DEF Arrive, Ingest, InsertMessage
    <3>2. CASE \E g \in Group : Activity(g)
      BY <3>2 DEF Activity, RecordGroupActivity
    <3>3. CASE \E typeOf \in Subscriptions : Subscribe(typeOf)
      BY <3>3 DEF Subscribe, ReplaceGroupSubscriptions
    <3>4. CASE \E listed \in Catalogues : SyncGroups(listed)
      BY <3>4 DEF SyncGroups, SyncAvailableGroups
    <3>5. CASE \E before \in Cutoffs : Cleanup(before)
      BY <3>5 DEF Cleanup, CleanupSummarizedMessages
    <3> QED
      BY <1>9, <3>1, <3>2, <3>3, <3>4, <3>5
  <2> QED
    BY <1>9, <2>1, NoAttemptMade DEF AttemptInv, workerVars, timeVars
<1> QED
  BY <1>1, <1>2, <1>3, <1>4, <1>5, <1>6, <1>7, <1>8, <1>9
     DEF TimedNext, TimedStep, Exhausted

LEMMA AttemptsHold == TimedSpec => []AttemptInv
<1>1. TimedInit => Types /\ AttemptInv
  BY TypesInit, AttemptInit DEF TimedInit
<1>2. Types /\ AttemptInv /\ [TimedNext]_timedVars => (Types /\ AttemptInv)'
  BY TimedStepMaps, TypesStep, AttemptStep
<1> QED
  BY <1>1, <1>2, PTL DEF TimedSpec

(* What generate_validated returns as attempts is what save_summary_batch  *)
(* keeps with the row, and it tells which provider answered, for every     *)
(* list of providers and retries and every crash and failure in between.   *)
THEOREM AttemptsAreThoseMade == TimedSpec => []AttemptsTellProvider
<1>1. AttemptInv => AttemptsTellProvider
  BY DEF AttemptInv, Cost, AttemptsTellProvider
<1> QED
  BY <1>1, AttemptsHold, PTL

(* generate_validated gives a group up, which ends the pass, only after    *)
(* all the attempts of all the providers.                                  *)
THEOREM GivenUpOnlyAtTheEnd == TimedSpec => []GivenUpAfterAll
<1>1. AttemptInv => GivenUpAfterAll
  <2> SUFFICES ASSUME AttemptInv, NEW w \in Worker, OnLastAttempt(w)
               PROVE  attempt[w].attempts = AttemptsOf[Len(Retries)]
    BY DEF GivenUpAfterAll
  <2> DEFINE a == attempt[w]
  <2>1. Counted(a) /\ NextAttempt(a) = NoAttempt
    BY DEF AttemptInv, OnLastAttempt
  <2> HIDE DEF a
  <2>2. Provider = 1..Len(Retries) /\ Retries \in [Provider -> Nat] /\ Len(Retries) \in Nat
    BY ProviderAssumption, LenProperties DEF Provider
  <2>3. /\ a \in [provider : Provider, retry : Nat, attempts : Nat]
        /\ a.retry <= Retries[a.provider]
        /\ a.attempts = AttemptsOf[a.provider - 1] + a.retry + 1
    BY <2>1 DEF Counted
  <2>4. ~(a.retry < Retries[a.provider])
    <3>1. NextRetry(a).provider = a.provider /\ a.provider # 0
      BY <2>2, <2>3 DEF NextRetry
    <3> QED
      BY <2>1, <3>1 DEF NextAttempt, NoAttempt
  <2>5. ~(a.provider < Len(Retries))
    <3>1. NextProvider(a).provider # 0
      BY <2>2, <2>3 DEF NextProvider
    <3> QED
      BY <2>1, <2>4, <3>1 DEF NextAttempt, NoAttempt
  <2>6. a.provider = Len(Retries) /\ a.retry = Retries[a.provider]
    BY <2>2, <2>3, <2>4, <2>5
  <2>7. AttemptsOf[a.provider] = AttemptsOf[a.provider - 1] + Retries[a.provider] + 1
    BY <2>3, AttemptsRecursion
  <2>8. AttemptsOf[a.provider] = a.attempts
    BY <2>3, <2>6, <2>7
  <2>9. a.attempts = AttemptsOf[Len(Retries)]
    BY <2>6, <2>8
  <2> QED
    BY <2>9 DEF a
<1> QED
  BY <1>1, AttemptsHold, PTL

(* The clock, the threads and the providers change nothing of what holds   *)
(* of the tables: the timed module implements Summarizer.                  *)
THEOREM TimedKeepsClaims ==
  TimedSpec => [](TypeOK /\ ClaimsMatchSummaries /\ SummarisedOnce /\ OneNotificationPerKey)
BY TimedImplements, SummarizerTypeCorrect, ClaimsCorrect, NeverSummarisedTwice,
   NotificationsUnique, PTL DEF ImplementsSummarizer
=============================================================================
