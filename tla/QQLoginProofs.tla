----------------------------- MODULE QQLoginProofs -----------------------------
(***************************************************************************)
(* Theorems about QQLogin, for every number of threads and sessions.       *)
(***************************************************************************)
EXTENDS QQLogin, SequenceTheorems, TLAPS

(* What a thread inside _post knows.  It works with the cached credential, *)
(* it logs in only while that is not good for the present session, and     *)
(* after a login of its own only an expiry meanwhile can refuse it.  A     *)
(* login makes the cached credential good until the session ends.          *)
PostInv ==
  /\ \A t \in Thread :
       /\ at[t] \in {"locking"} \cup InPost => path[t] # <<>>
       /\ at[t] = "post" => local[t] = credential
       /\ at[t] = "login" => credential # session
       /\ at[t] = "post" /\ retried[t] /\ ~expired[t] => local[t] = session
       /\ at[t] = "rejected" => expired[t]
  /\ logins # 0 => credential = session
  /\ logins \in {0, 1}

QInv == QTypeOK /\ PostInv

LEMMA QInvInit == QInit => QInv
<1> SUFFICES ASSUME QInit PROVE QInv
  OBVIOUS
<1>1. QTypeOK
  BY SessionAssumption DEF QInit, QTypeOK, Place, InPost, Outcome
<1>2. PostInv
  BY DEF QInit, PostInv, InPost
<1> QED
  BY <1>1, <1>2 DEF QInv

(* The thread in _post is alone there, so it alone touches the credential. *)
LEMMA QInvStep == QInv /\ [QNext]_qvars => QInv'
<1> SUFFICES ASSUME QInv, [QNext]_qvars PROVE QInv'
  OBVIOUS
<1> USE SessionAssumption DEF QInv, QTypeOK, PostInv, Place, InPost, Outcome, Goto
<1>1. ASSUME NEW t \in Thread, NEW request \in Requests, Call(t, request) PROVE QInv'
  <2>1. request \in Seq({"check", "refresh"}) /\ request # <<>>
    <3>1. <<"check">> \in Seq({"check", "refresh"}) /\ <<"check">> # <<>>
      OBVIOUS
    <3>2. <<"refresh", "check">> \in Seq({"check", "refresh"}) /\ <<"refresh", "check">> # <<>>
      OBVIOUS
    <3> QED
      BY <3>1, <3>2, Zenon DEF Requests
  <2>2. QTypeOK'
    BY <1>1, <2>1 DEF Call
  <2>3. PostInv'
    BY <1>1, <2>1 DEF Call
  <2> QED
    BY <2>2, <2>3
<1>2. ASSUME NEW t \in Thread, Acquire(t) PROVE QInv'
  <2>1. lock = {} /\ \A u \in Thread : at[u] \notin InPost
    BY <1>2 DEF Acquire, LockFree
  <2>2. QTypeOK'
    BY <1>2, <2>1 DEF Acquire, SharedCredential
  <2>3. PostInv'
    BY <1>2, <2>1 DEF Acquire, SharedCredential
  <2> QED
    BY <2>2, <2>3
<1>3. ASSUME NEW t \in Thread, LogIn(t) PROVE QInv'
  <2>1. \A u \in Thread \ {t} : at[u] \notin InPost
    BY <1>3 DEF LogIn
  <2>2. logins = 0
    BY <1>3 DEF LogIn
  <2>3. QTypeOK'
    BY <1>3, <2>1, <2>2 DEF LogIn
  <2>4. PostInv'
    BY <1>3, <2>1, <2>2 DEF LogIn
  <2> QED
    BY <2>3, <2>4
<1>4. ASSUME NEW t \in Thread, Fail(t) \/ Reject(t) PROVE QInv'
  <2>1. QTypeOK'
    BY <1>4 DEF Fail, Reject, Raise, Release
  <2>2. PostInv'
    BY <1>4 DEF Fail, Reject, Raise, Release
  <2> QED
    BY <2>1, <2>2
<1>5. ASSUME NEW t \in Thread, Answer(t) PROVE QInv'
  <2>1. path[t] \in Seq({"check", "refresh"}) /\ path[t] # <<>>
    BY <1>5 DEF Answer
  <2>2. /\ Tail(path[t]) \in Seq({"check", "refresh"})
        /\ Len(Tail(path[t])) = Len(path[t]) - 1
        /\ Len(path[t]) \in Nat
    BY <2>1, HeadTailProperties, LenProperties
  <2>3. Len(path[t]) # 1 => Tail(path[t]) # <<>>
    <3>1. Tail(path[t]) = <<>> => Len(Tail(path[t])) = 0
      BY EmptySeq
    <3> QED
      BY <2>2, <3>1
  <2>4. QTypeOK'
    BY <1>5, <2>2 DEF Answer, Release
  <2>5. PostInv'
    BY <1>5, <2>3 DEF Answer, Release
  <2> QED
    BY <2>4, <2>5
<1>6. ASSUME NEW t \in Thread, Reauthenticate(t) PROVE QInv'
  <2>1. QTypeOK'
    BY <1>6 DEF Reauthenticate
  <2>2. PostInv'
    BY <1>6 DEF Reauthenticate
  <2> QED
    BY <2>1, <2>2
<1>7. CASE Expire
  <2>1. QTypeOK'
    BY <1>7 DEF Expire
  <2>2. PostInv'
    BY <1>7 DEF Expire
  <2> QED
    BY <2>1, <2>2
<1>8. CASE Restart
  <2>1. QTypeOK'
    BY <1>8 DEF Restart
  <2>2. PostInv'
    BY <1>8 DEF Restart
  <2> QED
    BY <2>1, <2>2
<1>9. CASE UNCHANGED qvars
  BY <1>9 DEF qvars
<1> QED
  BY <1>1, <1>2, <1>3, <1>4, <1>5, <1>6, <1>7, <1>8, <1>9 DEF QNext, ThreadStep

LEMMA QInvHolds == QSpec => []QInv
<1> QED
  BY QInvInit, QInvStep, PTL DEF QSpec

(* The threads that talk to NapCat are those inside the with block of      *)
(* _post, and there is at most one of them.                                *)
THEOREM OneThreadInPost == QSpec => []QTypeOK
<1>1. QInv => QTypeOK
  BY DEF QInv
<1> QED
  BY <1>1, QInvHolds, PTL

(* A request is refused for good only if NapCat ended a session while it   *)
(* had the lock: an expired credential alone never fails a request.        *)
THEOREM RefusedOnlyByExpiry == QSpec => []RejectedOnlyIfExpired
<1>1. QInv => RejectedOnlyIfExpired
  BY DEF QInv, PostInv, RejectedOnlyIfExpired
<1> QED
  BY <1>1, QInvHolds, PTL

(* However many threads find the credential expired, one of them logs in.  *)
THEOREM OneLogin == QSpec => []OneLoginPerSession
<1>1. QInv => OneLoginPerSession
  BY DEF QInv, PostInv, OneLoginPerSession
<1> QED
  BY <1>1, QInvHolds, PTL
=============================================================================
