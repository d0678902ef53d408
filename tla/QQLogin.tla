-------------------------------- MODULE QQLogin --------------------------------
(***************************************************************************)
(* NapCatWebUIGateway of app/qq_login.py: request threads of the API share *)
(* one cached credential of NapCat's web UI, under a lock that is held     *)
(* across the HTTP calls.                                                  *)
(*                                                                         *)
(* NapCat (external) forgets the credentials it gave out when it restarts  *)
(* or a session expires; a credential is abstracted to the number of the   *)
(* session it was given out in.                                            *)
(***************************************************************************)
EXTENDS Integers, Sequences, FiniteSets

CONSTANTS
  Thread,         \* request threads of the API
  MaxSession      \* bound on the sessions of NapCat

ASSUME SessionAssumption == MaxSession \in Nat \ {0}

VARIABLES
  session,        \* NapCat: the present session
  credential,     \* _credential: the session it is good for, 0 for ""
  lock,           \* _lock: the threads inside its with block
  at,             \* where each thread is
  path,           \* what it still has to post
  local,          \* its variable credential
  retried,        \* whether attempt is 1
  expired,        \* history: the session ended while it held the lock
  logins          \* history: logins since the session or the process began

qvars == <<session, credential, lock, at, path, local, retried, expired, logins>>

InPost  == {"login", "post"}
Outcome == {"done", "rejected", "unavailable"}
Place   == {"idle", "locking"} \cup InPost \cup Outcome

(* snapshot and refresh_qr_code *)
Requests == {<<"check">>, <<"refresh", "check">>}

QInit ==
  /\ session    = 1
  /\ credential = 0
  /\ lock       = {}
  /\ at         = [t \in Thread |-> "idle"]
  /\ path       = [t \in Thread |-> <<>>]
  /\ local      = [t \in Thread |-> 0]
  /\ retried    = [t \in Thread |-> FALSE]
  /\ expired    = [t \in Thread |-> FALSE]
  /\ logins     = 0

-----------------------------------------------------------------------------
Goto(t, place) == at' = [at EXCEPT ![t] = place]

(* Faulty variant for mutation: the lock is left out. *)
NeverBusy == TRUE

LockFree == lock = {}

(* Faulty variant for mutation: each thread keeps a credential of its own. *)
OwnCredential(t) == local[t]

SharedCredential(t) == credential

(* Faulty variant for mutation: an exception leaves the lock taken. *)
KeepLock(t) == lock' = lock

Release(t) == lock' = lock \ {t}

(* A request of the web page arrives. *)
Call(t, request) ==
  /\ at[t] \in {"idle"} \cup Outcome
  /\ Goto(t, "locking")
  /\ path' = [path EXCEPT ![t] = request]
  /\ UNCHANGED <<session, credential, lock, local, retried, expired, logins>>

(* _post begins: the lock, then the cached credential. *)
Acquire(t) ==
  /\ at[t] = "locking"
  /\ LockFree
  /\ lock' = lock \cup {t}
  /\ local' = [local EXCEPT ![t] = SharedCredential(t)]
  /\ Goto(t, IF SharedCredential(t) = 0 THEN "login" ELSE "post")
  /\ retried' = [retried EXCEPT ![t] = FALSE]
  /\ expired' = [expired EXCEPT ![t] = FALSE]
  /\ UNCHANGED <<session, credential, path, logins>>

(* Faulty variant for mutation: the retry posts the credential that was    *)
(* just refused.                                                           *)
KeepRefused(t) ==
  /\ at[t] = "login"
  /\ credential' = session
  /\ local' = [local EXCEPT ![t] = IF retried[t] THEN @ ELSE session]
  /\ Goto(t, "post")
  /\ logins' = logins + 1
  /\ UNCHANGED <<session, lock, path, retried, expired>>

(* _authenticate gets a credential of the present session. *)
LogIn(t) ==
  /\ at[t] = "login"
  /\ credential' = session
  /\ local' = [local EXCEPT ![t] = session]
  /\ Goto(t, "post")
  /\ logins' = logins + 1
  /\ UNCHANGED <<session, lock, path, retried, expired>>

(* QQLoginUnavailable leaves the with block. *)
Raise(t, outcome) ==
  /\ Goto(t, outcome)
  /\ Release(t)
  /\ UNCHANGED <<session, credential, path, local, retried, expired, logins>>

(* NapCat cannot be reached, refuses the token or answers with an error.   *)
Fail(t) ==
  /\ at[t] \in InPost
  /\ Raise(t, "unavailable")

Answer(t) ==
  /\ at[t] = "post"
  /\ local[t] = session
  /\ Release(t)
  /\ path' = [path EXCEPT ![t] = Tail(@)]
  /\ Goto(t, IF Len(path[t]) = 1 THEN "done" ELSE "locking")
  /\ UNCHANGED <<session, credential, local, retried, expired, logins>>

(* "unauthorized", the first time. *)
Reauthenticate(t) ==
  /\ at[t] = "post"
  /\ local[t] # session
  /\ ~retried[t]
  /\ Goto(t, "login")
  /\ retried' = [retried EXCEPT ![t] = TRUE]
  /\ UNCHANGED <<session, credential, lock, path, local, expired, logins>>

(* "unauthorized" again. *)
Reject(t) ==
  /\ at[t] = "post"
  /\ local[t] # session
  /\ retried[t]
  /\ Raise(t, "rejected")

(* NapCat starts a new session. *)
Expire ==
  /\ session < MaxSession
  /\ session' = session + 1
  /\ expired' = [t \in Thread |-> expired[t] \/ t \in lock]
  /\ logins' = 0
  /\ UNCHANGED <<credential, lock, at, path, local, retried>>

(* The server dies and starts again. *)
Restart ==
  /\ credential' = 0
  /\ lock' = {}
  /\ at' = [t \in Thread |-> "idle"]
  /\ local' = [t \in Thread |-> 0]
  /\ logins' = 0
  /\ UNCHANGED <<session, path, retried, expired>>

ThreadStep(t) == Acquire(t) \/ LogIn(t) \/ Fail(t) \/ Answer(t) \/ Reauthenticate(t) \/ Reject(t)

QNext ==
  \/ \E t \in Thread : ThreadStep(t) \/ \E request \in Requests : Call(t, request)
  \/ Expire
  \/ Restart

QSpec == QInit /\ [][QNext]_qvars

(* Every HTTP call ends, at the latest by its timeout. *)
QFairness == \A t \in Thread : WF_qvars(ThreadStep(t))

-----------------------------------------------------------------------------
(* Properties *)

(* Type invariant, and mutual exclusion: the threads that talk to NapCat   *)
(* are those that hold the lock, and there is at most one.                 *)
QTypeOK ==
  /\ session \in 1..MaxSession
  /\ credential \in 0..session
  /\ at \in [Thread -> Place]
  /\ path \in [Thread -> Seq({"check", "refresh"})]
  /\ local \in [Thread -> 0..session]
  /\ retried \in [Thread -> BOOLEAN]
  /\ expired \in [Thread -> BOOLEAN]
  /\ logins \in Nat
  /\ lock = {t \in Thread : at[t] \in InPost}
  /\ \A t, u \in lock : t = u

(* A request is refused for good only if NapCat ended a session while the  *)
(* request had the lock: an old credential, whichever thread fetched it    *)
(* and however long ago it expired, is renewed without the page noticing.  *)
RejectedOnlyIfExpired == \A t \in Thread : at[t] = "rejected" => expired[t]

(* Threads that find the credential expired do not log in one after the    *)
(* other: there is one successful login per session of NapCat and process  *)
(* of the server.                                                          *)
OneLoginPerSession == logins <= 1

(* Whatever is raised, the lock is free again and again. *)
LockIsFreed == []<>(lock = {})
=============================================================================
