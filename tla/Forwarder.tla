-------------------------------- MODULE Forwarder --------------------------------
(***************************************************************************)
(* The Koishi plugin of koishi/src/index.ts in front of the HTTP API: how  *)
(* a QQ message reaches the tables of Store, and how the list of groups    *)
(* does.  The plugin is a process of its own; a request to the server may  *)
(* be lost, its answer may be lost, and a request the plugin gave up       *)
(* waiting for may still be carried out later.                             *)
(*                                                                         *)
(* Left out: the connection status, which only the web page shows, and     *)
(* messages without an id, which the plugin does not send.                 *)
(***************************************************************************)
EXTENDS Store

CONSTANTS
  Retries,        \* config.retries
  Sync,           \* calls of syncBridge that may be under way together
  Pages,          \* the pages bot.getGuildList returns the groups in
  Subscriptions,  \* the bodies PUT /api/v1/qq/groups may carry
  MaxMoves        \* bound on the times the account enters or leaves a group

ASSUME RetriesAssumption == Retries \in Nat
ASSUME MovesAssumption == MaxMoves \in Nat
ASSUME PagesAssumption == /\ Pages \in Seq(SUBSET Group)
                          /\ UNION ToSet(Pages) = Group
ASSUME SubscriptionsAssumption ==
         Subscriptions \subseteq UNION {[G -> GroupType] : G \in SUBSET Group}

VARIABLES
  member,     \* the groups the QQ account is in
  moves,      \* how often that changed
  handler,    \* where the handler of each message is
  tries,      \* the posts of each message that failed
  sync,       \* each syncBridge call: where it is and the groups it has listed
  inflight,   \* the requests the server may still carry out
  selected    \* history: messages whose group was selected at some time since they came

forwarderVars == <<member, moves, handler, tries, sync, inflight, selected>>
fvars == <<storeVars, forwarderVars>>

(* "activity" and "posted" wait for an answer; "ready" is about to post the *)
(* message, the first time or after a pause.                                *)
Stage   == {"unseen", "activity", "ready", "posted", "stored", "ignored", "dropped", "failed"}
InHand  == {"activity", "ready", "posted"}
NoSync  == [page |-> 0, list |-> {}]

ActivityPost(m)   == [kind |-> "activity", message |-> m]
MessagePost(m, n) == [kind |-> "message", message |-> m, try |-> n]
GroupsPost(s, G)  == [kind |-> "groups", by |-> s, list |-> G]

ForwarderInit ==
  /\ StoreInit
  /\ member   = Group
  /\ moves    = 0
  /\ handler  = [m \in Message |-> "unseen"]
  /\ tries    = [m \in Message |-> 0]
  /\ sync     = [s \in Sync |-> NoSync]
  /\ inflight = {}
  /\ selected = {}

Enabled(g) == groups[g].enabled
StoredAlready(m) == \E r \in RowIds : messages[r].message = m

-----------------------------------------------------------------------------
(* The handler of a message. *)

(* ctx.on('message'): the group's activity is posted. *)
OnMessage(m) ==
  /\ handler[m] = "unseen"
  /\ GroupOf[m] \in member
  /\ handler' = [handler EXCEPT ![m] = "activity"]
  /\ inflight' = inflight \cup {ActivityPost(m)}
  /\ selected' = IF Enabled(GroupOf[m]) THEN selected \cup {m} ELSE selected
  /\ UNCHANGED <<storeVars, member, moves, tries, sync>>

(* Faulty variant for mutation: the error is logged and the handler goes   *)
(* on as if the group were selected.                                       *)
GoesOn(m) == handler' = [handler EXCEPT ![m] = "ready"]

Drops(m) == handler' = [handler EXCEPT ![m] = "dropped"]

(* The activity post fails or times out: the message is given up.  The     *)
(* request may have been lost or may still be on its way.                  *)
ActivityFails(m) ==
  /\ handler[m] = "activity"
  /\ Drops(m)
  /\ inflight' \in {inflight, inflight \ {ActivityPost(m)}}
  /\ UNCHANGED <<storeVars, member, moves, tries, sync, selected>>

(* The message is posted: the first try, or one after a pause. *)
Post(m) ==
  /\ handler[m] = "ready"
  /\ handler' = [handler EXCEPT ![m] = "posted"]
  /\ inflight' = inflight \cup {MessagePost(m, tries[m])}
  /\ UNCHANGED <<storeVars, member, moves, tries, sync, selected>>

(* Faulty variants for mutation: one try too few, one too many. *)
OneTryTooFew(m)  == IF tries[m] + 1 < Retries THEN "ready" ELSE "failed"
OneTryTooMany(m) == IF tries[m] <= Retries THEN "ready" ELSE "failed"

NextTry(m) == IF tries[m] < Retries THEN "ready" ELSE "failed"

TryFails(m) ==
  /\ handler' = [handler EXCEPT ![m] = NextTry(m)]
  /\ tries' = [tries EXCEPT ![m] = @ + 1]

(* The post fails or times out. *)
PostFails(m) ==
  /\ handler[m] = "posted"
  /\ TryFails(m)
  /\ inflight' \in {inflight, inflight \ {MessagePost(m, tries[m])}}
  /\ UNCHANGED <<storeVars, member, moves, sync, selected>>

-----------------------------------------------------------------------------
(* syncBridge *)

(* The timer does not wait for the call before. *)
SyncStart(s) ==
  /\ sync[s] = NoSync
  /\ sync' = [sync EXCEPT ![s].page = 1]
  /\ UNCHANGED <<storeVars, member, moves, handler, tries, inflight, selected>>

SyncPage(s) ==
  /\ sync[s].page \in DOMAIN Pages
  /\ LET list == sync[s].list \cup (Pages[sync[s].page] \cap member)
     IN  /\ sync' = [sync EXCEPT ![s] = [page |-> @.page + 1, list |-> list]]
         /\ inflight' = IF sync[s].page = Len(Pages)
                        THEN inflight \cup {GroupsPost(s, list)} ELSE inflight
  /\ UNCHANGED <<storeVars, member, moves, handler, tries, selected>>

(* A call of it fails, or there is no bot: the next timer tries again. *)
SyncFails(s) ==
  /\ sync[s] # NoSync
  /\ sync' = [sync EXCEPT ![s] = NoSync]
  /\ inflight' \in {inflight, inflight \ {GroupsPost(s, sync[s].list)}}
  /\ UNCHANGED <<storeVars, member, moves, handler, tries, selected>>

-----------------------------------------------------------------------------
(* The server.  Its answer reaches the plugin, if that still waits for it, *)
(* or is lost.                                                             *)

ServeActivity(m) ==
  /\ ActivityPost(m) \in inflight
  /\ RecordGroupActivity(GroupOf[m])
  /\ inflight' = inflight \ {ActivityPost(m)}
  /\ \/ /\ handler[m] = "activity"
        /\ handler' = [handler EXCEPT ![m] = IF Enabled(GroupOf[m]) THEN "ready" ELSE "ignored"]
     \/ UNCHANGED handler
  /\ UNCHANGED <<member, moves, tries, sync, selected>>

(* Faulty variant for mutation: INSERT OR REPLACE, a message delivered     *)
(* again gets a new row.                                                   *)
Replaced(m) ==
  \/ InsertMessage(m)
  \/ ~Enabled(GroupOf[m]) /\ UNCHANGED storeVars
  \/ /\ Enabled(GroupOf[m]) /\ StoredAlready(m) /\ lastMessageId < MaxRows
     /\ messages' = [r \in (RowIds \ {RowOf(m)}) \cup {NextMessageId} |->
          IF r = NextMessageId THEN [message |-> m, batch |-> NULL] ELSE messages[r]]
     /\ lastMessageId' = NextMessageId
     /\ UNCHANGED <<groups, batches, notifications>>

(* receive_message: 404 for a group that is not selected, otherwise 200,   *)
(* "stored" or "duplicate".                                                *)
Ingested(m) ==
  \/ InsertMessage(m)
  \/ (~Enabled(GroupOf[m]) \/ StoredAlready(m)) /\ UNCHANGED storeVars

(* Faulty variant for mutation: a group that is not selected is answered   *)
(* with 200 and "ignored".                                                 *)
AcceptedAnyway(m) == TRUE

Accepted(m) == Enabled(GroupOf[m])

ServeMessage(m, n) ==
  /\ MessagePost(m, n) \in inflight
  /\ Ingested(m)
  /\ inflight' = inflight \ {MessagePost(m, n)}
  /\ \/ /\ handler[m] = "posted" /\ tries[m] = n
        /\ IF Accepted(m)
           THEN handler' = [handler EXCEPT ![m] = "stored"] /\ UNCHANGED tries
           ELSE TryFails(m)
     \/ UNCHANGED <<handler, tries>>
  /\ UNCHANGED <<member, moves, sync, selected>>

ServeGroups(s, G) ==
  /\ GroupsPost(s, G) \in inflight
  /\ SyncAvailableGroups(G)
  /\ inflight' = inflight \ {GroupsPost(s, G)}
  /\ \/ /\ sync[s] = [page |-> Len(Pages) + 1, list |-> G]
        /\ sync' = [sync EXCEPT ![s] = NoSync]
     \/ UNCHANGED sync
  /\ UNCHANGED <<member, moves, handler, tries, selected>>

-----------------------------------------------------------------------------
(* The user selects groups, the account enters and leaves groups, the      *)
(* plugin dies.                                                            *)

Select(typeOf) ==
  /\ ReplaceGroupSubscriptions(typeOf)
  /\ selected' = selected \cup
       {m \in Message : handler[m] # "unseen" /\ GroupOf[m] \in DOMAIN typeOf}
  /\ UNCHANGED <<member, moves, handler, tries, sync, inflight>>

Move(g) ==
  /\ moves < MaxMoves
  /\ moves' = moves + 1
  /\ member' = IF g \in member THEN member \ {g} ELSE member \cup {g}
  /\ UNCHANGED <<storeVars, handler, tries, sync, inflight, selected>>

PluginCrash ==
  /\ handler' = [m \in Message |-> IF handler[m] \in InHand THEN "dropped" ELSE handler[m]]
  /\ sync' = [s \in Sync |-> NoSync]
  /\ UNCHANGED <<storeVars, member, moves, tries, inflight, selected>>

HandlerStep(m) ==
  \/ OnMessage(m) \/ ActivityFails(m) \/ Post(m) \/ PostFails(m)
  \/ ServeActivity(m) \/ \E n \in 0..Retries : ServeMessage(m, n)

SyncStep(s) ==
  \/ SyncStart(s) \/ SyncPage(s) \/ \E G \in SUBSET Group : ServeGroups(s, G)

ForwarderNext ==
  \/ \E m \in Message : HandlerStep(m)
  \/ \E s \in Sync : SyncStep(s) \/ SyncFails(s)
  \/ \E typeOf \in Subscriptions : Select(typeOf)
  \/ \E g \in Group : Move(g)
  \/ PluginCrash

ForwarderSpec == ForwarderInit /\ [][ForwarderNext]_fvars

-----------------------------------------------------------------------------
(* Fairness.  The plugin's timers and the server's threads run, so that a  *)
(* request that is not lost is carried out some time; from some time on    *)
(* syncBridge is not cut off before the server has carried out its post.   *)

SyncUndisturbed ==
  \A s \in Sync : sync[s] # NoSync /\ sync'[s] = NoSync =>
    /\ sync[s].page > Len(Pages)
    /\ GroupsPost(s, sync[s].list) \in inflight => ServeGroups(s, sync[s].list)

ForwarderFairness ==
  /\ \A s \in Sync : WF_fvars(SyncStart(s) \/ SyncPage(s) \/ SyncFails(s))
  /\ \A s \in Sync, G \in SUBSET Group : WF_fvars(ServeGroups(s, G))
  /\ \A m \in Message : WF_fvars(ServeActivity(m))
  /\ <>[][SyncUndisturbed]_fvars

-----------------------------------------------------------------------------
(* Properties *)

(* What the plugin and the API do to the tables, however requests and      *)
(* answers are lost, repeated and delayed, is what Summarizer expects of   *)
(* the rest of the server.                                                 *)
Tables == INSTANCE Summarizer WITH
            Proc <- {}, Worker <- {}, ProcOf <- <<>>, Forced <- {},
            MaxMessages <- [t \in GroupType |-> 1], Poison <- {}, MaxCandidates <- 0,
            Catalogues <- SUBSET Group, Cutoffs <- {},
            pc <- <<>>, todo <- <<>>, kind <- <<>>, shown <- <<>>, runLock <- <<>>

ImplementsEnvironment == Tables!Spec

SyncCall == [page : 0..(Len(Pages) + 1), list : SUBSET Group]

HttpRequest ==
  {ActivityPost(m) : m \in Message}
    \cup {MessagePost(m, n) : m \in Message, n \in 0..Retries}
    \cup {GroupsPost(s, G) : s \in Sync, G \in SUBSET Group}

(* Type invariant. *)
ForwarderTypeOK ==
  /\ member \subseteq Group
  /\ moves \in 0..MaxMoves
  /\ handler \in [Message -> Stage]
  /\ tries \in [Message -> 0..(Retries + 1)]
  /\ sync \in [Sync -> SyncCall]
  /\ selected \subseteq Message
  /\ inflight \subseteq HttpRequest

(* The content of a message leaves the plugin, and is stored, only if its  *)
(* group was selected at some time since the message came: of other groups *)
(* only name, number and activity are reported.                            *)
ContentOnlyIfSelected ==
  \A m \in Message :
    (StoredAlready(m) \/ \E n \in 0..Retries : MessagePost(m, n) \in inflight) => m \in selected

(* What the handler believes in the end is true: a message it was told is  *)
(* stored is stored, once, although the answer may be that to a repeated   *)
(* request; and it gives a message up as failed only after all its tries.  *)
OutcomeIsTrue ==
  \A m \in Message :
    /\ handler[m] = "stored" => StoredAlready(m)
    /\ handler[m] = "failed" => tries[m] = Retries + 1
    /\ \A r, q \in RowIds : messages[r].message = m /\ messages[q].message = m => r = q

Available == {g \in Group : groups[g].available}

(* Once the account stays in the same groups, the catalogue becomes and    *)
(* stays that list, although lists read before, lists that were read half  *)
(* before and half after, and activity of groups left since still arrive.  *)
CatalogueConverges ==
  <>[][member' = member]_member => <>[](Available = member)
=============================================================================
