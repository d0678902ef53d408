--------------------------- MODULE ForwarderProofs ---------------------------
(***************************************************************************)
(* Theorems about Forwarder, for every set of groups, messages and calls   *)
(* of syncBridge, every number of retries and every paging of the list.    *)
(***************************************************************************)
EXTENDS Forwarder, SequenceTheorems, TLAPS

(* The tables the plugin reaches keep their types, and a message has one   *)
(* row: UNIQUE(group_id, qq_message_id).                                   *)
TablesOK ==
  /\ groups \in [Group -> GroupRow]
  /\ lastMessageId \in Nat
  /\ RowIds \subseteq 1..lastMessageId
  /\ messages \in [RowIds -> MessageRow]
  /\ \A r, q \in RowIds : messages[r].message = messages[q].message => r = q

(* What leads up to a post of the content: the group was found enabled.    *)
SelectedFirst ==
  \A m \in Message :
    /\ handler[m] # "unseen" /\ Enabled(GroupOf[m]) => m \in selected
    /\ handler[m] \in {"ready", "posted", "stored"} => m \in selected
    /\ ActivityPost(m) \in inflight => handler[m] # "unseen"
    /\ \A n \in 0..Retries : MessagePost(m, n) \in inflight => m \in selected
    /\ StoredAlready(m) => m \in selected

(* The tries of a handler that has not come to an end are not used up.     *)
TriesInv ==
  \A m \in Message :
    /\ handler[m] \in {"unseen", "activity", "ready", "posted"} => tries[m] <= Retries
    /\ handler[m] = "failed" => tries[m] = Retries + 1
    /\ handler[m] = "stored" => StoredAlready(m)

FInv == ForwarderTypeOK /\ TablesOK /\ SelectedFirst /\ TriesInv

-----------------------------------------------------------------------------
(* Requests of different kinds, or for different things, are different.    *)
LEMMA PostsDiffer ==
  ASSUME NEW m, NEW k, NEW n, NEW i, NEW s, NEW G
  PROVE  /\ ActivityPost(m) = ActivityPost(k) => m = k
         /\ MessagePost(m, n) = MessagePost(k, i) => m = k /\ n = i
         /\ ActivityPost(m) # MessagePost(k, i)
         /\ ActivityPost(m) # GroupsPost(s, G)
         /\ MessagePost(m, n) # GroupsPost(s, G)
<1>1. /\ ActivityPost(m).kind = "activity" /\ ActivityPost(m).message = m
      /\ ActivityPost(k).message = k
      /\ MessagePost(m, n).kind = "message" /\ MessagePost(m, n).message = m
      /\ MessagePost(m, n).try = n
      /\ MessagePost(k, i).kind = "message" /\ MessagePost(k, i).message = k
      /\ MessagePost(k, i).try = i
      /\ GroupsPost(s, G).kind = "groups"
  BY DEF ActivityPost, MessagePost, GroupsPost
<1> QED
  BY <1>1

LEMMA RequestTypes ==
  /\ \A m \in Message : ActivityPost(m) \in HttpRequest
  /\ \A m \in Message, n \in 0..Retries : MessagePost(m, n) \in HttpRequest
  /\ \A s \in Sync, G \in SUBSET Group : GroupsPost(s, G) \in HttpRequest
BY DEF HttpRequest

LEMMA SyncTypes ==
  /\ NoSync \in SyncCall
  /\ Len(Pages) \in Nat /\ DOMAIN Pages = 1..Len(Pages)
  /\ \A call \in SyncCall : call.list \in SUBSET Group
  /\ \A n \in 0..Len(Pages), G \in SUBSET Group : [page |-> n + 1, list |-> G] \in SyncCall
<1>1. Len(Pages) \in Nat /\ DOMAIN Pages = 1..Len(Pages)
  BY PagesAssumption, LenProperties
<1> QED
  BY <1>1 DEF SyncCall, NoSync

LEMMA FInvInit == ForwarderInit => FInv
<1> SUFFICES ASSUME ForwarderInit PROVE FInv
  OBVIOUS
<1>1. RowIds = {}
  BY DEF ForwarderInit, StoreInit, RowIds
<1>2. ForwarderTypeOK
  BY SyncTypes, MovesAssumption, RetriesAssumption DEF ForwarderInit, ForwarderTypeOK, Stage
<1>3. TablesOK
  BY <1>1, TypeAssumption DEF ForwarderInit, StoreInit, TablesOK, GroupRow
<1>4. SelectedFirst
  BY <1>1 DEF ForwarderInit, SelectedFirst, StoredAlready
<1>5. TriesInv
  BY <1>1, RetriesAssumption DEF ForwarderInit, TriesInv
<1> QED
  BY <1>2, <1>3, <1>4, <1>5 DEF FInv

-----------------------------------------------------------------------------
(* The steps of the server on the tables. *)

LEMMA TablesKept ==
  ASSUME TablesOK, UNCHANGED storeVars
  PROVE  /\ TablesOK'
         /\ \A m : StoredAlready(m)' <=> StoredAlready(m)
         /\ \A g : Enabled(g)' <=> Enabled(g)
  BY DEF TablesOK, storeVars, RowIds, StoredAlready, Enabled

LEMMA InsertTables ==
  ASSUME TablesOK, NEW m \in Message, InsertMessage(m)
  PROVE  /\ TablesOK'
         /\ StoredAlready(m)'
         /\ \A k : StoredAlready(k)' <=> StoredAlready(k) \/ k = m
         /\ \A g : Enabled(g)' <=> Enabled(g)
<1> DEFINE new == lastMessageId + 1
<1>1. /\ messages' = [r \in RowIds \cup {new} |->
                       IF r = new THEN [message |-> m, batch |-> NULL] ELSE messages[r]]
      /\ lastMessageId' = new /\ groups' = groups
      /\ \A r \in RowIds : messages[r].message # m
  BY DEF InsertMessage, NextMessageId
<1>2. /\ RowIds' = RowIds \cup {new}
      /\ \A r \in RowIds : messages'[r] = messages[r]
      /\ messages'[new] = [message |-> m, batch |-> NULL]
      /\ new \notin RowIds
  BY <1>1 DEF TablesOK, RowIds
<1>3. messages'[new] \in MessageRow /\ messages'[new].message = m
  BY <1>2 DEF MessageRow, NULL
<1>4. RowIds' \subseteq 1..lastMessageId' /\ lastMessageId' \in Nat
  BY <1>1, <1>2 DEF TablesOK
<1>5. messages' \in [RowIds' -> MessageRow]
  BY <1>1, <1>2, <1>3 DEF TablesOK
<1>6. \A r, q \in RowIds' : messages'[r].message = messages'[q].message => r = q
  BY <1>1, <1>2, <1>3 DEF TablesOK
<1> QED
  BY <1>1, <1>2, <1>3, <1>4, <1>5, <1>6 DEF TablesOK, StoredAlready, Enabled

LEMMA CatalogueTables ==
  ASSUME TablesOK, \/ \E g \in Group : RecordGroupActivity(g)
                   \/ \E G \in SUBSET Group : SyncAvailableGroups(G)
  PROVE  /\ TablesOK'
         /\ \A m : StoredAlready(m)' <=> StoredAlready(m)
         /\ \A g \in Group : Enabled(g)' <=> Enabled(g)
<1>1. UNCHANGED <<messages, lastMessageId>>
  BY DEF RecordGroupActivity, SyncAvailableGroups
<1>2. \A row \in GroupRow, v \in BOOLEAN : /\ [row EXCEPT !.available = v] \in GroupRow
                                           /\ [row EXCEPT !.available = v].enabled = row.enabled
  BY DEF GroupRow
<1>3. /\ groups' \in [Group -> GroupRow]
      /\ \A g \in Group : groups'[g].enabled = groups[g].enabled
  <2>1. ASSUME NEW h \in Group, RecordGroupActivity(h)
        PROVE  /\ groups' \in [Group -> GroupRow]
               /\ \A g \in Group : groups'[g].enabled = groups[g].enabled
    BY <2>1 DEF RecordGroupActivity, TablesOK, GroupRow
  <2>2. ASSUME NEW G \in SUBSET Group, SyncAvailableGroups(G)
        PROVE  /\ groups' \in [Group -> GroupRow]
               /\ \A g \in Group : groups'[g].enabled = groups[g].enabled
    <3>1. \A g \in Group : (g \in G) \in BOOLEAN
      OBVIOUS
    <3>2. groups' = [g \in Group |-> [groups[g] EXCEPT !.available = g \in G]]
      BY <2>2 DEF SyncAvailableGroups
    <3>3. \A g \in Group : groups[g] \in GroupRow
      BY DEF TablesOK
    <3>4. \A g \in Group : /\ [groups[g] EXCEPT !.available = g \in G] \in GroupRow
                           /\ [groups[g] EXCEPT !.available = g \in G].enabled = groups[g].enabled
      BY <1>2, <3>1, <3>3, Zenon
    <3> QED
      BY <3>2, <3>4, Zenon
  <2> QED
    BY <2>1, <2>2
<1> QED
  BY <1>1, <1>3 DEF TablesOK, RowIds, StoredAlready, Enabled

LEMMA SubscribeTables ==
  ASSUME TablesOK, NEW typeOf \in Subscriptions, ReplaceGroupSubscriptions(typeOf)
  PROVE  /\ TablesOK'
         /\ \A m : StoredAlready(m)' <=> StoredAlready(m)
         /\ \A g \in Group : Enabled(g)' <=> g \in DOMAIN typeOf
<1>1. \A g \in DOMAIN typeOf : typeOf[g] \in GroupType
  BY SubscriptionsAssumption
<1>2. /\ groups' \in [Group -> GroupRow]
      /\ \A g \in Group : groups'[g].enabled <=> g \in DOMAIN typeOf
  BY <1>1 DEF ReplaceGroupSubscriptions, TablesOK, GroupRow
<1>3. UNCHANGED <<messages, lastMessageId>>
  BY DEF ReplaceGroupSubscriptions
<1> QED
  BY <1>2, <1>3 DEF TablesOK, RowIds, StoredAlready, Enabled

-----------------------------------------------------------------------------
(* The plugin's own steps leave the tables alone. *)
LEMMA PluginStep ==
  ASSUME FInv, UNCHANGED storeVars,
         \/ \E m \in Message : OnMessage(m) \/ ActivityFails(m) \/ Post(m) \/ PostFails(m)
         \/ \E s \in Sync : SyncStart(s) \/ SyncPage(s) \/ SyncFails(s)
         \/ \E g \in Group : Move(g)
         \/ PluginCrash
         \/ UNCHANGED fvars
  PROVE  FInv'
<1> USE RetriesAssumption, MessageAssumption
<1>1. /\ TablesOK'
      /\ \A m : StoredAlready(m)' <=> StoredAlready(m)
      /\ \A g : Enabled(g)' <=> Enabled(g)
  BY TablesKept DEF FInv
<1>2. ASSUME NEW m \in Message, OnMessage(m) PROVE FInv'
  <2>1. ForwarderTypeOK'
    BY <1>2, RequestTypes DEF OnMessage, FInv, ForwarderTypeOK, Stage
  <2>2. SelectedFirst'
    BY <1>1, <1>2, PostsDiffer DEF OnMessage, FInv, ForwarderTypeOK, SelectedFirst
  <2>3. TriesInv'
    BY <1>1, <1>2 DEF OnMessage, FInv, ForwarderTypeOK, TriesInv
  <2> QED
    BY <1>1, <2>1, <2>2, <2>3 DEF FInv
<1>3. ASSUME NEW m \in Message, ActivityFails(m) PROVE FInv'
  <2>1. ForwarderTypeOK'
    BY <1>3 DEF ActivityFails, Drops, FInv, ForwarderTypeOK, Stage
  <2>2. SelectedFirst'
    BY <1>1, <1>3 DEF ActivityFails, Drops, FInv, ForwarderTypeOK, SelectedFirst
  <2>3. TriesInv'
    BY <1>1, <1>3 DEF ActivityFails, Drops, FInv, ForwarderTypeOK, TriesInv
  <2> QED
    BY <1>1, <2>1, <2>2, <2>3 DEF FInv
<1>4. ASSUME NEW m \in Message, Post(m) PROVE FInv'
  <2>1. tries[m] \in 0..Retries
    BY <1>4 DEF Post, FInv, ForwarderTypeOK, TriesInv
  <2>2. ForwarderTypeOK'
    BY <1>4, <2>1, RequestTypes DEF Post, FInv, ForwarderTypeOK, Stage
  <2>3. SelectedFirst'
    BY <1>1, <1>4, PostsDiffer DEF Post, FInv, ForwarderTypeOK, SelectedFirst
  <2>4. TriesInv'
    BY <1>1, <1>4 DEF Post, FInv, ForwarderTypeOK, TriesInv
  <2> QED
    BY <1>1, <2>2, <2>3, <2>4 DEF FInv
<1>5. ASSUME NEW m \in Message, PostFails(m) PROVE FInv'
  <2>1. tries[m] \in 0..Retries
    BY <1>5 DEF PostFails, FInv, ForwarderTypeOK, TriesInv
  <2>2. ForwarderTypeOK'
    BY <1>5, <2>1 DEF PostFails, TryFails, NextTry, FInv, ForwarderTypeOK, Stage
  <2>3. SelectedFirst'
    BY <1>1, <1>5 DEF PostFails, TryFails, NextTry, FInv, ForwarderTypeOK, SelectedFirst
  <2>4. TriesInv'
    BY <1>1, <1>5, <2>1 DEF PostFails, TryFails, NextTry, FInv, ForwarderTypeOK, TriesInv
  <2> QED
    BY <1>1, <2>2, <2>3, <2>4 DEF FInv
<1>6. ASSUME UNCHANGED <<handler, tries, selected>>, ForwarderTypeOK',
             \A m \in Message : ActivityPost(m) \in inflight' => ActivityPost(m) \in inflight,
             \A m \in Message, n \in 0..Retries :
               MessagePost(m, n) \in inflight' => MessagePost(m, n) \in inflight
      PROVE  FInv'
  <2>1. SelectedFirst'
    BY <1>1, <1>6 DEF FInv, SelectedFirst
  <2>2. TriesInv'
    BY <1>1, <1>6 DEF FInv, TriesInv
  <2> QED
    BY <1>1, <1>6, <2>1, <2>2 DEF FInv
<1>7. ASSUME NEW s \in Sync, SyncStart(s) PROVE FInv'
  <2>1. [sync[s] EXCEPT !.page = 1] \in SyncCall
    BY <1>7, SyncTypes DEF SyncStart, NoSync
  <2>2. ForwarderTypeOK'
    BY <1>7, <2>1 DEF SyncStart, FInv, ForwarderTypeOK
  <2> QED
    BY <1>6, <1>7, <2>2 DEF SyncStart
<1>8. ASSUME NEW s \in Sync, SyncPage(s) PROVE FInv'
  <2> DEFINE list == sync[s].list \cup (Pages[sync[s].page] \cap member)
  <2>1. /\ sync[s].page \in 1..Len(Pages)
        /\ sync' = [sync EXCEPT ![s] = [page |-> @.page + 1, list |-> list]]
        /\ inflight' \in {inflight, inflight \cup {GroupsPost(s, list)}}
        /\ UNCHANGED <<storeVars, member, moves, handler, tries, selected>>
    BY <1>8, SyncTypes DEF SyncPage
  <2>2. list \in SUBSET Group
    BY <2>1, SyncTypes DEF FInv, ForwarderTypeOK
  <2>3. [page |-> sync[s].page + 1, list |-> list] \in SyncCall
    BY <2>1, <2>2, SyncTypes
  <2> HIDE DEF list
  <2>4. ForwarderTypeOK'
    BY <2>1, <2>2, <2>3, RequestTypes DEF FInv, ForwarderTypeOK
  <2> QED
    BY <1>6, <2>1, <2>4, PostsDiffer
<1>9. ASSUME NEW s \in Sync, SyncFails(s) PROVE FInv'
  <2>1. ForwarderTypeOK'
    BY <1>9, SyncTypes DEF SyncFails, FInv, ForwarderTypeOK
  <2> QED
    BY <1>6, <1>9, <2>1 DEF SyncFails
<1>10. ASSUME NEW g \in Group, Move(g) PROVE FInv'
  <2>1. ForwarderTypeOK'
    BY <1>10, MovesAssumption DEF Move, FInv, ForwarderTypeOK
  <2> QED
    BY <1>6, <1>10, <2>1 DEF Move
<1>11. CASE PluginCrash
  <2>1. ForwarderTypeOK'
    BY <1>11, SyncTypes DEF PluginCrash, FInv, ForwarderTypeOK, Stage
  <2>2. SelectedFirst'
    BY <1>1, <1>11 DEF PluginCrash, InHand, FInv, ForwarderTypeOK, SelectedFirst
  <2>3. TriesInv'
    BY <1>1, <1>11 DEF PluginCrash, InHand, FInv, ForwarderTypeOK, TriesInv
  <2> QED
    BY <1>1, <2>1, <2>2, <2>3 DEF FInv
<1>12. CASE UNCHANGED fvars
  <2>1. ForwarderTypeOK'
    BY <1>12 DEF fvars, forwarderVars, FInv, ForwarderTypeOK
  <2> QED
    BY <1>6, <1>12, <2>1 DEF fvars, forwarderVars
<1> QED
  BY <1>2, <1>3, <1>4, <1>5, <1>7, <1>8, <1>9, <1>10, <1>11, <1>12

(* The server carries requests out, late ones too. *)
LEMMA ServerStep ==
  ASSUME FInv, \/ \E m \in Message : ServeActivity(m) \/ \E n \in 0..Retries : ServeMessage(m, n)
               \/ \E s \in Sync, G \in SUBSET Group : ServeGroups(s, G)
               \/ \E typeOf \in Subscriptions : Select(typeOf)
  PROVE  FInv'
<1> USE RetriesAssumption, MessageAssumption
<1>1. ASSUME NEW m \in Message, ServeActivity(m) PROVE FInv'
  <2>1. /\ TablesOK'
        /\ \A k : StoredAlready(k)' <=> StoredAlready(k)
        /\ \A g \in Group : Enabled(g)' <=> Enabled(g)
    BY <1>1, CatalogueTables DEF ServeActivity, FInv
  <2>2. ForwarderTypeOK'
    BY <1>1 DEF ServeActivity, FInv, ForwarderTypeOK, Stage
  <2>3. SelectedFirst'
    BY <1>1, <2>1 DEF ServeActivity, FInv, ForwarderTypeOK, SelectedFirst
  <2>4. TriesInv'
    BY <1>1, <2>1 DEF ServeActivity, FInv, ForwarderTypeOK, TriesInv
  <2> QED
    BY <2>1, <2>2, <2>3, <2>4 DEF FInv
<1>2. ASSUME NEW m \in Message, NEW n \in 0..Retries, ServeMessage(m, n) PROVE FInv'
  <2>1. /\ TablesOK'
        /\ \A g \in Group : Enabled(g)' <=> Enabled(g)
        /\ \A k : StoredAlready(k) => StoredAlready(k)'
        /\ \A k : StoredAlready(k)' => StoredAlready(k) \/ k = m
        /\ Enabled(GroupOf[m]) => StoredAlready(m)'
    <3>1. CASE InsertMessage(m)
      BY <3>1, InsertTables DEF FInv
    <3>2. CASE (~Enabled(GroupOf[m]) \/ StoredAlready(m)) /\ UNCHANGED storeVars
      BY <3>2, TablesKept DEF FInv
    <3> QED
      BY <1>2, <3>1, <3>2 DEF ServeMessage, Ingested
  <2>2. m \in selected
    BY <1>2 DEF ServeMessage, FInv, SelectedFirst
  <2>3. handler[m] = "posted" => tries[m] \in 0..Retries
    BY <1>2 DEF FInv, ForwarderTypeOK, TriesInv
  <2>4. /\ inflight' = inflight \ {MessagePost(m, n)}
        /\ UNCHANGED <<member, moves, sync, selected>>
        /\ \/ UNCHANGED <<handler, tries>>
           \/ /\ handler[m] = "posted" /\ Enabled(GroupOf[m]) /\ UNCHANGED tries
              /\ handler' = [handler EXCEPT ![m] = "stored"]
           \/ handler[m] = "posted" /\ TryFails(m)
    BY <1>2 DEF ServeMessage, Accepted
  <2>5. ForwarderTypeOK'
    BY <2>3, <2>4 DEF TryFails, NextTry, FInv, ForwarderTypeOK, Stage
  <2>6. SelectedFirst'
    BY <2>1, <2>2, <2>4 DEF TryFails, NextTry, FInv, ForwarderTypeOK, SelectedFirst
  <2>7. TriesInv'
    BY <2>1, <2>3, <2>4 DEF TryFails, NextTry, FInv, ForwarderTypeOK, TriesInv
  <2> QED
    BY <2>1, <2>5, <2>6, <2>7 DEF FInv
<1>3. ASSUME NEW s \in Sync, NEW G \in SUBSET Group, ServeGroups(s, G) PROVE FInv'
  <2>1. /\ TablesOK'
        /\ \A k : StoredAlready(k)' <=> StoredAlready(k)
        /\ \A g \in Group : Enabled(g)' <=> Enabled(g)
    BY <1>3, CatalogueTables DEF ServeGroups, FInv
  <2>2. ForwarderTypeOK'
    BY <1>3, SyncTypes DEF ServeGroups, FInv, ForwarderTypeOK
  <2>3. SelectedFirst'
    BY <1>3, <2>1 DEF ServeGroups, FInv, ForwarderTypeOK, SelectedFirst
  <2>4. TriesInv'
    BY <1>3, <2>1 DEF ServeGroups, FInv, ForwarderTypeOK, TriesInv
  <2> QED
    BY <2>1, <2>2, <2>3, <2>4 DEF FInv
<1>4. ASSUME NEW typeOf \in Subscriptions, Select(typeOf) PROVE FInv'
  <2>1. /\ TablesOK'
        /\ \A m : StoredAlready(m)' <=> StoredAlready(m)
        /\ \A g \in Group : Enabled(g)' <=> g \in DOMAIN typeOf
    BY <1>4, SubscribeTables DEF Select, FInv
  <2>2. ForwarderTypeOK'
    BY <1>4 DEF Select, FInv, ForwarderTypeOK
  <2>3. SelectedFirst'
    BY <1>4, <2>1 DEF Select, FInv, ForwarderTypeOK, SelectedFirst
  <2>4. TriesInv'
    BY <1>4, <2>1 DEF Select, FInv, ForwarderTypeOK, TriesInv
  <2> QED
    BY <2>1, <2>2, <2>3, <2>4 DEF FInv
<1> QED
  BY <1>1, <1>2, <1>3, <1>4

LEMMA FInvHolds == ForwarderSpec => []FInv
<1>1. FInv /\ [ForwarderNext]_fvars => FInv'
  <2> SUFFICES ASSUME FInv, [ForwarderNext]_fvars PROVE FInv'
    OBVIOUS
  <2>1. ASSUME \/ \E m \in Message : OnMessage(m) \/ ActivityFails(m) \/ Post(m) \/ PostFails(m)
               \/ \E s \in Sync : SyncStart(s) \/ SyncPage(s) \/ SyncFails(s)
               \/ \E g \in Group : Move(g)
               \/ PluginCrash
               \/ UNCHANGED fvars
        PROVE  UNCHANGED storeVars
    BY <2>1 DEF OnMessage, ActivityFails, Post, PostFails, SyncStart, SyncPage, SyncFails,
                Move, PluginCrash, fvars
  <2> QED
    BY <2>1, PluginStep, ServerStep DEF ForwarderNext, HandlerStep, SyncStep
<1> QED
  BY FInvInit, <1>1, PTL DEF ForwarderSpec

(* Types of the plugin's handlers, of its lists and of its requests. *)
THEOREM ForwarderTypes == ForwarderSpec => []ForwarderTypeOK
<1>1. FInv => ForwarderTypeOK
  BY DEF FInv
<1> QED
  BY <1>1, FInvHolds, PTL

(* The privacy rule of the plugin: content is posted, and stored, only of  *)
(* groups the user had selected since the message came, however late the   *)
(* answer to the activity post and however often the selection changes.    *)
THEOREM OnlySelectedContent == ForwarderSpec => []ContentOnlyIfSelected
<1>1. FInv => ContentOnlyIfSelected
  BY DEF FInv, SelectedFirst, ContentOnlyIfSelected
<1> QED
  BY <1>1, FInvHolds, PTL

(* A handler that ends "stored" left exactly one row, one that ends        *)
(* "failed" used all its tries, whichever requests and answers were lost.  *)
THEOREM HandlerTellsTruth == ForwarderSpec => []OutcomeIsTrue
<1>1. FInv => OutcomeIsTrue
  BY DEF FInv, TablesOK, TriesInv, OutcomeIsTrue
<1> QED
  BY <1>1, FInvHolds, PTL

-----------------------------------------------------------------------------
(* The refinement: with no workers, Summarizer is its environment alone,   *)
(* and what the server carries out for the plugin are steps of that.       *)

LEMMA EmptyFunction ==
  ASSUME NEW c
  PROVE  <<>> = [w \in {} |-> c]
OBVIOUS

LEMMA TablesInit == ForwarderInit => Tables!Init
<1>1. StoreInit => Tables!StoreInit
  BY DEF StoreInit, Tables!StoreInit
<1>2. Tables!SummarizerInit
  BY EmptyFunction DEF Tables!SummarizerInit
<1> QED
  BY <1>1, <1>2 DEF ForwarderInit, Tables!Init

LEMMA TablesStep == [ForwarderNext]_fvars => [Tables!Next]_(Tables!vars)
<1> SUFFICES ASSUME [ForwarderNext]_fvars
             PROVE  Tables!Environment \/ UNCHANGED storeVars
  BY DEF Tables!Next, Tables!vars, Tables!storeVars, Tables!workerVars, storeVars
<1> USE DEF Tables!workerVars
<1>1. ASSUME NEW m \in Message, ServeActivity(m) PROVE Tables!Environment
  <2>1. GroupOf[m] \in Group
    BY MessageAssumption
  <2>2. Tables!Activity(GroupOf[m])
    BY <1>1 DEF ServeActivity, RecordGroupActivity, Tables!Activity, Tables!RecordGroupActivity
  <2> QED
    BY <2>1, <2>2 DEF Tables!Environment
<1>2. ASSUME NEW m \in Message, NEW n \in 0..Retries, ServeMessage(m, n)
      PROVE  Tables!Environment \/ UNCHANGED storeVars
  <2>1. InsertMessage(m) => Tables!Ingest(m)
    BY DEF InsertMessage, NextMessageId, RowIds, NULL,
           Tables!Ingest, Tables!InsertMessage, Tables!NextMessageId, Tables!RowIds, Tables!NULL
  <2> QED
    BY <1>2, <2>1 DEF ServeMessage, Ingested, Tables!Environment
<1>3. ASSUME NEW s \in Sync, NEW G \in SUBSET Group, ServeGroups(s, G) PROVE Tables!Environment
  <2>1. Tables!SyncGroups(G)
    BY <1>3 DEF ServeGroups, SyncAvailableGroups, Tables!SyncGroups, Tables!SyncAvailableGroups
  <2> QED
    BY <2>1 DEF Tables!Environment
<1>4. ASSUME NEW typeOf \in Subscriptions, Select(typeOf) PROVE Tables!Environment
  <2>1. Tables!Subscribe(typeOf)
    BY <1>4 DEF Select, ReplaceGroupSubscriptions,
                Tables!Subscribe, Tables!ReplaceGroupSubscriptions
  <2> QED
    BY <2>1 DEF Tables!Environment
<1>5. ASSUME \/ \E m \in Message : OnMessage(m) \/ ActivityFails(m) \/ Post(m) \/ PostFails(m)
             \/ \E s \in Sync : SyncStart(s) \/ SyncPage(s) \/ SyncFails(s)
             \/ \E g \in Group : Move(g)
             \/ PluginCrash
             \/ UNCHANGED fvars
      PROVE  UNCHANGED storeVars
  BY <1>5 DEF OnMessage, ActivityFails, Post, PostFails, SyncStart, SyncPage, SyncFails,
              Move, PluginCrash, fvars
<1> QED
  BY <1>1, <1>2, <1>3, <1>4, <1>5 DEF ForwarderNext, HandlerStep, SyncStep

(* Seen from the tables the plugin, with all that its requests may suffer, *)
(* is an environment Summarizer allows: what is shown of Summarizer does   *)
(* not depend on how requests are lost, repeated or delayed.               *)
THEOREM PluginIsEnvironment == ForwarderSpec => ImplementsEnvironment
BY TablesInit, TablesStep, PTL DEF ForwarderSpec, ImplementsEnvironment, Tables!Spec
=============================================================================
