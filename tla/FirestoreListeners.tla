-------------------------- MODULE FirestoreListeners --------------------------
(***************************************************************************)
(* The Firestore client of Flash Chat: the listeners of a query, from      *)
(* addSnapshotListener to the app's closure.                               *)
(*                                                                         *)
(* The first listener of a query makes the sync engine follow it, the last *)
(* one makes it stop; those in between get what the view said last.  Each  *)
(* listener holds its first event back until there is something to say,    *)
(* and then gets the changes of the view, without those of the metadata    *)
(* unless it asked for them.  Listeners are added and removed by tasks of  *)
(* the worker queue and told by tasks of the main queue, so that the app,  *)
(* the listener and the view are each of another moment.                   *)
(*                                                                         *)
(* What the view shows and why is FirestoreViews'; what makes it change is *)
(* not told apart here.                                                    *)
(***************************************************************************)
EXTENDS FirestoreViews, Sequences

CONSTANTS
    Listener,       \* registrations, each added once at most
    WithMetadata,   \* those that include metadata changes
    WaitForSync,    \* those that wait for the server while online (getDocuments)
    Value,          \* contents of a document
    MaxChanges      \* changes of the view and of the online state: a bound

ASSUME ListenerAssumption == WithMetadata \subseteq Listener /\ WaitForSync \subseteq Listener
ASSUME ValueAssumption == Value \subseteq Nat \ {0} /\ MaxChanges \in Nat

VARIABLES
    engine,         \* SyncEngine: the view of the query, if it is followed
    manager,        \* EventManager and its QueryListeners
    worker,         \* the worker queue: listeners to be added and removed
    stage,          \* per listener: "new", "added" or "removed" by the app
    heard,          \* per listener: what the app was told
    changes

vars == <<engine, manager, worker, stage, heard, changes>>

Online == {"unknown", "online", "offline"}
NoDocuments == [d \in Doc |-> NotShown]
Empty(docs) == \A d \in Doc : docs[d].val = 0

-----------------------------------------------------------------------------
(* ViewSnapshot.                                                           *)

Type(old, new) ==
    IF old.val = 0 THEN "Added"
    ELSE IF new.val = 0 THEN "Removed"
    ELSE IF old.val # new.val THEN "Modified"
    ELSE "Metadata"

DocumentChanges(old, new) ==
    {[key |-> d, type |-> Type(old[d], new[d]), doc |-> new[d]] :
        d \in {x \in Doc : old[x] # new[x]}}

Snapshot(old, new, first) ==
    [documents |-> new.docs, document_changes |-> DocumentChanges(old.docs, new.docs),
     from_cache |-> ~new.sync, sync_state_changed |-> first \/ old.sync # new.sync]

NoSnapshot == [documents |-> NoDocuments, document_changes |-> {},
               from_cache |-> TRUE, sync_state_changed |-> FALSE]

HasPendingWrites(snapshot) == \E d \in Doc : snapshot.documents[d].local

(***************************************************************************)
(* A plausible fault: the first event has the changes of the snapshot that *)
(* let it be raised, not those from nothing.                               *)
(***************************************************************************)
Fault_LastChanges(snapshot) == [snapshot EXCEPT !.sync_state_changed = TRUE]

(***************************************************************************)
(* The first event adds every document.                                    *)
(***************************************************************************)
FromInitialDocuments(snapshot) ==
    [snapshot EXCEPT !.document_changes = DocumentChanges(NoDocuments, snapshot.documents),
                     !.sync_state_changed = TRUE]

-----------------------------------------------------------------------------
(* QueryListener.  had tells whether it has a snapshot yet.                *)

NewListener == [raised |-> FALSE, online |-> "unknown", had |-> FALSE, snapshot |-> NoSnapshot]

(***************************************************************************)
(* A plausible fault: what is in the cache waits for the server, too.      *)
(***************************************************************************)
Fault_WaitsForServer(l, snapshot, online) ==
    ~snapshot.from_cache \/ online = "offline"

(***************************************************************************)
(* The first event waits for the server only while the client may be       *)
(* online: what is in the cache is shown at once, that nothing is there    *)
(* only offline.                                                           *)
(***************************************************************************)
ShouldRaiseInitialEvent(l, snapshot, online) ==
    \/ ~snapshot.from_cache
    \/ /\ l \notin WaitForSync \/ online = "offline"
       /\ ~Empty(snapshot.documents) \/ online = "offline"

(***************************************************************************)
(* Later events need a changed document; or, for those who include         *)
(* metadata, that the whole is from the cache or has pending writes as it  *)
(* was not before.                                                         *)
(***************************************************************************)
ShouldRaiseEvent(l, last, snapshot) ==
    \/ snapshot.document_changes # {}
    \/ /\ \/ snapshot.sync_state_changed
          \/ last.had /\ HasPendingWrites(last.snapshot) # HasPendingWrites(snapshot)
       /\ l \in WithMetadata

(***************************************************************************)
(* Without the changes of metadata, for those who do not include them.     *)
(***************************************************************************)
Stripped(l, snapshot) ==
    IF l \in WithMetadata THEN snapshot
    ELSE [snapshot EXCEPT !.document_changes = {c \in @ : c.type # "Metadata"}]

(***************************************************************************)
(* What the user executor has to do for each listener, once those in       *)
(* raising have put an event on it.                                        *)
(***************************************************************************)
Told(snapshot) == [error |-> FALSE, event |-> snapshot]
Failed == [error |-> TRUE, event |-> NoSnapshot]

Events(events, raising, event) ==
    [l \in Listener |-> IF l \in raising THEN Append(events[l], event[l]) ELSE events[l]]

(* HARD_ASSERT: the process ends if the condition is false.                *)
HardAssert(m, condition) == [m EXCEPT !.asserts = @ /\ condition]

(***************************************************************************)
(* OnViewSnapshot and OnOnlineStateChanged of each listener in ls.         *)
(***************************************************************************)
OnViewSnapshot(m, ls, snapshot) ==
    LET own == [l \in Listener |-> Stripped(l, snapshot)]
        raising == {l \in ls :
                       IF m.listener[l].raised
                       THEN ShouldRaiseEvent(l, m.listener[l], own[l])
                       ELSE ShouldRaiseInitialEvent(l, own[l], m.listener[l].online)}
        event == [l \in Listener |-> Told(IF m.listener[l].raised THEN own[l]
                                          ELSE FromInitialDocuments(own[l]))]
    IN  HardAssert(
            [m EXCEPT !.events = Events(@, raising, event),
                      !.listener = [l \in Listener |->
                          IF l \in ls
                          THEN [raised |-> m.listener[l].raised \/ l \in raising,
                                online |-> m.listener[l].online,
                                had |-> TRUE, snapshot |-> own[l]]
                          ELSE m.listener[l]]],
            snapshot.document_changes # {} \/ snapshot.sync_state_changed)

OnOnlineStateChanged(m, ls, online) ==
    LET raising == {l \in ls :
                       /\ m.listener[l].had
                       /\ ~m.listener[l].raised
                       /\ ShouldRaiseInitialEvent(l, m.listener[l].snapshot, online)}
        event == [l \in Listener |-> Told(FromInitialDocuments(m.listener[l].snapshot))]
    IN  [m EXCEPT !.events = Events(@, raising, event),
                  !.listener = [l \in Listener |->
                      IF l \in ls
                      THEN [m.listener[l] EXCEPT
                               !.online = online,
                               !.raised = m.listener[l].raised \/ l \in raising]
                      ELSE m.listener[l]]]

-----------------------------------------------------------------------------
(* EventManager.  queries_ has the query when following is true; events    *)
(* has, for each listener, those AsyncEventListener has put on the user    *)
(* executor.  The executor is one queue; whose event is run before whose   *)
(* is left open here, for no listener hears of another's.                  *)

NewManager ==
    [following |-> FALSE, listeners |-> {}, had |-> FALSE, snapshot |-> NoSnapshot,
     online |-> "unknown", listener |-> [l \in Listener |-> NewListener],
     events |-> [l \in Listener |-> <<>>], asserts |-> TRUE]

Forgotten(m) == [m EXCEPT !.following = FALSE, !.listeners = {},
                          !.had = FALSE, !.snapshot = NoSnapshot]

OnViewSnapshots(m, snapshot) ==
    IF m.following
    THEN [OnViewSnapshot(m, m.listeners, snapshot) EXCEPT !.had = TRUE, !.snapshot = snapshot]
    ELSE m

HandleOnlineStateChange(m, online) ==
    OnOnlineStateChanged([m EXCEPT !.online = online], m.listeners, online)

(***************************************************************************)
(* The listeners are told, and the query is forgotten without a call of    *)
(* StopListening.                                                          *)
(***************************************************************************)
OnError(m) ==
    IF m.following
    THEN [Forgotten(m) EXCEPT !.events = Events(@, m.listeners, [l \in Listener |-> Failed])]
    ELSE m

-----------------------------------------------------------------------------
(* SyncEngine: the first snapshot of a view is the query's in the cache.   *)

Listen(cached) ==
    LET new == NewView({})
    IN  ApplyChanges(new, ComputeDocumentChanges(new, cached), NoTargetChange)

(***************************************************************************)
(* What the local store can say of a document.                             *)
(***************************************************************************)
Absent == [val |-> 0, local |-> FALSE, committed |-> FALSE]
Present == [val : Value, local : BOOLEAN, committed : {FALSE}]
Cached == [Doc -> {Absent} \union Present]

(***************************************************************************)
(* AddQueryListener, up to the snapshot the query may have.                *)
(***************************************************************************)
Added(m, l) ==
    LET with == OnOnlineStateChanged([m EXCEPT !.following = TRUE, !.listeners = @ \union {l}],
                                     {l}, m.online)
    IN  HardAssert(with, with.events = m.events)

(***************************************************************************)
(* The task of ListenToQuery: EventManager::AddQueryListener, and          *)
(* SyncEngine::Listen for the first listener of the query.                 *)
(***************************************************************************)
AddQueryListener ==
    /\ worker # <<>>
    /\ Head(worker).task = "add"
    /\ LET l == Head(worker).listener
           with == Added(manager, l)
           told == IF with.had THEN OnViewSnapshot(with, {l}, with.snapshot) ELSE with
       IN  IF manager.following
           THEN manager' = told /\ UNCHANGED engine
           ELSE \E cached \in Cached :
                    LET view == Listen(cached)
                        first == HardAssert(told, ~engine.followed)
                    IN  /\ engine' = [followed |-> TRUE, view |-> view]
                        /\ manager' = OnViewSnapshots(first, Snapshot(NewView({}), view, TRUE))
    /\ worker' = Tail(worker)
    /\ UNCHANGED <<stage, heard, changes>>

(***************************************************************************)
(* QueryListenersInfo::Erase, and the query goes with its last listener.   *)
(***************************************************************************)
Erased(m, l) ==
    LET left == m.listeners \ {l}
    IN  IF left = {} THEN Forgotten(m) ELSE [m EXCEPT !.listeners = left]

(***************************************************************************)
(* The task of RemoveListener: EventManager::RemoveQueryListener, and      *)
(* SyncEngine::StopListening for the last one.  The query may have failed  *)
(* since, and may be listened to anew.                                     *)
(***************************************************************************)
RemoveQueryListener ==
    /\ worker # <<>>
    /\ Head(worker).task = "remove"
    /\ LET without == Erased(manager, Head(worker).listener)
       IN  IF manager.following /\ ~without.following
           THEN /\ manager' = HardAssert(without, engine.followed)
                /\ engine' = [engine EXCEPT !.followed = FALSE]
           ELSE manager' = without /\ UNCHANGED engine
    /\ worker' = Tail(worker)
    /\ UNCHANGED <<stage, heard, changes>>

(***************************************************************************)
(* The view changes: by documents of the local store, and by what the      *)
(* server says of the target, which makes it current only after the server *)
(* was heard.                                                              *)
(***************************************************************************)
TargetChange(matched, current) ==
    [added |-> matched, modified |-> {}, removed |-> Doc \ matched,
     none |-> FALSE, current |-> current]

TargetChanges ==
    {NoTargetChange} \union
    {TargetChange(matched, current) :
        matched \in {{}, Doc}, current \in {FALSE, manager.online = "online"}}

News == UNION {[docs -> {Absent} \union Present] : docs \in SUBSET Doc}

ViewChanges(news, change) ==
    /\ engine.followed
    /\ changes < MaxChanges
    /\ LET view == ApplyChanges(engine.view, ComputeDocumentChanges(engine.view, news), change)
       IN  /\ SnapshotRaised(engine.view, view)
           /\ engine' = [engine EXCEPT !.view = view]
           /\ manager' = OnViewSnapshots(manager, Snapshot(engine.view, view, FALSE))
    /\ changes' = changes + 1
    /\ UNCHANGED <<worker, stage, heard>>

(***************************************************************************)
(* SyncEngine::HandleOnlineStateChange: first the view, which is not       *)
(* current while offline, then those who wait for their first event.       *)
(***************************************************************************)
OnlineStateChanges(online) ==
    /\ changes < MaxChanges
    /\ online # manager.online
    /\ LET view == IF online = "offline" THEN ApplyOnlineStateChange(engine.view) ELSE engine.view
           raised == engine.followed /\ SnapshotRaised(engine.view, view)
           told == IF raised THEN OnViewSnapshots(manager, Snapshot(engine.view, view, FALSE))
                   ELSE manager
       IN  /\ engine' = IF engine.followed THEN [engine EXCEPT !.view = view] ELSE engine
           /\ manager' = HandleOnlineStateChange(told, online)
    /\ changes' = changes + 1
    /\ UNCHANGED <<worker, stage, heard>>

(***************************************************************************)
(* SyncEngine::HandleRejectedListen, of the query's own target.            *)
(***************************************************************************)
HandleRejectedListen ==
    /\ engine.followed
    /\ changes < MaxChanges
    /\ engine' = [engine EXCEPT !.followed = FALSE]
    /\ manager' = OnError(manager)
    /\ changes' = changes + 1
    /\ UNCHANGED <<worker, stage, heard>>

-----------------------------------------------------------------------------
(* The app.                                                                *)

NothingHeard == [told |-> FALSE, failed |-> FALSE, documents |-> NoDocuments,
                 replayed |-> NoDocuments, from_cache |-> TRUE, sound |-> TRUE]

Init ==
    /\ engine = [followed |-> FALSE, view |-> NewView({})]
    /\ manager = NewManager
    /\ worker = <<>>
    /\ stage = [l \in Listener |-> "new"]
    /\ heard = [l \in Listener |-> NothingHeard]
    /\ changes = 0

(***************************************************************************)
(* addSnapshotListener returns before the listener is added.               *)
(***************************************************************************)
AddSnapshotListener(l) ==
    /\ stage[l] = "new"
    /\ stage' = [stage EXCEPT ![l] = "added"]
    /\ worker' = Append(worker, [task |-> "add", listener |-> l])
    /\ UNCHANGED <<engine, manager, heard, changes>>

(***************************************************************************)
(* The registration holds its QueryListener weakly: when an error has      *)
(* taken that away there is nothing to be removed.                         *)
(***************************************************************************)
Alive(l) ==
    \/ l \in manager.listeners
    \/ \E i \in DOMAIN worker : worker[i].listener = l

RemoveListener(l) ==
    /\ stage[l] = "added"
    /\ stage' = [stage EXCEPT ![l] = "removed"]
    /\ worker' = IF Alive(l) THEN Append(worker, [task |-> "remove", listener |-> l]) ELSE worker
    /\ UNCHANGED <<engine, manager, heard, changes>>

(***************************************************************************)
(* QuerySnapshot::ForEachChange: what comes of the documents the app has,  *)
(* and whether the changes fit them.                                       *)
(***************************************************************************)
Replayed(docs, document_changes) ==
    [d \in Doc |-> IF \E c \in document_changes : c.key = d
                   THEN (CHOOSE c \in document_changes : c.key = d).doc
                   ELSE docs[d]]

Fits(docs, document_changes) ==
    \A c \in document_changes : (c.type = "Added") <=> (docs[c.key].val = 0)

(***************************************************************************)
(* AsyncEventListener: an event comes to the app unless it has removed the *)
(* listener, from whose Remove on it is muted.  sound only records that    *)
(* changes fit what the app has, and that no event comes after an error.   *)
(***************************************************************************)
RunUser(l) ==
    /\ manager.events[l] # <<>>
    /\ LET e == Head(manager.events[l])
           was == heard[l]
           now == IF e.error
                  THEN [was EXCEPT !.failed = TRUE, !.sound = @ /\ ~was.failed]
                  ELSE [told |-> TRUE, failed |-> was.failed,
                        documents |-> e.event.documents,
                        replayed |-> Replayed(was.replayed, e.event.document_changes),
                        from_cache |-> e.event.from_cache,
                        sound |-> /\ was.sound /\ ~was.failed
                                  /\ Fits(was.replayed, e.event.document_changes)]
       IN  heard' = IF stage[l] = "removed" THEN heard ELSE [heard EXCEPT ![l] = now]
    /\ manager' = [manager EXCEPT !.events[l] = Tail(@)]
    /\ UNCHANGED <<engine, worker, stage, changes>>

Next ==
    \/ AddQueryListener
    \/ RemoveQueryListener
    \/ \E news \in News, change \in TargetChanges : ViewChanges(news, change)
    \/ \E online \in Online : OnlineStateChanges(online)
    \/ HandleRejectedListen
    \/ \E l \in Listener : AddSnapshotListener(l) \/ RemoveListener(l) \/ RunUser(l)

Spec == Init /\ [][Next]_vars

(***************************************************************************)
(* The worker queue and the main queue run what is on them.                *)
(***************************************************************************)
Fairness ==
    /\ WF_vars(AddQueryListener)
    /\ WF_vars(RemoveQueryListener)
    /\ \A l \in Listener : WF_vars(RunUser(l))

FairSpec == Spec /\ Fairness

-----------------------------------------------------------------------------
(***************************************************************************)
(* Every variable keeps its type, and a query has listeners as long as it  *)
(* is in queries_.                                                         *)
(***************************************************************************)
TypeOK ==
    /\ engine.followed \in BOOLEAN
    /\ manager.following \in BOOLEAN
    /\ manager.online \in Online
    /\ manager.following <=> manager.listeners # {}
    /\ manager.listeners \subseteq Listener
    /\ stage \in [Listener -> {"new", "added", "removed"}]
    /\ changes \in 0..MaxChanges

(***************************************************************************)
(* No assertion fails between EventManager, QueryListener and SyncEngine   *)
(* (sync_engine.cc:108, 165, event_manager.cc:48, query_listener.cc:72):   *)
(* the engine follows the query exactly while EventManager has it, with    *)
(* listeners removed after the query failed, and others added since.       *)
(***************************************************************************)
AssertsHold == manager.asserts /\ (engine.followed <=> manager.following)

(***************************************************************************)
(* An app that applies the changes of each event to what it has gets the   *)
(* documents of the event, whatever was held back of it before its first   *)
(* event or stripped since; each change fits what the app has, which is    *)
(* what the assertions of ForEachChange (query_snapshot.cc:124, 155) ask.  *)
(* After an error there is no event at all, although the query may be      *)
(* listened to anew and events were under way.                             *)
(***************************************************************************)
Same(l, docs, others) ==
    \A d \in Doc : IF l \in WithMetadata THEN docs[d] = others[d]
                   ELSE docs[d].val = others[d].val

ReplayIsDocuments ==
    \A l \in Listener :
        heard[l].sound /\ Same(l, heard[l].replayed, heard[l].documents)

(***************************************************************************)
(* Once its queues are empty a listener that was told anything was told    *)
(* what the view shows; one with metadata, also that it is from the cache  *)
(* or not.                                                                 *)
(***************************************************************************)
AtRest(l) ==
    /\ worker = <<>>
    /\ manager.events[l] = <<>>
    /\ l \in manager.listeners

ToldIsShown ==
    \A l \in Listener :
        AtRest(l) /\ heard[l].told =>
            /\ Same(l, heard[l].documents, engine.view.docs)
            /\ l \in WithMetadata => heard[l].from_cache = ~engine.view.sync

(***************************************************************************)
(* The one good reason to hear nothing.                                    *)
(***************************************************************************)
WaitsForServer(l) ==
    /\ l \in manager.listeners
    /\ manager.online # "offline"
    /\ ~engine.view.sync
    /\ l \in WaitForSync \/ Empty(engine.view.docs)

(***************************************************************************)
(* A listener is left without a first event only while the client may be   *)
(* online and the view is from the cache, and empty unless the listener    *)
(* waits for the server (query_listener.cc:127-152): so whichever came     *)
(* first, the listener, the documents or the online state.                 *)
(***************************************************************************)
NobodyForgotten ==
    \A l \in Listener :
        AtRest(l) /\ ~heard[l].told => WaitsForServer(l)

(***************************************************************************)
(* EventManager, SyncEngine and what the apps have heard agree.            *)
(***************************************************************************)
Inv == TypeOK /\ AssertsHold /\ ReplayIsDocuments /\ ToldIsShown /\ NobodyForgotten

(***************************************************************************)
(* A listener the app has added comes to be told something for good, or to *)
(* wait with reason, if the app does not remove it: nothing is lost on the *)
(* two queues between the app, the view and the online state.              *)
(***************************************************************************)
EachIsHeard ==
    \A l \in Listener :
        stage[l] = "added" ~>
            [](heard[l].told \/ heard[l].failed \/ stage[l] = "removed" \/ WaitsForServer(l))
=============================================================================
