----------------------- MODULE FirestoreListenersProofs -----------------------
(***************************************************************************)
(* The listeners of a query, for any number of them, any documents with    *)
(* any contents, and any number of changes: EventManager and SyncEngine    *)
(* agree, what a listener is told can be replayed, and none is forgotten.  *)
(***************************************************************************)
EXTENDS FirestoreListeners, SequenceTheorems, TLAPS

-----------------------------------------------------------------------------
(* The kinds of value the variables hold.                                  *)

Shown == [val : Nat, local : BOOLEAN]
Documents == [Doc -> Shown]

Changes == [key : Doc, type : {"Added", "Removed", "Modified", "Metadata"}, doc : Shown]

Snapshots ==
    [documents : Documents, document_changes : SUBSET Changes,
     from_cache : BOOLEAN, sync_state_changed : BOOLEAN]

QueryListeners ==
    [raised : BOOLEAN, online : Online, had : BOOLEAN, snapshot : Snapshots]

UserEvents == [error : BOOLEAN, event : Snapshots]

Managers ==
    [following : BOOLEAN, listeners : SUBSET Listener, had : BOOLEAN, snapshot : Snapshots,
     online : Online, listener : [Listener -> QueryListeners],
     events : [Listener -> Seq(UserEvents)], asserts : BOOLEAN]

Views ==
    [docs : Documents, synced : SUBSET Doc, limbo : SUBSET Doc,
     current : BOOLEAN, sync : BOOLEAN]

Tasks == [task : {"add", "remove"}, listener : Listener]

Hearings ==
    [told : BOOLEAN, failed : BOOLEAN, documents : Documents, replayed : Documents,
     from_cache : BOOLEAN, sound : BOOLEAN]

Types ==
    /\ engine \in [followed : BOOLEAN, view : Views]
    /\ manager \in Managers
    /\ worker \in Seq(Tasks)
    /\ stage \in [Listener -> {"new", "added", "removed"}]
    /\ heard \in [Listener -> Hearings]
    /\ changes \in 0..MaxChanges

-----------------------------------------------------------------------------
(* EventManager has the query exactly while the engine follows it and it   *)
(* has listeners; it then has the snapshot of what the view shows, and one *)
(* that a listener may be given.                                           *)
Agreed(m, v) ==
    /\ m.asserts
    /\ m.following <=> m.listeners # {}
    /\ m.had <=> m.following
    /\ m.had => /\ m.snapshot.documents = v.docs
                /\ m.snapshot.from_cache = ~v.sync
                /\ m.snapshot.document_changes # {} \/ m.snapshot.sync_state_changed

(* Nothing has been done for a listener.                                   *)
Fresh(l) ==
    /\ l \notin manager.listeners
    /\ manager.listener[l] = NewListener
    /\ manager.events[l] = <<>>
    /\ heard[l] = NothingHeard

IsAdd(i, l) == worker[i].task = "add" /\ worker[i].listener = l
IsRemove(i, l) == worker[i].task = "remove" /\ worker[i].listener = l

(* A listener is added once, by a task that comes before those that remove *)
(* it; what the app has removed is gone or is going to be removed.         *)
Scheduled(l) ==
    /\ \A i, j \in DOMAIN worker : IsAdd(i, l) /\ IsAdd(j, l) => i = j
    /\ \A i, j \in DOMAIN worker : IsAdd(i, l) /\ IsRemove(j, l) => i < j
    /\ \A i \in DOMAIN worker : IsAdd(i, l) => Fresh(l)
    /\ \A i \in DOMAIN worker : IsRemove(i, l) => stage[l] = "removed"
    /\ stage[l] = "new" =>
           Fresh(l) /\ \A i \in DOMAIN worker : worker[i].listener # l
    /\ stage[l] = "removed" /\ (l \in manager.listeners \/ \E i \in DOMAIN worker : IsAdd(i, l)) =>
           \E i \in DOMAIN worker : IsRemove(i, l)

(* A listener of the query has the snapshot of what the view shows, but    *)
(* for its changes, and the online state.                                  *)
Informed(m, v, l) ==
    /\ m.listener[l].had
    /\ m.listener[l].online = m.online
    /\ m.listener[l].snapshot.documents = v.docs
    /\ m.listener[l].snapshot.from_cache = ~v.sync

(* An event whose changes lead from what the app has, docs, to what the    *)
(* event shows.                                                            *)
Leads(l, docs, event) ==
    /\ \A c \in event.document_changes :
           /\ c.doc = event.documents[c.key]
           /\ c.type = "Added" <=> docs[c.key].val = 0
    /\ \A d \in Doc :
           (\A c \in event.document_changes : c.key # d) =>
               IF l \in WithMetadata THEN docs[d] = event.documents[d]
               ELSE docs[d].val = event.documents[d].val

(* What the app has after the first i of the events in q.                  *)
Known(q, docs, i) == IF i = 0 THEN docs ELSE q[i].event.documents

LastFromCache(q, from_cache) ==
    IF q = <<>> THEN from_cache ELSE q[Len(q)].event.from_cache

ErrorFree(q) == \A i \in 1..Len(q) : ~q[i].error

(* Each event leads on from the one before, and nothing follows an error.  *)
Chain(l, q, docs) ==
    \A i \in 1..Len(q) :
        IF q[i].error THEN i = Len(q) ELSE Leads(l, Known(q, docs, i - 1), q[i].event)

(* With what is on its queue a listener of the query is told what the view *)
(* shows, or has a reason to wait.                                         *)
UpToDate(m, v, h, l) ==
    /\ ErrorFree(m.events[l])
    /\ ~h.failed
    /\ m.listener[l].raised <=> m.events[l] # <<>> \/ h.told
    /\ m.listener[l].raised =>
           /\ Same(l, Known(m.events[l], h.documents, Len(m.events[l])), v.docs)
           /\ l \in WithMetadata => LastFromCache(m.events[l], h.from_cache) = ~v.sync
    /\ ~m.listener[l].raised =>
           /\ ~ShouldRaiseInitialEvent(l, m.listener[l].snapshot, m.online)
           /\ h.documents = NoDocuments

(* What holds of the listeners the app has not removed.                    *)
Heeded(m, v, h, l) ==
    /\ Chain(l, m.events[l], h.documents)
    /\ h.failed => m.events[l] = <<>>
    /\ l \in m.listeners => UpToDate(m, v, h, l)

IInv ==
    /\ Types
    /\ engine.followed <=> manager.following
    /\ Agreed(manager, engine.view)
    /\ \A l \in Listener : Scheduled(l)
    /\ \A l \in manager.listeners : Informed(manager, engine.view, l)
    /\ \A l \in Listener : stage[l] # "removed" => Heeded(manager, engine.view, heard[l], l)
    /\ ReplayIsDocuments

-----------------------------------------------------------------------------
(* The view.                                                               *)

LEMMA NewViewType ==
    /\ NewView({}) \in Views
    /\ NewView({}).docs = NoDocuments /\ NewView({}).sync = FALSE
    /\ NoDocuments \in Documents /\ \A d \in Doc : NoDocuments[d].val = 0
    /\ NotShown \in Shown
  BY DEF NewView, Views, NoDocuments, NotShown, Documents, Shown

(* Documents of the local store are shown as documents.                    *)
LEMMA DocumentsShown ==
    ASSUME NEW view \in Views, NEW ds \in SUBSET Doc,
           NEW news \in [ds -> {Absent} \union Present]
    PROVE  ComputeDocumentChanges(view, news) \in Documents
<1>1. ASSUME NEW d \in ds
      PROVE  news[d].val \in Nat /\ news[d].local \in BOOLEAN
  <2>1. news[d] = Absent \/ news[d] \in Present
    BY <1>1
  <2>2. \A p \in Present : p.val \in Nat /\ p.local \in BOOLEAN
    BY ValueAssumption DEF Present
  <2>3. Absent.val \in Nat /\ Absent.local \in BOOLEAN
    BY DEF Absent
  <2> QED
    BY <2>1, <2>2, <2>3
<1>2. \A d \in Doc : view.docs[d] \in Shown
  BY DEF Views, Documents
<1>3. \A d \in Doc : (IF d \in DOMAIN news /\ ChangeApplied(view.docs[d], news[d])
                      THEN [val |-> news[d].val, local |-> news[d].local]
                      ELSE view.docs[d]) \in Shown
  BY <1>1, <1>2 DEF Shown
<1> QED
  BY <1>3 DEF ComputeDocumentChanges, Documents

LEMMA NewsShown ==
    ASSUME NEW view \in Views, NEW news \in News
    PROVE  ComputeDocumentChanges(view, news) \in Documents
  BY DocumentsShown DEF News

LEMMA CachedShown ==
    ASSUME NEW view \in Views, NEW cached \in Cached
    PROVE  ComputeDocumentChanges(view, cached) \in Documents
  BY DocumentsShown DEF Cached

LEMMA ApplyChangesType ==
    ASSUME NEW view \in Views, NEW docs \in Documents, NEW change \in TargetChanges
    PROVE  /\ ApplyChanges(view, docs, change) \in Views
           /\ ApplyChanges(view, docs, change).docs = docs
<1> DEFINE with == [view EXCEPT !.docs = docs]
           target == ApplyTargetChange(with, change)
           applied == UpdateLimboDocuments(target)
<1>1. with \in Views /\ with.docs = docs
  BY DEF Views
<1> HIDE DEF with
<1>2. target \in Views /\ target.docs = docs
  <2>1. CASE change = NoTargetChange
    BY <1>1, <2>1 DEF ApplyTargetChange
  <2>2. ASSUME change # NoTargetChange
        PROVE  /\ change.added \subseteq Doc /\ change.current \in BOOLEAN
               /\ target = [with EXCEPT !.synced = (@ \union change.added) \ change.removed,
                                        !.current = change.current]
    <3> DEFINE All == {{}, Doc}
               Marks == {FALSE, manager.online = "online"}
    <3>0. TargetChanges = {NoTargetChange} \union
                          {TargetChange(matched, current) : matched \in All, current \in Marks}
      BY DEF TargetChanges
    <3> HIDE DEF All, Marks
    <3>1. PICK matched \in All, current \in Marks : change = TargetChange(matched, current)
      BY <2>2, <3>0
    <3>2. change.added = matched /\ change.current = current
      BY <3>1 DEF TargetChange
    <3>3. change.added \subseteq Doc /\ change.current \in BOOLEAN
      BY <3>1, <3>2 DEF All, Marks
    <3> QED
      BY <2>2, <3>3 DEF ApplyTargetChange
  <2> QED
    BY <1>1, <2>1, <2>2 DEF Views
<1> HIDE DEF target
<1>3. applied \in Views /\ applied.docs = docs
  BY <1>2 DEF UpdateLimboDocuments, Views
<1> HIDE DEF applied
<1>4. Synced(applied) \in BOOLEAN
  BY DEF Synced
<1>5. ApplyChanges(view, docs, change) = [applied EXCEPT !.sync = Synced(applied)]
  BY DEF ApplyChanges, applied, target, with
<1> QED
  BY <1>3, <1>4, <1>5 DEF Views

(* The first view of a query.                                              *)
LEMMA ListenType ==
    ASSUME NEW cached \in Cached
    PROVE  Listen(cached) \in Views
<1>1. NoTargetChange \in TargetChanges
  BY DEF TargetChanges
<1> QED
  BY <1>1, NewViewType, CachedShown, ApplyChangesType DEF Listen

LEMMA OfflineType ==
    ASSUME NEW view \in Views
    PROVE  ApplyOnlineStateChange(view) \in Views
<1>1. NoTargetChange \in TargetChanges
  BY DEF TargetChanges
<1>2. [view EXCEPT !.current = FALSE] \in Views /\ view.docs \in Documents
  BY DEF Views
<1> QED
  BY <1>1, <1>2, ApplyChangesType DEF ApplyOnlineStateChange

-----------------------------------------------------------------------------
(* Snapshots.                                                              *)

(* What changed between two sets of documents leads from the one to the    *)
(* other.                                                                  *)
LEMMA ChangesOfDocuments ==
    ASSUME NEW old \in Documents, NEW new \in Documents
    PROVE  /\ DocumentChanges(old, new) \subseteq Changes
           /\ \A c \in DocumentChanges(old, new) :
                 /\ c.key \in Doc /\ c.doc = new[c.key]
                 /\ c.type = "Added" <=> old[c.key].val = 0
                 /\ c.type = "Metadata" => old[c.key].val = new[c.key].val
           /\ \A d \in Doc : (\A c \in DocumentChanges(old, new) : c.key # d) => old[d] = new[d]
           /\ \A d \in Doc : old[d] # new[d] =>
                 \E c \in DocumentChanges(old, new) :
                     c.key = d /\ (old[d].val # new[d].val => c.type # "Metadata")
<1>1. \A d \in Doc : old[d] \in Shown /\ new[d] \in Shown
  BY DEF Documents
<1>2. \A o, n : Type(o, n) \in {"Added", "Removed", "Modified", "Metadata"}
  BY DEF Type
<1>3. \A o, n : Type(o, n) = "Added" <=> o.val = 0
  BY DEF Type
<1>4. \A o, n : Type(o, n) = "Metadata" => o.val = n.val
  BY DEF Type
<1>5. ASSUME NEW d \in Doc, old[d] # new[d]
      PROVE  [key |-> d, type |-> Type(old[d], new[d]), doc |-> new[d]]
                \in DocumentChanges(old, new)
  BY <1>5 DEF DocumentChanges
<1>6. ASSUME NEW c \in DocumentChanges(old, new)
      PROVE  /\ c \in Changes
             /\ c.key \in Doc /\ c.doc = new[c.key]
             /\ c.type = Type(old[c.key], new[c.key])
  BY <1>1, <1>2, <1>6 DEF DocumentChanges, Changes
<1>7. ASSUME NEW d \in Doc, old[d] # new[d]
      PROVE  \E c \in DocumentChanges(old, new) :
                 c.key = d /\ (old[d].val # new[d].val => c.type # "Metadata")
  BY <1>4, <1>5, <1>7
<1> QED
  BY <1>3, <1>4, <1>6, <1>7

LEMMA SnapshotType ==
    ASSUME NEW old \in Views, NEW new \in Views, NEW first \in BOOLEAN
    PROVE  /\ Snapshot(old, new, first) \in Snapshots
           /\ Snapshot(old, new, first).documents = new.docs
           /\ Snapshot(old, new, first).document_changes = DocumentChanges(old.docs, new.docs)
           /\ Snapshot(old, new, first).from_cache = ~new.sync
           /\ Snapshot(old, new, first).sync_state_changed = (first \/ old.sync # new.sync)
<1>1. old.docs \in Documents /\ new.docs \in Documents /\ new.sync \in BOOLEAN
  BY DEF Views
<1>2. DocumentChanges(old.docs, new.docs) \subseteq Changes
  BY <1>1, ChangesOfDocuments
<1> QED
  BY <1>1, <1>2 DEF Snapshot, Snapshots

LEMMA NoSnapshotType ==
    NoSnapshot \in Snapshots /\ NoSnapshot.documents = NoDocuments
  BY NewViewType DEF NoSnapshot, Snapshots

LEMMA StrippedType ==
    ASSUME NEW l, NEW s \in Snapshots
    PROVE  /\ Stripped(l, s) \in Snapshots
           /\ Stripped(l, s).documents = s.documents
           /\ Stripped(l, s).from_cache = s.from_cache
           /\ Stripped(l, s).sync_state_changed = s.sync_state_changed
           /\ l \in WithMetadata => Stripped(l, s).document_changes = s.document_changes
           /\ l \notin WithMetadata =>
                 Stripped(l, s).document_changes = {c \in s.document_changes : c.type # "Metadata"}
  BY DEF Stripped, Snapshots

LEMMA InitialType ==
    ASSUME NEW s \in Snapshots
    PROVE  /\ FromInitialDocuments(s) \in Snapshots
           /\ FromInitialDocuments(s).documents = s.documents
           /\ FromInitialDocuments(s).from_cache = s.from_cache
           /\ FromInitialDocuments(s).document_changes
                 = DocumentChanges(NoDocuments, s.documents)
<1>1. s.documents \in Documents
  BY DEF Snapshots
<1>2. DocumentChanges(NoDocuments, s.documents) \subseteq Changes
  BY <1>1, ChangesOfDocuments, NewViewType
<1> QED
  BY <1>2 DEF FromInitialDocuments, Snapshots

(* The first event adds all there is to nothing.                           *)
LEMMA InitialLeads ==
    ASSUME NEW l, NEW s \in Snapshots
    PROVE  Leads(l, NoDocuments, FromInitialDocuments(s))
<1>1. s.documents \in Documents
  BY DEF Snapshots
<1> QED
  BY <1>1, InitialType, ChangesOfDocuments, NewViewType DEF Leads

(* A later one leads from what the view showed to what it shows, for who   *)
(* has what it showed.                                                     *)
LEMMA StrippedLeads ==
    ASSUME NEW l, NEW old \in Views, NEW new \in Views, NEW first \in BOOLEAN,
           NEW docs \in Documents, Same(l, docs, old.docs)
    PROVE  Leads(l, docs, Stripped(l, Snapshot(old, new, first)))
<1> DEFINE s == Snapshot(old, new, first)
           own == Stripped(l, s)
<1>1. old.docs \in Documents /\ new.docs \in Documents
  BY DEF Views
<1>2. s \in Snapshots /\ s.documents = new.docs
      /\ s.document_changes = DocumentChanges(old.docs, new.docs)
  BY SnapshotType
<1> HIDE DEF s
<1>3. own.documents = new.docs
  BY <1>2, StrippedType
<1>4. own.document_changes \subseteq DocumentChanges(old.docs, new.docs)
  BY <1>2, StrippedType
<1>5. \A d \in Doc : docs[d].val = old.docs[d].val
  BY DEF Same
<1>6. \A c \in own.document_changes :
         /\ c.doc = own.documents[c.key]
         /\ c.type = "Added" <=> docs[c.key].val = 0
  BY <1>1, <1>3, <1>4, <1>5, ChangesOfDocuments
<1>7. ASSUME NEW d \in Doc, \A c \in own.document_changes : c.key # d
      PROVE  IF l \in WithMetadata THEN docs[d] = own.documents[d]
             ELSE docs[d].val = own.documents[d].val
  <2>1. CASE l \in WithMetadata
    BY <1>1, <1>2, <1>3, <1>7, <2>1, StrippedType, ChangesOfDocuments DEF Same
  <2>2. CASE l \notin WithMetadata
    <3>1. old.docs[d].val = new.docs[d].val
      BY <1>1, <1>2, <1>7, <2>2, StrippedType, ChangesOfDocuments
    <3> QED
      BY <1>3, <1>5, <2>2, <3>1
  <2> QED
    BY <2>1, <2>2
<1> QED
  BY <1>6, <1>7 DEF Leads, s

(* An event that is not raised would have said nothing.                    *)
LEMMA NothingToSay ==
    ASSUME NEW l, NEW old \in Views, NEW new \in Views, NEW first \in BOOLEAN, NEW last,
           ~ShouldRaiseEvent(l, last, Stripped(l, Snapshot(old, new, first)))
    PROVE  /\ Same(l, old.docs, new.docs)
           /\ l \in WithMetadata => old.sync = new.sync
<1> DEFINE s == Snapshot(old, new, first)
           own == Stripped(l, s)
<1>1. old.docs \in Documents /\ new.docs \in Documents /\ old.sync \in BOOLEAN /\ new.sync \in BOOLEAN
  BY DEF Views
<1>2. /\ s \in Snapshots /\ s.document_changes = DocumentChanges(old.docs, new.docs)
      /\ s.sync_state_changed = (first \/ old.sync # new.sync)
  BY SnapshotType
<1>3. own.document_changes = {}
  BY DEF ShouldRaiseEvent
<1>4. l \in WithMetadata => ~own.sync_state_changed
  BY DEF ShouldRaiseEvent
<1> HIDE DEF s
<1>5. Same(l, old.docs, new.docs)
  <2>1. ASSUME NEW d \in Doc, l \in WithMetadata
        PROVE  old.docs[d] = new.docs[d]
    <3>1. DocumentChanges(old.docs, new.docs) = {}
      BY <1>2, <1>3, <2>1, StrippedType
    <3> QED
      BY <1>1, <3>1, ChangesOfDocuments
  <2>2. ASSUME NEW d \in Doc, l \notin WithMetadata
        PROVE  old.docs[d].val = new.docs[d].val
    <3>1. \A c \in DocumentChanges(old.docs, new.docs) : c.type = "Metadata"
      BY <1>2, <1>3, <2>2, StrippedType
    <3> QED
      BY <1>1, <3>1, ChangesOfDocuments
  <2> QED
    BY <2>1, <2>2 DEF Same
<1>6. l \in WithMetadata => old.sync = new.sync
  BY <1>1, <1>2, <1>4, StrippedType
<1> QED
  BY <1>5, <1>6

-----------------------------------------------------------------------------
(* QueryListener: what the operations on some of the listeners do to each. *)

(* Whether a snapshot makes a listener raise an event, and which.          *)
Raises(m, l, snapshot) ==
    IF m.listener[l].raised
    THEN ShouldRaiseEvent(l, m.listener[l], Stripped(l, snapshot))
    ELSE ShouldRaiseInitialEvent(l, Stripped(l, snapshot), m.listener[l].online)

Raised(m, l, snapshot) ==
    IF m.listener[l].raised THEN Stripped(l, snapshot)
    ELSE FromInitialDocuments(Stripped(l, snapshot))

LEMMA RaisedType ==
    ASSUME NEW m, NEW l, NEW s \in Snapshots
    PROVE  /\ Raised(m, l, s) \in Snapshots
           /\ Told(Raised(m, l, s)) \in UserEvents
           /\ Raises(m, l, s) \in BOOLEAN
<1>1. Stripped(l, s) \in Snapshots
  BY StrippedType
<1>2. Raised(m, l, s) \in Snapshots
  BY <1>1, InitialType DEF Raised
<1> QED
  BY <1>2 DEF Told, UserEvents, Raises, ShouldRaiseEvent, ShouldRaiseInitialEvent

(* Events of some listeners, put on the queues of these.                   *)
LEMMA EventsType ==
    ASSUME NEW events \in [Listener -> Seq(UserEvents)], NEW raising, NEW event,
           \A l \in Listener : event[l] \in UserEvents
    PROVE  /\ Events(events, raising, event) \in [Listener -> Seq(UserEvents)]
           /\ \A l \in Listener :
                 /\ l \in raising => Events(events, raising, event)[l] = Append(events[l], event[l])
                 /\ l \notin raising => Events(events, raising, event)[l] = events[l]
<1>1. \A l \in Listener : events[l] \in Seq(UserEvents)
  OBVIOUS
<1>2. \A l \in Listener : Append(events[l], event[l]) \in Seq(UserEvents)
  BY <1>1, AppendProperties
<1> QED
  BY <1>1, <1>2 DEF Events

(* What they do not touch.                                                 *)
SameQuery(m, r) ==
    /\ r.following = m.following /\ r.listeners = m.listeners
    /\ r.had = m.had /\ r.snapshot = m.snapshot /\ r.online = m.online

(* What becomes of those it is not about and of those it is.               *)
OthersKeep(m, ls, r) ==
    \A l \in Listener \ ls : r.events[l] = m.events[l] /\ r.listener[l] = m.listener[l]

EachHasSnapshot(m, ls, s, r) ==
    \A l \in ls :
        /\ r.events[l] = IF Raises(m, l, s) THEN Append(m.events[l], Told(Raised(m, l, s)))
                         ELSE m.events[l]
        /\ r.listener[l].raised = (m.listener[l].raised \/ Raises(m, l, s))
        /\ r.listener[l].online = m.listener[l].online
        /\ r.listener[l].had
        /\ r.listener[l].snapshot = Stripped(l, s)

LEMMA OnViewSnapshotType ==
    ASSUME NEW m \in Managers, NEW ls \in SUBSET Listener, NEW s \in Snapshots,
           NEW r, r = OnViewSnapshot(m, ls, s)
    PROVE  /\ r \in Managers
           /\ SameQuery(m, r)
           /\ r.asserts = (m.asserts /\ (s.document_changes # {} \/ s.sync_state_changed))
           /\ OthersKeep(m, ls, r) /\ EachHasSnapshot(m, ls, s, r)
<1> DEFINE own == [l \in Listener |-> Stripped(l, s)]
           raising == {l \in ls :
                          IF m.listener[l].raised
                          THEN ShouldRaiseEvent(l, m.listener[l], own[l])
                          ELSE ShouldRaiseInitialEvent(l, own[l], m.listener[l].online)}
           event == [l \in Listener |-> Told(IF m.listener[l].raised THEN own[l]
                                             ELSE FromInitialDocuments(own[l]))]
           events == Events(m.events, raising, event)
           listener == [l \in Listener |->
                           IF l \in ls
                           THEN [raised |-> m.listener[l].raised \/ l \in raising,
                                 online |-> m.listener[l].online,
                                 had |-> TRUE, snapshot |-> own[l]]
                           ELSE m.listener[l]]
           holds == m.asserts /\ (s.document_changes # {} \/ s.sync_state_changed)
<1>1. r = [m EXCEPT !.events = events, !.listener = listener, !.asserts = holds]
  BY DEF OnViewSnapshot, HardAssert, Managers
<1>2. \A l \in Listener : own[l] = Stripped(l, s) /\ own[l] \in Snapshots
  BY StrippedType
<1>3. raising = {l \in ls : Raises(m, l, s)}
  BY <1>2 DEF Raises
<1>4. \A l \in Listener : event[l] = Told(Raised(m, l, s)) /\ event[l] \in UserEvents
  BY <1>2, RaisedType DEF Raised
<1> HIDE DEF own, raising, event
<1>5. m.events \in [Listener -> Seq(UserEvents)]
  BY DEF Managers
<1>6. /\ events \in [Listener -> Seq(UserEvents)]
      /\ \A l \in Listener \ raising : events[l] = m.events[l]
      /\ \A l \in raising : events[l] = Append(m.events[l], event[l])
  BY <1>3, <1>4, <1>5, EventsType
<1> HIDE DEF events
<1>7. \A l \in Listener : m.listener[l] \in QueryListeners
  BY DEF Managers
<1>8. ASSUME NEW l \in Listener
      PROVE  /\ listener[l] \in QueryListeners
             /\ l \notin ls => listener[l] = m.listener[l]
             /\ l \in ls => /\ listener[l].raised = (m.listener[l].raised \/ Raises(m, l, s))
                            /\ listener[l].online = m.listener[l].online
                            /\ listener[l].had
                            /\ listener[l].snapshot = Stripped(l, s)
  BY <1>2, <1>3, <1>7, RaisedType DEF QueryListeners
<1>9. listener \in [Listener -> QueryListeners]
  BY <1>8
<1> HIDE DEF listener
<1>10. holds \in BOOLEAN
  BY DEF Managers, Snapshots
<1>11. /\ r \in Managers
       /\ r.following = m.following /\ r.listeners = m.listeners
       /\ r.had = m.had /\ r.snapshot = m.snapshot /\ r.online = m.online
       /\ r.asserts = holds /\ r.events = events /\ r.listener = listener
  BY <1>1, <1>6, <1>9, <1>10 DEF Managers
<1>12. ASSUME NEW l \in ls
       PROVE  events[l] = IF Raises(m, l, s) THEN Append(m.events[l], Told(Raised(m, l, s)))
                          ELSE m.events[l]
  BY <1>3, <1>4, <1>6
<1>13. \A l \in Listener \ ls : events[l] = m.events[l]
  BY <1>3, <1>6
<1> QED
  BY <1>8, <1>11, <1>12, <1>13 DEF SameQuery, OthersKeep, EachHasSnapshot

(* Whether the online state makes a listener raise its first event.        *)
Released(m, l, online) ==
    /\ m.listener[l].had
    /\ ~m.listener[l].raised
    /\ ShouldRaiseInitialEvent(l, m.listener[l].snapshot, online)

EachHasOnline(m, ls, online, r) ==
    \A l \in ls :
        /\ r.events[l] = IF Released(m, l, online)
                         THEN Append(m.events[l], Told(FromInitialDocuments(m.listener[l].snapshot)))
                         ELSE m.events[l]
        /\ r.listener[l].raised = (m.listener[l].raised \/ Released(m, l, online))
        /\ r.listener[l].online = online
        /\ r.listener[l].had = m.listener[l].had
        /\ r.listener[l].snapshot = m.listener[l].snapshot

LEMMA OnOnlineStateChangedType ==
    ASSUME NEW m \in Managers, NEW ls \in SUBSET Listener, NEW online \in Online,
           NEW r, r = OnOnlineStateChanged(m, ls, online)
    PROVE  /\ r \in Managers
           /\ SameQuery(m, r)
           /\ r.asserts = m.asserts
           /\ OthersKeep(m, ls, r) /\ EachHasOnline(m, ls, online, r)
<1> DEFINE raising == {l \in ls :
                          /\ m.listener[l].had
                          /\ ~m.listener[l].raised
                          /\ ShouldRaiseInitialEvent(l, m.listener[l].snapshot, online)}
           event == [l \in Listener |-> Told(FromInitialDocuments(m.listener[l].snapshot))]
           events == Events(m.events, raising, event)
           listener == [l \in Listener |->
                           IF l \in ls
                           THEN [m.listener[l] EXCEPT
                                    !.online = online,
                                    !.raised = m.listener[l].raised \/ l \in raising]
                           ELSE m.listener[l]]
<1>1. r = [m EXCEPT !.events = events, !.listener = listener]
  BY DEF OnOnlineStateChanged
<1>2. \A l \in Listener : m.listener[l] \in QueryListeners /\ m.listener[l].snapshot \in Snapshots
  BY DEF Managers, QueryListeners
<1>3. raising = {l \in ls : Released(m, l, online)}
  BY DEF Released
<1>4. \A l \in Listener : event[l] = Told(FromInitialDocuments(m.listener[l].snapshot))
                          /\ event[l] \in UserEvents
  BY <1>2, InitialType DEF Told, UserEvents
<1> HIDE DEF raising, event
<1>5. m.events \in [Listener -> Seq(UserEvents)]
  BY DEF Managers
<1>6. /\ events \in [Listener -> Seq(UserEvents)]
      /\ \A l \in Listener \ raising : events[l] = m.events[l]
      /\ \A l \in raising : events[l] = Append(m.events[l], event[l])
  BY <1>3, <1>4, <1>5, EventsType
<1> HIDE DEF events
<1>7. \A l \in Listener : Released(m, l, online) \in BOOLEAN
  BY <1>2 DEF Released, QueryListeners
<1>8. ASSUME NEW l \in Listener
      PROVE  /\ listener[l] \in QueryListeners
             /\ l \notin ls => listener[l] = m.listener[l]
             /\ l \in ls => /\ listener[l].raised = (m.listener[l].raised \/ Released(m, l, online))
                            /\ listener[l].online = online
                            /\ listener[l].had = m.listener[l].had
                            /\ listener[l].snapshot = m.listener[l].snapshot
  BY <1>2, <1>3, <1>7 DEF QueryListeners
<1>9. listener \in [Listener -> QueryListeners]
  BY <1>8
<1> HIDE DEF listener
<1>10. /\ r \in Managers
       /\ r.following = m.following /\ r.listeners = m.listeners
       /\ r.had = m.had /\ r.snapshot = m.snapshot /\ r.online = m.online
       /\ r.asserts = m.asserts /\ r.events = events /\ r.listener = listener
  BY <1>1, <1>6, <1>9 DEF Managers
<1>11. ASSUME NEW l \in ls
       PROVE  events[l] = IF Released(m, l, online)
                          THEN Append(m.events[l], Told(FromInitialDocuments(m.listener[l].snapshot)))
                          ELSE m.events[l]
  BY <1>3, <1>4, <1>6
<1>12. \A l \in Listener \ ls : events[l] = m.events[l]
  BY <1>3, <1>6
<1> QED
  BY <1>8, <1>10, <1>11, <1>12 DEF SameQuery, OthersKeep, EachHasOnline

-----------------------------------------------------------------------------
(* The events under way to a listener.                                     *)

LEMMA SameFollows ==
    ASSUME NEW l, NEW a, NEW b, NEW c, Same(l, a, b), Same(l, b, c)
    PROVE  Same(l, a, c)
  BY DEF Same

(* One more event at the end of the queue.                                 *)
LEMMA ChainGrows ==
    ASSUME NEW l, NEW q \in Seq(UserEvents), NEW docs, NEW event \in Snapshots,
           Chain(l, q, docs), ErrorFree(q), Leads(l, Known(q, docs, Len(q)), event)
    PROVE  /\ Append(q, Told(event)) # <<>>
           /\ Chain(l, Append(q, Told(event)), docs)
           /\ ErrorFree(Append(q, Told(event)))
           /\ Known(Append(q, Told(event)), docs, Len(Append(q, Told(event)))) = event.documents
<1> DEFINE e == Told(event)
           r == Append(q, e)
<1>1. e \in UserEvents /\ e.error = FALSE /\ e.event = event
  BY DEF Told, UserEvents
<1>2. /\ r \in Seq(UserEvents) /\ Len(q) \in Nat /\ Len(r) = Len(q) + 1
      /\ r[Len(q) + 1] = e
      /\ \A i \in 1..Len(q) : r[i] = q[i]
  BY <1>1, AppendProperties
<1> HIDE DEF e, r
<1>3. ASSUME NEW i \in 1..Len(r)
      PROVE  ~r[i].error /\ Leads(l, Known(r, docs, i - 1), r[i].event)
  <2>1. i - 1 = 0 \/ i - 1 \in 1..Len(q)
    BY <1>2
  <2>2. Known(r, docs, i - 1) = Known(q, docs, i - 1)
    BY <1>2, <2>1 DEF Known
  <2>3. CASE i = Len(r)
    BY <1>1, <1>2, <2>2, <2>3
  <2>4. CASE i # Len(r)
    <3>1. i \in 1..Len(q) /\ r[i] = q[i]
      BY <1>2, <2>4
    <3> QED
      BY <2>2, <3>1 DEF Chain, ErrorFree
  <2> QED
    BY <2>3, <2>4
<1>4. Chain(l, r, docs)
  BY <1>3 DEF Chain
<1>5. r # <<>> /\ Known(r, docs, Len(r)) = event.documents
  BY <1>1, <1>2 DEF Known
<1> QED
  BY <1>2, <1>3, <1>4, <1>5 DEF ErrorFree, e, r

LEMMA LastTold ==
    ASSUME NEW q \in Seq(UserEvents), NEW event \in Snapshots, NEW from_cache
    PROVE  LastFromCache(Append(q, Told(event)), from_cache) = event.from_cache
<1> DEFINE r == Append(q, Told(event))
<1>1. Told(event) \in UserEvents /\ Told(event).event = event
  BY DEF Told, UserEvents
<1>2. Len(q) \in Nat /\ Len(r) = Len(q) + 1 /\ r # <<>> /\ r[Len(r)] = Told(event)
  BY <1>1, AppendProperties
<1> QED
  BY <1>1, <1>2 DEF LastFromCache

(* The error at its end.                                                   *)
LEMMA ChainEnds ==
    ASSUME NEW l, NEW q \in Seq(UserEvents), NEW docs,
           Chain(l, q, docs), ErrorFree(q)
    PROVE  Append(q, Failed) \in Seq(UserEvents) /\ Chain(l, Append(q, Failed), docs)
<1> DEFINE r == Append(q, Failed)
<1>1. Failed \in UserEvents /\ Failed.error
  BY NoSnapshotType DEF Failed, UserEvents
<1>2. /\ r \in Seq(UserEvents) /\ Len(q) \in Nat /\ Len(r) = Len(q) + 1
      /\ r[Len(q) + 1] = Failed
      /\ \A i \in 1..Len(q) : r[i] = q[i]
  BY <1>1, AppendProperties
<1> HIDE DEF r
<1>3. ASSUME NEW i \in 1..Len(r)
      PROVE  IF r[i].error THEN i = Len(r) ELSE Leads(l, Known(r, docs, i - 1), r[i].event)
  <2>1. i - 1 = 0 \/ i - 1 \in 1..Len(q)
    BY <1>2
  <2>2. Known(r, docs, i - 1) = Known(q, docs, i - 1)
    BY <1>2, <2>1 DEF Known
  <2>3. CASE i = Len(r)
    BY <1>1, <1>2, <2>3
  <2>4. CASE i # Len(r)
    <3>1. i \in 1..Len(q) /\ r[i] = q[i]
      BY <1>2, <2>4
    <3> QED
      BY <2>2, <3>1 DEF Chain, ErrorFree
  <2> QED
    BY <2>3, <2>4
<1>4. Chain(l, r, docs)
  BY <1>3 DEF Chain
<1> QED
  BY <1>2, <1>4 DEF r

(* The first event comes to the app.                                       *)
LEMMA ChainMovesOn ==
    ASSUME NEW l, NEW q \in Seq(UserEvents), NEW docs, NEW from_cache, q # <<>>,
           Chain(l, q, docs), ~Head(q).error
    PROVE  /\ Tail(q) \in Seq(UserEvents)
           /\ Head(q) \in UserEvents
           /\ Leads(l, docs, Head(q).event)
           /\ Chain(l, Tail(q), Head(q).event.documents)
           /\ Known(Tail(q), Head(q).event.documents, Len(Tail(q))) = Known(q, docs, Len(q))
           /\ LastFromCache(Tail(q), Head(q).event.from_cache) = LastFromCache(q, from_cache)
           /\ ErrorFree(q) => ErrorFree(Tail(q))
<1> DEFINE r == Tail(q)
           first == Head(q)
<1>1. /\ r \in Seq(UserEvents) /\ first \in UserEvents /\ first = q[1]
      /\ Len(q) \in Nat /\ Len(q) >= 1 /\ Len(r) = Len(q) - 1
      /\ \A i \in 1..Len(r) : r[i] = q[i + 1]
  BY HeadTailProperties, EmptySeq, LenProperties
<1>2. Leads(l, docs, first.event)
  <2>1. 1 \in 1..Len(q) /\ 1 - 1 = 0 /\ ~q[1].error
    BY <1>1
  <2>2. Leads(l, Known(q, docs, 1 - 1), q[1].event)
    BY <2>1 DEF Chain
  <2> QED
    BY <1>1, <2>1, <2>2 DEF Known
<1> HIDE DEF r, first
<1>3. ASSUME NEW i \in 0..Len(r)
      PROVE  Known(r, first.event.documents, i) = Known(q, docs, i + 1)
  <2>1. CASE i = 0
    BY <1>1, <2>1 DEF Known
  <2>2. CASE i # 0
    BY <1>1, <2>2 DEF Known
  <2> QED
    BY <2>1, <2>2
<1>4. ASSUME NEW i \in 1..Len(r)
      PROVE  IF r[i].error THEN i = Len(r)
             ELSE Leads(l, Known(r, first.event.documents, i - 1), r[i].event)
  <2>1. /\ i + 1 \in 1..Len(q) /\ r[i] = q[i + 1] /\ i - 1 \in 0..Len(r)
        /\ (i + 1) - 1 = i /\ (i - 1) + 1 = i
    BY <1>1
  <2>2. Known(r, first.event.documents, i - 1) = Known(q, docs, i)
    BY <1>3, <2>1
  <2>3. IF q[i + 1].error THEN i + 1 = Len(q)
        ELSE Leads(l, Known(q, docs, (i + 1) - 1), q[i + 1].event)
    BY <2>1 DEF Chain
  <2> QED
    BY <1>1, <2>1, <2>2, <2>3
<1>5. Chain(l, r, first.event.documents)
  BY <1>4 DEF Chain
<1>6. Known(r, first.event.documents, Len(r)) = Known(q, docs, Len(q))
  BY <1>1, <1>3
<1>7. LastFromCache(r, first.event.from_cache) = LastFromCache(q, from_cache)
  <2>1. CASE r = <<>>
    <3>1. Len(r) = 0 /\ Len(q) = 1
      BY <1>1, <2>1, EmptySeq
    <3> QED
      BY <1>1, <2>1, <3>1 DEF LastFromCache
  <2>2. CASE r # <<>>
    <3>1. Len(r) \in 1..Len(r)
      BY <1>1, <2>2, EmptySeq
    <3> QED
      BY <1>1, <2>2, <3>1 DEF LastFromCache
  <2> QED
    BY <2>1, <2>2
<1>8. ASSUME ErrorFree(q)
      PROVE  ErrorFree(r)
  BY <1>1, <1>8 DEF ErrorFree
<1> QED
  BY <1>1, <1>2, <1>5, <1>6, <1>7, <1>8 DEF r, first

-----------------------------------------------------------------------------
(* What a listener of the query is told when the view changes, when it is  *)
(* added, and when the online state does.                                  *)

LEMMA InformedBySnapshot ==
    ASSUME NEW m \in Managers, NEW v \in Views, NEW ls \in SUBSET Listener, NEW l \in ls,
           NEW s \in Snapshots, s.documents = v.docs, s.from_cache = ~v.sync,
           m.listener[l].online = m.online
    PROVE  Informed(OnViewSnapshot(m, ls, s), v, l)
<1>1. /\ Stripped(l, s).documents = s.documents
      /\ Stripped(l, s).from_cache = s.from_cache
  BY StrippedType
<1>2. ASSUME NEW r, r = OnViewSnapshot(m, ls, s)
      PROVE  r.online = m.online /\ EachHasSnapshot(m, ls, s, r)
  <2>1. SameQuery(m, r)
    BY <1>2, OnViewSnapshotType
  <2>2. EachHasSnapshot(m, ls, s, r)
    BY <1>2, OnViewSnapshotType
  <2> QED
    BY <2>1, <2>2 DEF SameQuery
<1> QED
  BY <1>1, <1>2 DEF Informed, EachHasSnapshot

(* A listener that has raised nothing raises its first event or waits.     *)
LEMMA FirstHeard ==
    ASSUME NEW m \in Managers, NEW v \in Views, NEW h \in Hearings,
           NEW ls \in SUBSET Listener, NEW l \in ls,
           NEW s \in Snapshots, s.documents = v.docs, s.from_cache = ~v.sync,
           m.listener[l].online = m.online,
           ~m.listener[l].raised, m.events[l] = <<>>,
           ~h.told, ~h.failed, h.documents = NoDocuments
    PROVE  LET r == OnViewSnapshot(m, ls, s)
           IN  Chain(l, r.events[l], h.documents) /\ UpToDate(r, v, h, l)
<1> SUFFICES ASSUME NEW r, r = OnViewSnapshot(m, ls, s)
             PROVE  Chain(l, r.events[l], h.documents) /\ UpToDate(r, v, h, l)
  OBVIOUS
<1> DEFINE own == Stripped(l, s)
           q == m.events[l]
<1>1. /\ own \in Snapshots /\ own.documents = v.docs /\ own.from_cache = ~v.sync
  BY StrippedType
<1>2. /\ r.online = m.online
      /\ r.events[l] = IF Raises(m, l, s) THEN Append(q, Told(Raised(m, l, s))) ELSE q
      /\ r.listener[l].raised = (m.listener[l].raised \/ Raises(m, l, s))
      /\ r.listener[l].snapshot = own
  <2>1. SameQuery(m, r)
    BY OnViewSnapshotType
  <2>2. EachHasSnapshot(m, ls, s, r)
    BY OnViewSnapshotType
  <2> QED
    BY <2>1, <2>2 DEF SameQuery, EachHasSnapshot
<1>3. /\ Raises(m, l, s) = ShouldRaiseInitialEvent(l, own, m.online)
      /\ Raised(m, l, s) = FromInitialDocuments(own)
  BY DEF Raises, Raised
<1>4. /\ q \in Seq(UserEvents) /\ Len(q) = 0 /\ Chain(l, q, h.documents)
      /\ ErrorFree(q)
      /\ Known(q, h.documents, Len(q)) = NoDocuments
  BY EmptySeq DEF Managers, Chain, Known, ErrorFree
<1> HIDE DEF q
<1>5. CASE Raises(m, l, s)
  <2> DEFINE event == FromInitialDocuments(own)
  <2>1. /\ event \in Snapshots /\ event.documents = v.docs /\ event.from_cache = ~v.sync
        /\ Leads(l, Known(q, h.documents, Len(q)), event)
    BY <1>1, <1>4, InitialType, InitialLeads
  <2> HIDE DEF own, event
  <2>2. r.events[l] = Append(q, Told(event)) /\ r.listener[l].raised
    BY <1>2, <1>3, <1>5 DEF event
  <2>3. /\ r.events[l] # <<>>
        /\ Chain(l, r.events[l], h.documents)
        /\ ErrorFree(r.events[l])
        /\ Known(r.events[l], h.documents, Len(r.events[l])) = v.docs
        /\ LastFromCache(r.events[l], h.from_cache) = ~v.sync
    <3>1. /\ Append(q, Told(event)) # <<>>
          /\ Chain(l, Append(q, Told(event)), h.documents)
          /\ ErrorFree(Append(q, Told(event)))
          /\ Known(Append(q, Told(event)), h.documents, Len(Append(q, Told(event)))) = event.documents
      BY <1>4, <2>1, <2>2, ChainGrows
    <3>2. LastFromCache(Append(q, Told(event)), h.from_cache) = event.from_cache
      BY <1>4, <2>1, <2>2, LastTold
    <3> QED
      BY <1>4, <2>1, <2>2, <3>1, <3>2
  <2>4. Same(l, v.docs, v.docs)
    BY DEF Same
  <2> QED
    BY <2>2, <2>3, <2>4 DEF UpToDate
<1>6. CASE ~Raises(m, l, s)
  <2>1. r.events[l] = q /\ q = <<>>
    BY <1>2, <1>6 DEF q
  <2>2. ~r.listener[l].raised
    BY <1>2, <1>6
  <2>3. ~ShouldRaiseInitialEvent(l, r.listener[l].snapshot, r.online)
    BY <1>2, <1>3, <1>6
  <2> QED
    BY <1>4, <2>1, <2>2, <2>3 DEF UpToDate
<1> QED
  BY <1>5, <1>6

(* A listener that has raised an event is told what has changed since, or  *)
(* nothing has.                                                            *)
LEMMA NextHeard ==
    ASSUME NEW m \in Managers, NEW v \in Views, NEW w \in Views, NEW h \in Hearings,
           NEW ls \in SUBSET Listener, NEW l \in ls, NEW first \in BOOLEAN,
           m.listener[l].raised, Chain(l, m.events[l], h.documents), UpToDate(m, v, h, l)
    PROVE  LET r == OnViewSnapshot(m, ls, Snapshot(v, w, first))
           IN  Chain(l, r.events[l], h.documents) /\ UpToDate(r, w, h, l)
<1> SUFFICES ASSUME NEW r, r = OnViewSnapshot(m, ls, Snapshot(v, w, first))
             PROVE  Chain(l, r.events[l], h.documents) /\ UpToDate(r, w, h, l)
  OBVIOUS
<1> DEFINE s == Snapshot(v, w, first)
           own == Stripped(l, s)
           q == m.events[l]
           docs == Known(q, h.documents, Len(q))
<1>1. s \in Snapshots /\ s.documents = w.docs /\ s.from_cache = ~w.sync
  BY SnapshotType
<1>2. own \in Snapshots /\ own.documents = w.docs /\ own.from_cache = ~w.sync
  BY <1>1, StrippedType
<1>3. /\ r.events[l] = IF Raises(m, l, s) THEN Append(q, Told(Raised(m, l, s))) ELSE q
      /\ r.listener[l].raised
  <2>1. EachHasSnapshot(m, ls, s, r)
    BY <1>1, OnViewSnapshotType
  <2> HIDE DEF s
  <2> QED
    BY <2>1 DEF EachHasSnapshot
<1>4. /\ Raises(m, l, s) = ShouldRaiseEvent(l, m.listener[l], own)
      /\ Raised(m, l, s) = own
  BY DEF Raises, Raised
<1>5. /\ q \in Seq(UserEvents) /\ Len(q) \in Nat /\ Chain(l, q, h.documents)
      /\ \A i \in 1..Len(q) : q[i] \in UserEvents
      /\ ErrorFree(q)
      /\ ~h.failed /\ (q # <<>> \/ h.told)
      /\ Same(l, docs, v.docs)
      /\ l \in WithMetadata => LastFromCache(q, h.from_cache) = ~v.sync
  BY ElementOfSeq, LenProperties DEF Managers, UpToDate
<1>6. docs \in Documents
  BY <1>5 DEF Known, UserEvents, Snapshots, Hearings
<1> HIDE DEF q
<1>7. CASE Raises(m, l, s)
  <2>1. Leads(l, docs, own)
    BY <1>5, <1>6, StrippedLeads
  <2> HIDE DEF own
  <2>2. r.events[l] = Append(q, Told(own))
    BY <1>3, <1>4, <1>7
  <2>3. /\ r.events[l] # <<>>
        /\ Chain(l, r.events[l], h.documents)
        /\ ErrorFree(r.events[l])
        /\ Known(r.events[l], h.documents, Len(r.events[l])) = w.docs
        /\ LastFromCache(r.events[l], h.from_cache) = ~w.sync
    <3>1. /\ Append(q, Told(own)) # <<>>
          /\ Chain(l, Append(q, Told(own)), h.documents)
          /\ ErrorFree(Append(q, Told(own)))
          /\ Known(Append(q, Told(own)), h.documents, Len(Append(q, Told(own)))) = own.documents
      BY <1>2, <1>5, <2>1, <2>2, ChainGrows
    <3>2. LastFromCache(Append(q, Told(own)), h.from_cache) = own.from_cache
      BY <1>2, <1>5, <2>1, <2>2, LastTold
    <3> QED
      BY <1>2, <1>5, <2>1, <2>2, <3>1, <3>2
  <2>4. Same(l, w.docs, w.docs)
    BY DEF Same
  <2> QED
    BY <1>3, <1>5, <2>3, <2>4 DEF UpToDate
<1>8. CASE ~Raises(m, l, s)
  <2>1. /\ Same(l, v.docs, w.docs)
        /\ l \in WithMetadata => v.sync = w.sync
    BY <1>4, <1>8, NothingToSay
  <2> HIDE DEF own, s
  <2>2. r.events[l] = q
    BY <1>3, <1>8
  <2>3. Same(l, docs, w.docs)
    BY <1>5, <2>1, SameFollows
  <2> QED
    BY <1>3, <1>5, <2>1, <2>2, <2>3 DEF UpToDate, s
<1> QED
  BY <1>7, <1>8

(* The listeners of the query when the view changes, with those of others  *)
(* left alone.                                                             *)
LEMMA HeardOfView ==
    ASSUME NEW m \in Managers, NEW v \in Views, NEW w \in Views, NEW h \in Hearings,
           NEW l \in Listener, NEW first \in BOOLEAN,
           l \in m.listeners => Informed(m, v, l), Heeded(m, v, h, l)
    PROVE  Heeded(OnViewSnapshot(m, m.listeners, Snapshot(v, w, first)), w, h, l)
<1> DEFINE s == Snapshot(v, w, first)
           r == OnViewSnapshot(m, m.listeners, s)
<1>1. s \in Snapshots /\ s.documents = w.docs /\ s.from_cache = ~w.sync
  BY SnapshotType
<1>2. m.listeners \in SUBSET Listener
  BY DEF Managers
<1>3. r.listeners = m.listeners /\ (l \notin m.listeners => r.events[l] = m.events[l])
  <2>1. r.listeners = m.listeners
    <3>1. SameQuery(m, r)
      BY <1>1, <1>2, OnViewSnapshotType
    <3> HIDE DEF r
    <3> QED
      BY <3>1 DEF SameQuery
  <2>2. l \notin m.listeners => r.events[l] = m.events[l]
    <3>1. OthersKeep(m, m.listeners, r)
      BY <1>1, <1>2, OnViewSnapshotType
    <3> HIDE DEF r
    <3> QED
      BY <3>1 DEF OthersKeep
  <2> QED
    BY <2>1, <2>2
<1>4. CASE l \notin m.listeners
  BY <1>3, <1>4 DEF Heeded
<1>5. CASE l \in m.listeners
  <2>1. /\ Chain(l, m.events[l], h.documents) /\ UpToDate(m, v, h, l) /\ ~h.failed
        /\ m.listener[l].online = m.online
    BY <1>5 DEF Heeded, UpToDate, Informed
  <2>2. Chain(l, r.events[l], h.documents) /\ UpToDate(r, w, h, l)
    <3>1. CASE m.listener[l].raised
      BY <1>2, <1>5, <2>1, <3>1, NextHeard
    <3>2. CASE ~m.listener[l].raised
      <4>1. m.events[l] = <<>> /\ ~h.told /\ h.documents = NoDocuments
        BY <2>1, <3>2 DEF UpToDate
      <4> HIDE DEF s
      <4>2. Chain(l, r.events[l], h.documents) /\ UpToDate(r, w, h, l)
        BY <1>1, <1>2, <1>5, <2>1, <3>2, <4>1, FirstHeard
      <4> QED
        BY <4>2 DEF s
    <3> QED
      BY <3>1, <3>2
  <2> QED
    BY <2>1, <2>2 DEF Heeded
<1> QED
  BY <1>4, <1>5

LEMMA InformedOfView ==
    ASSUME NEW m \in Managers, NEW v \in Views, NEW w \in Views,
           NEW l \in m.listeners, NEW first \in BOOLEAN, Informed(m, v, l)
    PROVE  Informed(OnViewSnapshot(m, m.listeners, Snapshot(v, w, first)), w, l)
<1>1. m.listeners \in SUBSET Listener
  BY DEF Managers
<1> QED
  BY <1>1, SnapshotType, InformedBySnapshot DEF Informed

(* Their first event, when the online state lets them raise it.            *)
LEMMA HeardOfOnline ==
    ASSUME NEW m \in Managers, NEW v \in Views, NEW online \in Online, NEW h \in Hearings,
           NEW l \in Listener,
           l \in m.listeners => Informed(m, v, l), Heeded(m, v, h, l)
    PROVE  LET r == HandleOnlineStateChange(m, online)
           IN  Heeded(r, v, h, l) /\ (l \in m.listeners => Informed(r, v, l))
<1> DEFINE n == [m EXCEPT !.online = online]
           r == OnOnlineStateChanged(n, n.listeners, online)
           q == m.events[l]
           shot == m.listener[l].snapshot
<1>1. /\ n \in Managers /\ n.online = online /\ n.listeners = m.listeners
      /\ n.events = m.events /\ n.listener = m.listener
  BY DEF Managers
<1>2. n.listeners \in SUBSET Listener
  BY <1>1 DEF Managers
<1> HIDE DEF n
<1>3. r.listeners = m.listeners /\ r.online = online
  <2>1. SameQuery(n, r)
    BY <1>1, <1>2, OnOnlineStateChangedType
  <2> HIDE DEF r
  <2> QED
    BY <1>1, <2>1 DEF SameQuery
<1>4. CASE l \notin m.listeners
  <2>1. r.events[l] = m.events[l]
    <3>1. OthersKeep(n, n.listeners, r)
      BY <1>1, <1>2, OnOnlineStateChangedType
    <3> HIDE DEF r
    <3> QED
      BY <1>1, <1>4, <3>1 DEF OthersKeep
  <2> HIDE DEF r
  <2>2. Heeded(r, v, h, l)
    BY <1>3, <1>4, <2>1 DEF Heeded
  <2> QED
    BY <1>4, <2>2 DEF r, n, HandleOnlineStateChange
<1>5. CASE l \in m.listeners
  <2>1. /\ r.events[l] = IF Released(n, l, online) THEN Append(q, Told(FromInitialDocuments(shot)))
                         ELSE q
        /\ r.listener[l].raised = (m.listener[l].raised \/ Released(n, l, online))
        /\ r.listener[l].online = online
        /\ r.listener[l].had = m.listener[l].had
        /\ r.listener[l].snapshot = shot
    <3>1. EachHasOnline(n, n.listeners, online, r)
      BY <1>1, <1>2, OnOnlineStateChangedType
    <3> HIDE DEF r
    <3> QED
      BY <1>1, <1>5, <3>1 DEF EachHasOnline
  <2>2. /\ m.listener[l].had /\ shot.documents = v.docs /\ shot.from_cache = ~v.sync
    BY <1>5 DEF Informed
  <2>3. Released(n, l, online) <=>
           ~m.listener[l].raised /\ ShouldRaiseInitialEvent(l, shot, online)
    BY <1>1, <2>2 DEF Released
  <2>4. q \in Seq(UserEvents) /\ shot \in Snapshots
    BY DEF Managers, QueryListeners
  <2>5. Chain(l, q, h.documents) /\ UpToDate(m, v, h, l)
    BY <1>5 DEF Heeded
  <2> HIDE DEF r, shot
  <2>6. Informed(r, v, l)
    BY <1>3, <2>1, <2>2 DEF Informed
  <2>7. CASE Released(n, l, online)
    <3> DEFINE event == FromInitialDocuments(shot)
    <3>1. q = <<>> /\ h.documents = NoDocuments /\ ~h.failed
      BY <2>3, <2>5, <2>7 DEF UpToDate
    <3>2. /\ Known(q, h.documents, Len(q)) = NoDocuments
          /\ ErrorFree(q)
      BY <3>1, EmptySeq DEF Known, ErrorFree
    <3>3. /\ event \in Snapshots /\ event.documents = v.docs /\ event.from_cache = ~v.sync
          /\ Leads(l, NoDocuments, event)
      BY <2>2, <2>4, InitialType, InitialLeads
    <3> HIDE DEF event, q
    <3>4. r.events[l] = Append(q, Told(event)) /\ r.listener[l].raised
      BY <2>1, <2>7 DEF event
    <3>5. /\ r.events[l] # <<>>
          /\ Chain(l, r.events[l], h.documents)
          /\ ErrorFree(r.events[l])
          /\ Known(r.events[l], h.documents, Len(r.events[l])) = v.docs
          /\ LastFromCache(r.events[l], h.from_cache) = ~v.sync
      <4>1. /\ Append(q, Told(event)) # <<>>
            /\ Chain(l, Append(q, Told(event)), h.documents)
            /\ ErrorFree(Append(q, Told(event)))
            /\ Known(Append(q, Told(event)), h.documents, Len(Append(q, Told(event)))) = event.documents
        BY <2>4, <2>5, <3>2, <3>3, <3>4, ChainGrows
      <4>2. LastFromCache(Append(q, Told(event)), h.from_cache) = event.from_cache
        BY <2>4, <2>5, <3>2, <3>3, <3>4, LastTold
      <4> QED
        BY <2>4, <2>5, <3>2, <3>3, <3>4, <4>1, <4>2
    <3>6. Same(l, v.docs, v.docs)
      BY DEF Same
    <3>7. Heeded(r, v, h, l)
      BY <3>1, <3>4, <3>5, <3>6 DEF Heeded, UpToDate
    <3> QED
      BY <2>6, <3>7 DEF r, n, HandleOnlineStateChange
  <2>8. CASE ~Released(n, l, online)
    <3>1. r.events[l] = m.events[l] /\ r.listener[l].raised = m.listener[l].raised
      BY <2>1, <2>8 DEF Managers, QueryListeners
    <3>2. ~m.listener[l].raised => ~ShouldRaiseInitialEvent(l, r.listener[l].snapshot, r.online)
      BY <1>3, <2>1, <2>3, <2>8
    <3>3. Heeded(r, v, h, l)
      BY <2>5, <3>1, <3>2 DEF Heeded, UpToDate
    <3> QED
      BY <2>6, <3>3 DEF r, n, HandleOnlineStateChange
  <2> QED
    BY <2>7, <2>8
<1> QED
  BY <1>4, <1>5

LEMMA InformedOfOnline ==
    ASSUME NEW m \in Managers, NEW v, NEW online \in Online,
           NEW l \in m.listeners, Informed(m, v, l)
    PROVE  Informed(HandleOnlineStateChange(m, online), v, l)
<1> DEFINE n == [m EXCEPT !.online = online]
<1> SUFFICES ASSUME NEW r, r = OnOnlineStateChanged(n, n.listeners, online)
             PROVE  Informed(r, v, l)
  BY DEF HandleOnlineStateChange, Managers
<1>1. /\ n \in Managers /\ n.online = online /\ n.listeners = m.listeners
      /\ n.listener = m.listener /\ n.listeners \in SUBSET Listener
  BY DEF Managers
<1> HIDE DEF n
<1>2. SameQuery(n, r)
  BY <1>1, OnOnlineStateChangedType
<1>3. EachHasOnline(n, n.listeners, online, r)
  BY <1>1, OnOnlineStateChangedType
<1> QED
  BY <1>1, <1>2, <1>3 DEF SameQuery, EachHasOnline, Informed

-----------------------------------------------------------------------------
(* EventManager.                                                           *)

(* What a listener is owed is said of the listeners, their events and the  *)
(* online state only.                                                      *)
LEMMA OwedToListeners ==
    ASSUME NEW m, NEW r, NEW v, NEW h, NEW l,
           r.listeners = m.listeners, r.online = m.online,
           r.events = m.events, r.listener = m.listener
    PROVE  /\ Heeded(m, v, h, l) <=> Heeded(r, v, h, l)
           /\ Informed(m, v, l) <=> Informed(r, v, l)
  BY DEF Heeded, UpToDate, Informed

(* The listeners of the query are told of a view that a snapshot is raised *)
(* for.                                                                    *)
Kept(m, r) ==
    /\ r.following = m.following /\ r.listeners = m.listeners
    /\ OthersKeep(m, m.listeners, r)

LEMMA ViewTold ==
    ASSUME NEW m \in Managers, NEW v \in Views, NEW w \in Views, NEW first \in BOOLEAN,
           m.following, m.asserts, m.following <=> m.listeners # {},
           first \/ SnapshotRaised(v, w),
           NEW r, r = OnViewSnapshots(m, Snapshot(v, w, first))
    PROVE  /\ r \in Managers
           /\ Agreed(r, w)
           /\ Kept(m, r)
           /\ r.online = m.online
<1> DEFINE s == Snapshot(v, w, first)
           t == OnViewSnapshot(m, m.listeners, s)
<1>1. /\ s \in Snapshots /\ s.documents = w.docs /\ s.from_cache = ~w.sync
      /\ s.document_changes = DocumentChanges(v.docs, w.docs)
      /\ s.sync_state_changed = (first \/ v.sync # w.sync)
  BY SnapshotType
<1>2. m.listeners \in SUBSET Listener
  BY DEF Managers
<1>3. s.document_changes # {} \/ s.sync_state_changed
  <2>1. ASSUME v.docs # w.docs
        PROVE  DocumentChanges(v.docs, w.docs) # {}
    <3>1. v.docs \in Documents /\ w.docs \in Documents
      BY DEF Views
    <3>2. PICK d \in Doc : v.docs[d] # w.docs[d]
      BY <2>1, <3>1 DEF Documents
    <3>3. [key |-> d, type |-> Type(v.docs[d], w.docs[d]), doc |-> w.docs[d]]
             \in DocumentChanges(v.docs, w.docs)
      BY <3>2 DEF DocumentChanges
    <3> QED
      BY <3>3
  <2> HIDE DEF s
  <2>2. CASE v.docs # w.docs
    BY <1>1, <2>1, <2>2
  <2>3. CASE first \/ v.sync # w.sync
    BY <1>1, <2>3
  <2> QED
    BY <2>2, <2>3 DEF SnapshotRaised
<1>4. r = [t EXCEPT !.had = TRUE, !.snapshot = s]
  BY DEF OnViewSnapshots
<1> HIDE DEF s
<1>5. /\ t \in Managers /\ t.following = m.following /\ t.listeners = m.listeners
      /\ t.online = m.online /\ t.asserts
      /\ OthersKeep(m, m.listeners, t)
  <2>1. /\ t \in Managers /\ SameQuery(m, t)
        /\ t.asserts = (m.asserts /\ (s.document_changes # {} \/ s.sync_state_changed))
        /\ OthersKeep(m, m.listeners, t)
    <3>1. t = OnViewSnapshot(m, m.listeners, s)
      OBVIOUS
    <3> HIDE DEF t
    <3>2. t \in Managers
      BY <1>1, <1>2, <3>1, OnViewSnapshotType
    <3>5. SameQuery(m, t)
      BY <1>1, <1>2, <3>1, OnViewSnapshotType
    <3>3. t.asserts = (m.asserts /\ (s.document_changes # {} \/ s.sync_state_changed))
      BY <1>1, <1>2, <3>1, OnViewSnapshotType
    <3>4. OthersKeep(m, m.listeners, t)
      BY <1>1, <1>2, <3>1, OnViewSnapshotType
    <3> QED
      BY <3>2, <3>3, <3>4, <3>5
  <2> HIDE DEF t
  <2> QED
    BY <1>3, <2>1 DEF SameQuery
<1> HIDE DEF t
<1>6. /\ r \in Managers /\ r.following = t.following /\ r.listeners = t.listeners
      /\ r.online = t.online /\ r.asserts = t.asserts /\ r.had /\ r.snapshot = s
      /\ r.events = t.events /\ r.listener = t.listener
  BY <1>1, <1>4, <1>5 DEF Managers
<1>7. Agreed(r, w)
  BY <1>1, <1>3, <1>5, <1>6 DEF Agreed
<1> QED
  BY <1>5, <1>6, <1>7 DEF OthersKeep, Kept

LEMMA InformedAfterView ==
    ASSUME NEW m \in Managers, NEW v \in Views, NEW w \in Views, NEW first \in BOOLEAN,
           m.following, NEW l \in m.listeners, Informed(m, v, l),
           NEW r, r = OnViewSnapshots(m, Snapshot(v, w, first))
    PROVE  Informed(r, w, l)
<1> DEFINE s == Snapshot(v, w, first)
           t == OnViewSnapshot(m, m.listeners, s)
<1>1. r = [t EXCEPT !.had = TRUE, !.snapshot = s]
  BY DEF OnViewSnapshots
<1>2. Informed(t, w, l)
  BY InformedOfView
<1>3. s \in Snapshots /\ m.listeners \in SUBSET Listener
  BY SnapshotType DEF Managers
<1> HIDE DEF s
<1>4. t \in Managers
  BY <1>3, OnViewSnapshotType
<1> HIDE DEF t
<1>5. /\ r.listeners = t.listeners /\ r.online = t.online
      /\ r.events = t.events /\ r.listener = t.listener
  BY <1>1, <1>4 DEF Managers
<1> QED
  BY <1>2, <1>5, OwedToListeners

LEMMA OwedAfterView ==
    ASSUME NEW m \in Managers, NEW v \in Views, NEW w \in Views, NEW first \in BOOLEAN,
           m.following, NEW l \in Listener,
           l \in m.listeners => Informed(m, v, l),
           NEW h \in Hearings, Heeded(m, v, h, l),
           NEW r, r = OnViewSnapshots(m, Snapshot(v, w, first))
    PROVE  Heeded(r, w, h, l)
<1> DEFINE s == Snapshot(v, w, first)
           t == OnViewSnapshot(m, m.listeners, s)
<1>1. r = [t EXCEPT !.had = TRUE, !.snapshot = s]
  BY DEF OnViewSnapshots
<1>2. Heeded(t, w, h, l)
  BY HeardOfView
<1>3. s \in Snapshots /\ m.listeners \in SUBSET Listener
  BY SnapshotType DEF Managers
<1> HIDE DEF s
<1>4. t \in Managers
  BY <1>3, OnViewSnapshotType
<1> HIDE DEF t
<1>5. /\ r.listeners = t.listeners /\ r.online = t.online
      /\ r.events = t.events /\ r.listener = t.listener
  BY <1>1, <1>4 DEF Managers
<1> QED
  BY <1>2, <1>5, OwedToListeners

LEMMA OnlineTold ==
    ASSUME NEW m \in Managers, NEW v \in Views, NEW online \in Online, Agreed(m, v),
           NEW r, r = HandleOnlineStateChange(m, online)
    PROVE  r \in Managers /\ Agreed(r, v) /\ Kept(m, r)
<1> DEFINE n == [m EXCEPT !.online = online]
<1>1. /\ n \in Managers /\ n.listeners = m.listeners /\ n.following = m.following
      /\ n.had = m.had /\ n.snapshot = m.snapshot /\ n.asserts = m.asserts
      /\ n.events = m.events /\ n.listener = m.listener
  BY DEF Managers
<1>2. r = OnOnlineStateChanged(n, m.listeners, online) /\ m.listeners \in SUBSET Listener
  BY DEF HandleOnlineStateChange, Managers
<1> HIDE DEF n
<1>3. r \in Managers
  BY <1>1, <1>2, OnOnlineStateChangedType
<1>4. SameQuery(n, r)
  BY <1>1, <1>2, OnOnlineStateChangedType
<1>5. r.asserts = n.asserts
  BY <1>1, <1>2, OnOnlineStateChangedType
<1>6. OthersKeep(n, m.listeners, r)
  BY <1>1, <1>2, OnOnlineStateChangedType
<1> QED
  BY <1>1, <1>3, <1>4, <1>5, <1>6 DEF Agreed, SameQuery, OthersKeep, Kept

(* Tasks, and listeners that nothing has been done for, are left alone by  *)
(* what happens to the others.                                             *)
LEMMA ScheduleKept ==
    ASSUME \A l \in Listener : Scheduled(l), UNCHANGED <<worker, stage, heard>>,
           manager'.listeners \subseteq manager.listeners,
           OthersKeep(manager, manager.listeners, manager')
    PROVE  \A l \in Listener : Scheduled(l)'
<1> SUFFICES ASSUME NEW l \in Listener
             PROVE  Scheduled(l)'
  OBVIOUS
<1>1. Fresh(l) => Fresh(l)'
  BY DEF Fresh, OthersKeep
<1>2. \A i : (IsAdd(i, l)' <=> IsAdd(i, l)) /\ (IsRemove(i, l)' <=> IsRemove(i, l))
  BY DEF IsAdd, IsRemove
<1> QED
  BY <1>1, <1>2 DEF Scheduled

(* The view changes.                                                       *)
LEMMA ViewChangesKeeps ==
    ASSUME IInv, NEW news \in News, NEW change \in TargetChanges, ViewChanges(news, change)
    PROVE  IInv'
<1> DEFINE v == engine.view
           w == ApplyChanges(v, ComputeDocumentChanges(v, news), change)
<1>1. v \in Views /\ engine.followed /\ manager.following /\ manager \in Managers
      /\ Agreed(manager, v) /\ heard \in [Listener -> Hearings]
  BY DEF IInv, Types, ViewChanges
<1>2. w \in Views
  BY <1>1, NewsShown, ApplyChangesType
<1>3. /\ SnapshotRaised(v, w)
      /\ engine' = [engine EXCEPT !.view = w]
      /\ manager' = OnViewSnapshots(manager, Snapshot(v, w, FALSE))
      /\ changes' = changes + 1 /\ changes < MaxChanges
      /\ UNCHANGED <<worker, stage, heard>>
  BY DEF ViewChanges
<1> HIDE DEF w
<1>4. /\ engine' \in [followed : BOOLEAN, view : Views]
      /\ engine'.view = w /\ engine'.followed = engine.followed
  BY <1>2, <1>3 DEF IInv, Types
<1>5. manager' \in Managers /\ Agreed(manager', w) /\ Kept(manager, manager')
  <2>1. manager.asserts /\ (manager.following <=> manager.listeners # {})
    BY <1>1 DEF Agreed
  <2> HIDE DEF v
  <2>2. manager' = OnViewSnapshots(manager, Snapshot(v, w, FALSE)) /\ manager.following
    BY <1>1, <1>3
  <2>3. manager' \in Managers
    BY <1>1, <1>2, <1>3, <2>1, <2>2, ViewTold
  <2>4. Agreed(manager', w)
    BY <1>1, <1>2, <1>3, <2>1, <2>2, ViewTold
  <2>5. Kept(manager, manager')
    BY <1>1, <1>2, <1>3, <2>1, <2>2, ViewTold
  <2> QED
    BY <2>3, <2>4, <2>5
<1>6. Types'
  <2>1. changes' \in 0..MaxChanges
    BY <1>3, ValueAssumption DEF IInv, Types
  <2> QED
    BY <1>3, <1>4, <1>5, <2>1 DEF IInv, Types
<1>7. \A l \in Listener : Scheduled(l)'
  BY <1>3, <1>5, ScheduleKept DEF IInv, Kept
<1>8. ASSUME NEW l \in Listener
      PROVE  /\ l \in manager.listeners => Informed(manager', w, l)
             /\ stage[l] # "removed" => Heeded(manager', w, heard[l], l)
  <2>1. l \in manager.listeners => Informed(manager, v, l)
    BY DEF IInv
  <2>2. stage[l] # "removed" => Heeded(manager, v, heard[l], l)
    BY DEF IInv
  <2> HIDE DEF v
  <2>3. l \in manager.listeners => Informed(manager', w, l)
    BY <1>1, <1>2, <1>3, <2>1, InformedAfterView
  <2>4. heard[l] \in Hearings
    BY <1>1
  <2>5. stage[l] # "removed" => Heeded(manager', w, heard[l], l)
    BY <1>1, <1>2, <1>3, <2>1, <2>2, <2>4, OwedAfterView
  <2> QED
    BY <2>3, <2>5
<1>9. ReplayIsDocuments'
  BY <1>3 DEF IInv, ReplayIsDocuments
<1>10. /\ manager'.listeners = manager.listeners /\ manager'.following
       /\ manager'.listeners \subseteq Listener
  BY <1>1, <1>5 DEF Managers, Kept
<1> QED
  BY <1>1, <1>3, <1>4, <1>5, <1>6, <1>7, <1>8, <1>9, <1>10 DEF IInv

(* What listeners are owed is said of what a view shows, and whether it is *)
(* of the server.                                                          *)
LEMMA ViewsAlike ==
    ASSUME NEW m, NEW v, NEW w, NEW h, NEW l, v.docs = w.docs, v.sync = w.sync
    PROVE  /\ Agreed(m, v) => Agreed(m, w)
           /\ Informed(m, v, l) => Informed(m, w, l)
           /\ Heeded(m, v, h, l) => Heeded(m, w, h, l)
  BY DEF Agreed, Informed, Heeded, UpToDate

(* The online state changes, and with it the view.                         *)
LEMMA OnlineStateChangesKeeps ==
    ASSUME IInv, NEW online \in Online, OnlineStateChanges(online)
    PROVE  IInv'
<1> DEFINE m == manager
           v == engine.view
           w == IF online = "offline" THEN ApplyOnlineStateChange(v) ELSE v
           raised == engine.followed /\ SnapshotRaised(v, w)
           t == IF raised THEN OnViewSnapshots(m, Snapshot(v, w, FALSE)) ELSE m
           x == engine'.view
<1>1. /\ engine' = IF engine.followed THEN [engine EXCEPT !.view = w] ELSE engine
      /\ manager' = HandleOnlineStateChange(t, online)
      /\ changes' = changes + 1 /\ changes < MaxChanges
      /\ UNCHANGED <<worker, stage, heard>>
  BY DEF OnlineStateChanges
<1>2. /\ m \in Managers /\ v \in Views /\ heard \in [Listener -> Hearings]
      /\ engine \in [followed : BOOLEAN, view : Views] /\ engine = [followed |-> engine.followed, view |-> v]
      /\ m.following <=> engine.followed
      /\ Agreed(m, v) /\ m.asserts /\ (m.following <=> m.listeners # {})
      /\ m.listeners \subseteq Listener
  BY DEF IInv, Types, Agreed, Managers
<1>3. \A l \in Listener : /\ l \in m.listeners => Informed(m, v, l)
                          /\ stage[l] # "removed" => Heeded(m, v, heard[l], l)
  BY DEF IInv
<1>4. w \in Views
  BY <1>2, OfflineType
<1> HIDE DEF m, v, w
<1>5. /\ engine' \in [followed : BOOLEAN, view : Views] /\ engine'.followed = engine.followed
      /\ x \in Views /\ x = IF engine.followed THEN w ELSE v
  BY <1>1, <1>2, <1>4
<1> HIDE DEF x
<1>6. /\ t \in Managers
      /\ Agreed(t, x)
      /\ Kept(m, t)
      /\ \A l \in Listener : /\ l \in m.listeners => Informed(t, x, l)
                             /\ stage[l] # "removed" => Heeded(t, x, heard[l], l)
  <2>1. CASE raised
    <3>1. t = OnViewSnapshots(m, Snapshot(v, w, FALSE)) /\ x = w /\ m.following /\ SnapshotRaised(v, w)
      BY <1>2, <1>5, <2>1
    <3> HIDE DEF t
    <3>2. t \in Managers
      BY <1>2, <1>4, <3>1, ViewTold
    <3>3. Agreed(t, w)
      BY <1>2, <1>4, <3>1, ViewTold
    <3>4. Kept(m, t)
      BY <1>2, <1>4, <3>1, ViewTold
    <3>5. ASSUME NEW l \in Listener
          PROVE  /\ l \in m.listeners => Informed(t, w, l)
                 /\ stage[l] # "removed" => Heeded(t, w, heard[l], l)
      <4>1. l \in m.listeners => Informed(m, v, l)
        BY <1>3
      <4>2. l \in m.listeners => Informed(t, w, l)
        BY <1>2, <1>4, <3>1, <4>1, InformedAfterView
      <4>3. heard[l] \in Hearings
        BY <1>2
      <4>4. Heeded(m, v, heard[l], l) => Heeded(t, w, heard[l], l)
        BY <1>2, <1>4, <3>1, <4>1, <4>3, OwedAfterView
      <4> QED
        BY <1>3, <4>2, <4>4
    <3> QED
      BY <3>1, <3>2, <3>3, <3>4, <3>5
  <2>2. CASE ~raised
    <3>1. v.docs = x.docs /\ v.sync = x.sync /\ t = m
      BY <1>5, <2>2 DEF SnapshotRaised
    <3>2. Kept(m, m)
      BY DEF Kept, OthersKeep
    <3>3. Agreed(m, x)
      BY <1>2, <3>1, ViewsAlike
    <3>4. ASSUME NEW l \in Listener
          PROVE  /\ l \in m.listeners => Informed(m, x, l)
                 /\ stage[l] # "removed" => Heeded(m, x, heard[l], l)
      BY <1>3, <3>1, ViewsAlike
    <3> HIDE DEF t
    <3> QED
      BY <1>2, <3>1, <3>2, <3>3, <3>4
  <2> QED
    BY <2>1, <2>2
<1> HIDE DEF t
<1>7. manager' \in Managers
  BY <1>1, <1>5, <1>6, OnlineTold
<1>8. Agreed(manager', x)
  BY <1>1, <1>5, <1>6, OnlineTold
<1>9. Kept(t, manager')
  BY <1>1, <1>5, <1>6, OnlineTold
<1>10. Kept(m, manager')
  BY <1>6, <1>9 DEF Kept, OthersKeep
<1>11. /\ manager'.following = m.following /\ manager'.listeners = m.listeners
       /\ t.listeners = m.listeners
  BY <1>6, <1>10 DEF Kept
<1>12. ASSUME NEW l \in Listener
       PROVE  /\ l \in m.listeners => Informed(manager', x, l)
              /\ stage[l] # "removed" => Heeded(manager', x, heard[l], l)
  <2>1. l \in t.listeners => Informed(t, x, l)
    BY <1>6, <1>11
  <2>2. l \in m.listeners => Informed(manager', x, l)
    BY <1>1, <1>6, <1>11, <2>1, InformedOfOnline
  <2>3. stage[l] # "removed" => Heeded(manager', x, heard[l], l)
    BY <1>1, <1>2, <1>5, <1>6, <2>1, HeardOfOnline
  <2> QED
    BY <2>2, <2>3
<1>13. Types'
  <2>1. changes' \in 0..MaxChanges
    BY <1>1, ValueAssumption DEF IInv, Types
  <2> QED
    BY <1>1, <1>5, <1>7, <2>1 DEF IInv, Types
<1>14. \A l \in Listener : Scheduled(l)'
  <2>1. manager'.listeners \subseteq manager.listeners /\ OthersKeep(manager, manager.listeners, manager')
    BY <1>10 DEF Kept, m
  <2> QED
    BY <1>1, <2>1, ScheduleKept DEF IInv
<1>15. ReplayIsDocuments'
  BY <1>1 DEF IInv, ReplayIsDocuments
<1> QED
  BY <1>1, <1>2, <1>5, <1>8, <1>11, <1>12, <1>13, <1>14, <1>15 DEF IInv, x

(* The query fails: its listeners are told last of all.                    *)
LEMMA HandleRejectedListenKeeps ==
    ASSUME IInv, HandleRejectedListen
    PROVE  IInv'
<1> DEFINE m == manager
           v == engine.view
           gone == Forgotten(m)
           events == Events(m.events, m.listeners, [l \in Listener |-> Failed])
<1>1. /\ engine.followed /\ m.following
      /\ engine' = [engine EXCEPT !.followed = FALSE]
      /\ manager' = [gone EXCEPT !.events = events]
      /\ changes' = changes + 1 /\ changes < MaxChanges
      /\ UNCHANGED <<worker, stage, heard>>
  <2>1. gone.events = m.events
    BY DEF IInv, Types, Managers, Forgotten
  <2> QED
    BY <2>1 DEF HandleRejectedListen, OnError, IInv
<1>2. /\ m \in Managers /\ v \in Views /\ heard \in [Listener -> Hearings]
      /\ engine' \in [followed : BOOLEAN, view : Views] /\ engine'.view = v /\ ~engine'.followed
      /\ m.asserts
  BY <1>1 DEF IInv, Types, Agreed
<1>3. /\ gone \in Managers /\ ~gone.following /\ gone.listeners = {} /\ ~gone.had
      /\ gone.listener = m.listener /\ gone.online = m.online /\ gone.asserts = m.asserts
  BY <1>2, NoSnapshotType DEF Forgotten, Managers
<1> HIDE DEF gone
<1>4. /\ events \in [Listener -> Seq(UserEvents)]
      /\ \A l \in Listener : /\ l \in m.listeners => events[l] = Append(m.events[l], Failed)
                             /\ l \notin m.listeners => events[l] = m.events[l]
  <2> DEFINE event == [l \in Listener |-> Failed]
  <2>1. \A l \in Listener : event[l] \in UserEvents /\ event[l] = Failed
    BY NoSnapshotType DEF Failed, UserEvents
  <2>2. m.events \in [Listener -> Seq(UserEvents)]
    BY <1>2 DEF Managers
  <2>3. events = Events(m.events, m.listeners, event)
    OBVIOUS
  <2> HIDE DEF event, events
  <2>4. events \in [Listener -> Seq(UserEvents)]
    BY <2>1, <2>2, <2>3, EventsType
  <2>5. ASSUME NEW l \in Listener, l \in m.listeners
        PROVE  events[l] = Append(m.events[l], Failed)
    BY <2>1, <2>3, <2>5 DEF Events
  <2>6. ASSUME NEW l \in Listener, l \notin m.listeners
        PROVE  events[l] = m.events[l]
    BY <2>1, <2>3, <2>6 DEF Events
  <2> QED
    BY <2>4, <2>5, <2>6
<1> HIDE DEF events
<1>5. /\ manager' \in Managers /\ ~manager'.following /\ manager'.listeners = {} /\ ~manager'.had
      /\ manager'.listener = m.listener /\ manager'.online = m.online /\ manager'.asserts
      /\ manager'.events = events
  BY <1>1, <1>2, <1>3, <1>4 DEF Managers
<1>6. Agreed(manager', v)
  BY <1>5 DEF Agreed
<1>7. ASSUME NEW l \in Listener, stage[l] # "removed"
      PROVE  Heeded(manager', v, heard[l], l)
  <2>1. Heeded(m, v, heard[l], l)
    BY <1>7 DEF IInv
  <2>2. CASE l \in m.listeners
    <3>1. Chain(l, m.events[l], heard[l].documents) /\ ErrorFree(m.events[l]) /\ ~heard[l].failed
      BY <2>1, <2>2 DEF Heeded, UpToDate
    <3>2. m.events[l] \in Seq(UserEvents)
      BY <1>2 DEF Managers
    <3>3. Chain(l, Append(m.events[l], Failed), heard[l].documents)
      BY <3>1, <3>2, ChainEnds
    <3> QED
      BY <1>4, <1>5, <2>2, <3>1, <3>3 DEF Heeded
  <2>3. CASE l \notin m.listeners
    BY <1>4, <1>5, <2>1, <2>3 DEF Heeded
  <2> QED
    BY <2>2, <2>3
<1>8. Types'
  <2>1. changes' \in 0..MaxChanges
    BY <1>1, ValueAssumption DEF IInv, Types
  <2> QED
    BY <1>1, <1>2, <1>5, <2>1 DEF IInv, Types
<1>9. \A l \in Listener : Scheduled(l)'
  <2>1. manager'.listeners \subseteq manager.listeners /\ OthersKeep(manager, manager.listeners, manager')
    BY <1>4, <1>5 DEF OthersKeep
  <2> QED
    BY <1>1, <2>1, ScheduleKept DEF IInv
<1>10. ReplayIsDocuments'
  BY <1>1 DEF IInv, ReplayIsDocuments
<1> QED
  BY <1>1, <1>2, <1>5, <1>6, <1>7, <1>8, <1>9, <1>10 DEF IInv

-----------------------------------------------------------------------------
(* The worker queue.                                                       *)

(* A task that has been run is gone, and the others keep their order.      *)
LEMMA TasksLeft ==
    ASSUME worker \in Seq(Tasks), worker # <<>>, worker' = Tail(worker)
    PROVE  /\ worker' \in Seq(Tasks)
           /\ 1 \in DOMAIN worker /\ Head(worker) = worker[1] /\ worker[1] \in Tasks
           /\ \A i \in DOMAIN worker : i \in Nat
           /\ \A i \in DOMAIN worker' : i \in Nat /\ i + 1 \in DOMAIN worker /\ worker'[i] = worker[i + 1]
           /\ \A j \in DOMAIN worker : j # 1 => j - 1 \in DOMAIN worker' /\ worker'[j - 1] = worker[j]
<1>1. /\ worker' \in Seq(Tasks) /\ Len(worker') = Len(worker) - 1
      /\ \A i \in 1..Len(worker') : worker'[i] = worker[i + 1]
      /\ Head(worker) = worker[1]
  BY HeadTailProperties
<1>2. /\ DOMAIN worker = 1..Len(worker) /\ Len(worker) \in Nat \ {0}
      /\ DOMAIN worker' = 1..Len(worker')
  BY <1>1, LenProperties, EmptySeq
<1>3. worker[1] \in Tasks
  BY <1>2, ElementOfSeq
<1> QED
  BY <1>1, <1>2, <1>3

LEMMA TaskDone ==
    ASSUME worker \in Seq(Tasks), worker # <<>>, worker' = Tail(worker),
           UNCHANGED <<stage, heard>>,
           \A x \in Listener : Scheduled(x),
           \A x \in Listener \ {Head(worker).listener} :
               /\ Fresh(x) => Fresh(x)'
               /\ x \in manager'.listeners => x \in manager.listeners,
           Head(worker).task = "remove" => Head(worker).listener \notin manager'.listeners
    PROVE  \A x \in Listener : Scheduled(x)'
<1> DEFINE l == Head(worker).listener
<1>1. /\ 1 \in DOMAIN worker /\ Head(worker) = worker[1] /\ worker[1] \in Tasks
      /\ \A i \in DOMAIN worker : i \in Nat
      /\ \A i \in DOMAIN worker' : i \in Nat /\ i + 1 \in DOMAIN worker /\ worker'[i] = worker[i + 1]
      /\ \A j \in DOMAIN worker : j # 1 => j - 1 \in DOMAIN worker' /\ worker'[j - 1] = worker[j]
  BY TasksLeft
<1>2. \A x, i : i \in DOMAIN worker' =>
          /\ IsAdd(i, x)' <=> IsAdd(i + 1, x)
          /\ IsRemove(i, x)' <=> IsRemove(i + 1, x)
  BY <1>1 DEF IsAdd, IsRemove
<1>3. \A x, j : j \in DOMAIN worker /\ j # 1 /\ IsRemove(j, x) =>
          j - 1 \in DOMAIN worker' /\ IsRemove(j - 1, x)'
  BY <1>1 DEF IsRemove
<1>4. IsAdd(1, l) \/ IsRemove(1, l)
  BY <1>1 DEF IsAdd, IsRemove, Tasks
<1>5. l \in Listener
  BY <1>1 DEF Tasks
<1> SUFFICES ASSUME NEW x \in Listener
             PROVE  Scheduled(x)'
  OBVIOUS
<1>6. /\ \A i, j \in DOMAIN worker : IsAdd(i, x) /\ IsAdd(j, x) => i = j
      /\ \A i, j \in DOMAIN worker : IsAdd(i, x) /\ IsRemove(j, x) => i < j
      /\ \A i \in DOMAIN worker : IsAdd(i, x) => Fresh(x)
      /\ \A i \in DOMAIN worker : IsRemove(i, x) => stage[x] = "removed"
      /\ stage[x] = "new" => Fresh(x) /\ \A i \in DOMAIN worker : worker[i].listener # x
      /\ stage[x] = "removed" /\ (x \in manager.listeners \/ \E i \in DOMAIN worker : IsAdd(i, x)) =>
             \E i \in DOMAIN worker : IsRemove(i, x)
  BY DEF Scheduled
<1>7. ASSUME NEW i \in DOMAIN worker', NEW j \in DOMAIN worker'
      PROVE  /\ IsAdd(i, x)' /\ IsAdd(j, x)' => i = j
             /\ IsAdd(i, x)' /\ IsRemove(j, x)' => i < j
  <2>1. i \in Nat /\ j \in Nat /\ i + 1 \in DOMAIN worker /\ j + 1 \in DOMAIN worker
    BY <1>1
  <2>2. /\ IsAdd(i, x)' /\ IsAdd(j, x)' => i + 1 = j + 1
        /\ IsAdd(i, x)' /\ IsRemove(j, x)' => i + 1 < j + 1
    BY <1>2, <1>6, <2>1
  <2> QED
    BY <2>1, <2>2
<1>8. \A i \in DOMAIN worker' : IsRemove(i, x)' => stage'[x] = "removed"
  BY <1>1, <1>2, <1>6
<1>9. CASE x # l
  <2>1. \A i \in DOMAIN worker' : IsAdd(i, x)' => Fresh(x)'
    BY <1>1, <1>2, <1>6, <1>9
  <2>2. stage'[x] = "new" => Fresh(x)' /\ \A i \in DOMAIN worker' : worker'[i].listener # x
    BY <1>1, <1>6, <1>9
  <2>3. ASSUME stage'[x] = "removed",
               x \in manager'.listeners \/ \E i \in DOMAIN worker' : IsAdd(i, x)'
        PROVE  \E i \in DOMAIN worker' : IsRemove(i, x)'
    <3>1. x \in manager.listeners \/ \E i \in DOMAIN worker : IsAdd(i, x)
      BY <1>1, <1>2, <1>9, <2>3
    <3>2. PICK j \in DOMAIN worker : IsRemove(j, x)
      BY <1>6, <2>3, <3>1
    <3>3. j # 1
      BY <1>1, <1>9, <3>2 DEF IsRemove
    <3> QED
      BY <1>3, <3>2, <3>3
  <2> QED
    BY <1>7, <1>8, <2>1, <2>2, <2>3 DEF Scheduled
<1>10. CASE x = l
  <2>1. \A i \in DOMAIN worker' : ~IsAdd(i, x)'
    <3> TAKE i \in DOMAIN worker'
    <3>1. i \in Nat /\ i + 1 \in DOMAIN worker /\ 1 \in DOMAIN worker
      BY <1>1
    <3>2. IsAdd(i + 1, x) => i + 1 = 1 \/ i + 1 < 1
      BY <1>4, <1>6, <1>10, <3>1
    <3> QED
      BY <1>2, <3>1, <3>2
  <2>2. stage[x] # "new"
    BY <1>1, <1>6, <1>10
  <2>3. ASSUME stage'[x] = "removed", x \in manager'.listeners
        PROVE  \E i \in DOMAIN worker' : IsRemove(i, x)'
    <3>1. IsAdd(1, x) /\ ~IsRemove(1, x)
      BY <1>1, <1>4, <1>10, <2>3 DEF IsRemove, IsAdd
    <3>2. PICK j \in DOMAIN worker : IsRemove(j, x)
      BY <1>1, <1>6, <2>3, <3>1
    <3>3. j # 1
      BY <3>1, <3>2
    <3> QED
      BY <1>3, <3>2, <3>3
  <2> QED
    BY <1>7, <1>8, <2>1, <2>2, <2>3 DEF Scheduled
<1> QED
  BY <1>9, <1>10

(* What the others are owed does not change with a listener added or       *)
(* removed.                                                                *)
LEMMA OthersOwed ==
    ASSUME NEW m, NEW r, NEW v, NEW w, NEW h, NEW x,
           r.events[x] = m.events[x], r.listener[x] = m.listener[x], r.online = m.online,
           x \in r.listeners => x \in m.listeners /\ v = w
    PROVE  /\ Heeded(m, v, h, x) => Heeded(r, w, h, x)
           /\ x \in r.listeners => (Informed(m, v, x) => Informed(r, w, x))
  BY DEF Heeded, UpToDate, Informed

(* The removal of a listener.                                              *)
LEMMA ErasedType ==
    ASSUME NEW m \in Managers, NEW v, NEW l \in Listener, Agreed(m, v),
           NEW r, r = Erased(m, l)
    PROVE  /\ r \in Managers
           /\ Agreed(r, v)
           /\ r.listeners = m.listeners \ {l}
           /\ r.events = m.events /\ r.listener = m.listener
           /\ r.online = m.online
           /\ r.following => m.following
<1> DEFINE left == m.listeners \ {l}
<1>1. CASE left = {}
  <2>1. r = Forgotten(m)
    BY <1>1 DEF Erased
  <2> QED
    BY <1>1, <2>1, NoSnapshotType DEF Forgotten, Managers, Agreed
<1>2. CASE left # {}
  <2>1. r = [m EXCEPT !.listeners = left]
    BY <1>2 DEF Erased
  <2> QED
    BY <1>2, <2>1 DEF Managers, Agreed
<1> QED
  BY <1>1, <1>2

LEMMA RemoveQueryListenerKeeps ==
    ASSUME IInv, RemoveQueryListener
    PROVE  IInv'
<1> DEFINE m == manager
           v == engine.view
           l == Head(worker).listener
           r == Erased(m, l)
           last == m.following /\ ~r.following
<1>1. /\ worker # <<>> /\ Head(worker).task = "remove"
      /\ worker' = Tail(worker) /\ UNCHANGED <<stage, heard, changes>>
      /\ manager' = IF last THEN HardAssert(r, engine.followed) ELSE r
      /\ engine' = IF last THEN [engine EXCEPT !.followed = FALSE] ELSE engine
  BY DEF RemoveQueryListener
<1>2. /\ m \in Managers /\ worker \in Seq(Tasks) /\ Agreed(m, v)
      /\ engine \in [followed : BOOLEAN, view : Views] /\ (engine.followed <=> m.following)
      /\ m.listeners \subseteq Listener
  BY DEF IInv, Types, Managers
<1>3. l \in Listener /\ worker' \in Seq(Tasks)
  BY <1>1, <1>2, TasksLeft DEF Tasks
<1>4. /\ r \in Managers /\ Agreed(r, v) /\ r.listeners = m.listeners \ {l}
      /\ r.events = m.events /\ r.listener = m.listener /\ r.online = m.online
      /\ r.following => m.following
  <2>1. r = Erased(m, l)
    OBVIOUS
  <2> HIDE DEF r, m, v, l
  <2>2. r \in Managers
    BY <1>2, <1>3, <2>1, ErasedType
  <2>3. Agreed(r, v)
    BY <1>2, <1>3, <2>1, ErasedType
  <2>4. r.listeners = m.listeners \ {l}
    BY <1>2, <2>1 DEF Erased, Forgotten, Managers
  <2>5. r.events = m.events
    BY <1>2, <1>3, <2>1, ErasedType
  <2>6. r.listener = m.listener
    BY <1>2, <1>3, <2>1, ErasedType
  <2>7. r.online = m.online
    BY <1>2, <1>3, <2>1, ErasedType
  <2>8. r.following => m.following
    BY <1>2, <1>3, <2>1, ErasedType
  <2> QED
    BY <2>2, <2>3, <2>4, <2>5, <2>6, <2>7, <2>8
<1> HIDE DEF r
<1>5. /\ manager' = IF last THEN [r EXCEPT !.asserts = r.asserts /\ engine.followed] ELSE r
      /\ r.asserts
  BY <1>1, <1>4 DEF HardAssert, Agreed
<1>6. /\ manager' \in Managers /\ Agreed(manager', v) /\ manager'.listeners = m.listeners \ {l}
      /\ manager'.events = m.events /\ manager'.listener = m.listener
      /\ manager'.online = m.online /\ manager'.following = r.following
  <2>1. CASE last
    BY <1>2, <1>4, <1>5, <2>1 DEF Managers, Agreed
  <2>2. CASE ~last
    BY <1>4, <1>5, <2>2
  <2> QED
    BY <2>1, <2>2
<1>7. /\ engine' \in [followed : BOOLEAN, view : Views] /\ engine'.view = v
      /\ engine'.followed <=> manager'.following
  BY <1>1, <1>2, <1>4, <1>6
<1>8. ASSUME NEW x \in Listener
      PROVE  /\ x \in manager'.listeners => Informed(manager', v, x)
             /\ stage[x] # "removed" => Heeded(manager', v, heard[x], x)
  <2>1. x \in m.listeners => Informed(m, v, x)
    BY DEF IInv
  <2>2. stage[x] # "removed" => Heeded(m, v, heard[x], x)
    BY DEF IInv
  <2> HIDE DEF v, m
  <2> QED
    BY <1>6, <2>1, <2>2, OthersOwed
<1>9. Types'
  BY <1>1, <1>3, <1>6, <1>7 DEF IInv, Types
<1>10. \A x \in Listener : Scheduled(x)'
  <2>1. \A x \in Listener : Fresh(x) => Fresh(x)'
    BY <1>1, <1>6 DEF Fresh
  <2> QED
    BY <1>1, <1>2, <1>6, <2>1, TaskDone DEF IInv
<1>11. ReplayIsDocuments'
  BY <1>1 DEF IInv, ReplayIsDocuments
<1> QED
  BY <1>1, <1>2, <1>6, <1>7, <1>8, <1>9, <1>10, <1>11 DEF IInv

(* A listener is added, that nothing has been done for.                    *)
Joined(m, l, r) ==
    /\ r.following /\ r.had = m.had /\ r.snapshot = m.snapshot
    /\ r.online = m.online /\ r.asserts = m.asserts /\ r.events = m.events
    /\ OthersKeep(m, {l}, r)
    /\ ~r.listener[l].raised /\ r.listener[l].online = m.online

LEMMA AddedType ==
    ASSUME NEW m \in Managers, NEW l \in Listener, m.listener[l] = NewListener,
           NEW r, r = Added(m, l)
    PROVE  /\ r \in Managers
           /\ Joined(m, l, r)
           /\ r.listeners = m.listeners \union {l}
<1> DEFINE n == [m EXCEPT !.following = TRUE, !.listeners = m.listeners \union {l}]
           t == OnOnlineStateChanged(n, {l}, m.online)
           same == t.events = m.events
<1>1. /\ n \in Managers /\ n.following /\ n.listeners = m.listeners \union {l}
      /\ n.had = m.had /\ n.snapshot = m.snapshot /\ n.online = m.online
      /\ n.events = m.events /\ n.listener = m.listener /\ n.asserts = m.asserts
  BY DEF Managers
<1>2. r = HardAssert(t, same)
  BY <1>1 DEF Added
<1>3. t = OnOnlineStateChanged(n, {l}, m.online) /\ {l} \in SUBSET Listener /\ m.online \in Online
  BY DEF Managers
<1> HIDE DEF n, t
<1>4. t \in Managers
  BY <1>1, <1>3, OnOnlineStateChangedType
<1>5. SameQuery(n, t)
  BY <1>1, <1>3, OnOnlineStateChangedType
<1>6. t.asserts = n.asserts
  BY <1>1, <1>3, OnOnlineStateChangedType
<1>7. OthersKeep(n, {l}, t)
  BY <1>1, <1>3, OnOnlineStateChangedType
<1>8. EachHasOnline(n, {l}, m.online, t)
  BY <1>1, <1>3, OnOnlineStateChangedType
<1>9. /\ t.events[l] = m.events[l] /\ ~t.listener[l].raised
      /\ t.listener[l].online = m.online
  <2>1. ~Released(n, l, m.online) /\ ~n.listener[l].raised
    BY <1>1 DEF Released, NewListener
  <2> QED
    BY <1>1, <1>8, <2>1 DEF EachHasOnline
<1>10. same
  <2>1. \A x \in Listener : t.events[x] = m.events[x]
    BY <1>1, <1>7, <1>9 DEF OthersKeep
  <2>2. t.events \in [Listener -> Seq(UserEvents)] /\ m.events \in [Listener -> Seq(UserEvents)]
    BY <1>4 DEF Managers
  <2> QED
    BY <2>1, <2>2
<1>11. r = [t EXCEPT !.asserts = t.asserts /\ same]
  BY <1>2, <1>4 DEF HardAssert, Managers
<1>12. /\ r \in Managers /\ r.following = t.following /\ r.listeners = t.listeners
       /\ r.had = t.had /\ r.snapshot = t.snapshot /\ r.online = t.online
       /\ r.asserts = t.asserts /\ r.events = t.events /\ r.listener = t.listener
  BY <1>4, <1>10, <1>11 DEF Managers
<1>13. Joined(m, l, r)
  BY <1>1, <1>5, <1>6, <1>7, <1>9, <1>10, <1>12 DEF SameQuery, OthersKeep, Joined
<1> QED
  BY <1>1, <1>5, <1>12, <1>13 DEF SameQuery

(* What is to be shown of a listener added: it knows what the view shows,  *)
(* and has been told or waits; the others are left alone.                  *)
Welcomed(m, r, v, l) ==
    /\ r \in Managers /\ Agreed(r, v) /\ r.following
    /\ r.listeners = m.listeners \union {l}
    /\ r.online = m.online
    /\ OthersKeep(m, {l}, r)
    /\ Informed(r, v, l)
    /\ Heeded(r, v, NothingHeard, l)

(* It is not the first one: it gets the snapshot of the query.             *)
LEMMA NextListener ==
    ASSUME NEW m \in Managers, NEW v \in Views, NEW l \in Listener,
           Agreed(m, v), m.following, l \notin m.listeners,
           m.listener[l] = NewListener, m.events[l] = <<>>,
           NEW n, n = Added(m, l), NEW r, r = OnViewSnapshot(n, {l}, n.snapshot)
    PROVE  n.had /\ Welcomed(m, r, v, l)
<1> DEFINE s == n.snapshot
<1>1. n \in Managers
  BY AddedType
<1>2. Joined(m, l, n)
  BY AddedType
<1>3. n.listeners = m.listeners \union {l}
  BY DEF Added, OnOnlineStateChanged, HardAssert, Managers
<1>4. /\ n.had /\ s \in Snapshots /\ s.documents = v.docs /\ s.from_cache = ~v.sync
      /\ s.document_changes # {} \/ s.sync_state_changed
  BY <1>1, <1>2 DEF Joined, Agreed, Managers
<1>5. {l} \in SUBSET Listener /\ l \in {l} /\ r = OnViewSnapshot(n, {l}, s)
  OBVIOUS
<1> HIDE DEF s
<1>6. r \in Managers
  BY <1>1, <1>4, <1>5, OnViewSnapshotType
<1>7. SameQuery(n, r)
  BY <1>1, <1>4, <1>5, OnViewSnapshotType
<1>8. r.asserts = (n.asserts /\ (s.document_changes # {} \/ s.sync_state_changed))
  BY <1>1, <1>4, <1>5, OnViewSnapshotType
<1>9. OthersKeep(n, {l}, r)
  BY <1>1, <1>4, <1>5, OnViewSnapshotType
<1>10. n.listener[l].online = n.online /\ ~n.listener[l].raised /\ n.events[l] = <<>>
  BY <1>2 DEF Joined
<1>11. Informed(r, v, l)
  BY <1>1, <1>4, <1>5, <1>10, InformedBySnapshot
<1>12. Heeded(r, v, NothingHeard, l)
  <2>1. /\ NothingHeard \in Hearings /\ ~NothingHeard.told /\ ~NothingHeard.failed
        /\ NothingHeard.documents = NoDocuments
    BY NewViewType DEF NothingHeard, Hearings
  <2>2. /\ Chain(l, r.events[l], NothingHeard.documents)
        /\ UpToDate(r, v, NothingHeard, l)
    BY <1>1, <1>4, <1>5, <1>10, <2>1, FirstHeard
  <2> QED
    BY <2>1, <2>2 DEF Heeded
<1>13. Agreed(r, v)
  <2>1. r.listeners # {}
    BY <1>3, <1>7 DEF SameQuery
  <2>2. r.asserts
    BY <1>2, <1>4, <1>8 DEF Joined, Agreed
  <2> QED
    BY <1>2, <1>4, <1>7, <2>1, <2>2 DEF Agreed, SameQuery, Joined, s
<1>14. OthersKeep(m, {l}, r)
  <2>1. OthersKeep(m, {l}, n)
    BY <1>2 DEF Joined
  <2>2. ASSUME NEW x \in Listener \ {l}
        PROVE  r.events[x] = m.events[x] /\ r.listener[x] = m.listener[x]
    BY <1>9, <2>1 DEF OthersKeep
  <2> QED
    BY <2>2 DEF OthersKeep
<1> QED
  BY <1>2, <1>3, <1>4, <1>6, <1>7, <1>11, <1>12, <1>13, <1>14 DEF Welcomed, SameQuery, Joined

(* It is the first one: the query is followed from now on.                 *)
LEMMA FirstListener ==
    ASSUME NEW m \in Managers, NEW v, NEW w \in Views, NEW l \in Listener,
           Agreed(m, v), ~m.following,
           m.listener[l] = NewListener, m.events[l] = <<>>,
           NEW n, n = Added(m, l),
           NEW r, r = OnViewSnapshots(HardAssert(n, TRUE), Snapshot(NewView({}), w, TRUE))
    PROVE  ~n.had /\ Welcomed(m, r, w, l)
<1> DEFINE o == HardAssert(n, TRUE)
           s == Snapshot(NewView({}), w, TRUE)
           t == OnViewSnapshot(o, o.listeners, s)
<1>1. n \in Managers
  BY AddedType
<1>2. Joined(m, l, n)
  BY AddedType
<1>3. n.listeners = m.listeners \union {l}
  BY DEF Added, OnOnlineStateChanged, HardAssert, Managers
<1>4. m.listeners = {} /\ ~m.had /\ m.asserts
  BY DEF Agreed, Managers
<1>5. /\ o \in Managers /\ o.following /\ o.listeners = {l} /\ o.asserts
      /\ o.online = m.online /\ OthersKeep(m, {l}, o)
      /\ o.listener[l].online = o.online /\ ~o.listener[l].raised /\ o.events[l] = <<>>
      /\ {l} \in SUBSET Listener
  <2>1. o = [n EXCEPT !.asserts = n.asserts /\ TRUE]
    BY <1>1 DEF HardAssert, Managers
  <2>2. /\ o \in Managers /\ o.following = n.following /\ o.listeners = n.listeners
        /\ o.asserts = n.asserts /\ o.online = n.online /\ o.listener = n.listener
        /\ o.events = n.events
    BY <1>1, <2>1 DEF Managers
  <2> HIDE DEF o
  <2> QED
    BY <1>2, <1>3, <1>4, <2>2 DEF Joined, OthersKeep
<1>6. r = OnViewSnapshots(o, s) /\ NewView({}) \in Views
  BY NewViewType
<1> DEFINE none == NewView({})
           first == TRUE
<1> HIDE DEF o, none
<1>7. /\ o.following <=> o.listeners # {}
      /\ none \in Views /\ r = OnViewSnapshots(o, Snapshot(none, w, first))
      /\ first \in BOOLEAN /\ (first \/ SnapshotRaised(none, w))
      /\ o \in Managers /\ o.following /\ o.asserts
  BY <1>5, <1>6 DEF none
<1> HIDE DEF first
<1>8. r \in Managers
  BY <1>7, ViewTold
<1>9. Agreed(r, w)
  BY <1>7, ViewTold
<1>10. Kept(o, r)
  BY <1>7, ViewTold
<1>11. s \in Snapshots /\ s.documents = w.docs /\ s.from_cache = ~w.sync
  BY <1>6, SnapshotType
<1>12. r = [t EXCEPT !.had = TRUE, !.snapshot = s] /\ t = OnViewSnapshot(o, {l}, s) /\ l \in {l}
  BY <1>5, <1>6 DEF OnViewSnapshots
<1> HIDE DEF s, t
<1>13. t \in Managers
  BY <1>5, <1>11, <1>12, OnViewSnapshotType
<1>14. /\ r.listeners = t.listeners /\ r.online = t.online
       /\ r.events = t.events /\ r.listener = t.listener
  BY <1>12, <1>13 DEF Managers
<1>15. r.online = o.online
  <2>1. SameQuery(o, t)
    BY <1>5, <1>11, <1>12, OnViewSnapshotType
  <2> QED
    BY <1>14, <2>1 DEF SameQuery
<1>16. Informed(r, w, l)
  <2>1. Informed(t, w, l)
    BY <1>5, <1>11, <1>12, InformedBySnapshot
  <2> QED
    BY <1>14, <2>1, OwedToListeners
<1>17. Heeded(r, w, NothingHeard, l)
  <2>1. /\ NothingHeard \in Hearings /\ ~NothingHeard.told /\ ~NothingHeard.failed
        /\ NothingHeard.documents = NoDocuments
    BY NewViewType DEF NothingHeard, Hearings
  <2>2. /\ Chain(l, t.events[l], NothingHeard.documents)
        /\ UpToDate(t, w, NothingHeard, l)
    BY <1>5, <1>11, <1>12, <2>1, FirstHeard
  <2>3. Heeded(t, w, NothingHeard, l)
    BY <2>1, <2>2 DEF Heeded
  <2> QED
    BY <1>14, <2>3, OwedToListeners
<1>18. /\ r.following /\ r.listeners = m.listeners \union {l} /\ OthersKeep(m, {l}, r)
  BY <1>4, <1>5, <1>10 DEF Kept, OthersKeep
<1> QED
  BY <1>2, <1>4, <1>5, <1>8, <1>9, <1>16, <1>17, <1>18, <1>15 DEF Welcomed, Joined

(* A listener is added.                                                    *)
LEMMA AddQueryListenerKeeps ==
    ASSUME IInv, AddQueryListener
    PROVE  IInv'
<1> DEFINE m == manager
           v == engine.view
           l == Head(worker).listener
           n == Added(m, l)
           t == OnViewSnapshot(n, {l}, n.snapshot)
           told == IF n.had THEN t ELSE n
           w == engine'.view
<1>1. /\ worker # <<>> /\ Head(worker).task = "add"
      /\ worker' = Tail(worker) /\ UNCHANGED <<stage, heard, changes>>
  BY DEF AddQueryListener
<1>2. /\ m.following => manager' = told /\ UNCHANGED engine
      /\ ~m.following =>
            \E cached \in Cached :
                /\ engine' = [followed |-> TRUE, view |-> Listen(cached)]
                /\ manager' = OnViewSnapshots(HardAssert(told, ~engine.followed),
                                              Snapshot(NewView({}), Listen(cached), TRUE))
  BY DEF AddQueryListener
<1>3. /\ m \in Managers /\ worker \in Seq(Tasks) /\ Agreed(m, v)
      /\ v \in Views /\ heard \in [Listener -> Hearings]
      /\ engine \in [followed : BOOLEAN, view : Views] /\ (engine.followed <=> m.following)
      /\ m.following \in BOOLEAN
  BY DEF IInv, Types, Managers
<1>4. /\ l \in Listener /\ worker' \in Seq(Tasks)
      /\ 1 \in DOMAIN worker /\ IsAdd(1, l)
  BY <1>1, <1>3, TasksLeft DEF Tasks, IsAdd
<1>5. /\ l \notin m.listeners /\ m.listener[l] = NewListener
      /\ m.events[l] = <<>> /\ heard[l] = NothingHeard
  BY <1>4 DEF IInv, Scheduled, Fresh
<1>6. /\ Welcomed(m, manager', w, l)
      /\ engine' \in [followed : BOOLEAN, view : Views] /\ engine'.followed
      /\ m.following => w = v
  <2> HIDE DEF m, v, l
  <2>1. CASE m.following
    <3>1. n = Added(m, l) /\ t = OnViewSnapshot(n, {l}, n.snapshot)
      OBVIOUS
    <3> HIDE DEF n, t
    <3>2. n.had
      BY <1>3, <1>4, <1>5, <2>1, <3>1, NextListener
    <3>3. Welcomed(m, t, v, l)
      BY <1>3, <1>4, <1>5, <2>1, <3>1, NextListener
    <3>4. manager' = t /\ UNCHANGED engine
      BY <1>2, <2>1, <3>2
    <3> QED
      BY <1>3, <2>1, <3>3, <3>4 DEF v
  <2>2. CASE ~m.following
    <3>1. PICK cached \in Cached :
             /\ engine' = [followed |-> TRUE, view |-> Listen(cached)]
             /\ manager' = OnViewSnapshots(HardAssert(told, ~engine.followed),
                                           Snapshot(NewView({}), Listen(cached), TRUE))
      BY <1>2, <2>2
    <3>2. /\ engine' \in [followed : BOOLEAN, view : Views] /\ engine'.followed
          /\ w = Listen(cached) /\ w \in Views
      BY <3>1, ListenType
    <3> HIDE DEF w
    <3> DEFINE r == OnViewSnapshots(HardAssert(n, TRUE), Snapshot(NewView({}), w, TRUE))
    <3>3. n = Added(m, l) /\ r = OnViewSnapshots(HardAssert(n, TRUE), Snapshot(NewView({}), w, TRUE))
      OBVIOUS
    <3>4. manager' = IF n.had THEN manager' ELSE r
      <4>1. engine.followed = FALSE /\ (~engine.followed) = TRUE
        BY <1>3, <2>2
      <4> QED
        BY <3>1, <3>2, <4>1
    <3> HIDE DEF n, r, told
    <3>5. ~n.had
      BY <1>3, <1>4, <1>5, <2>2, <3>2, <3>3, FirstListener
    <3>6. Welcomed(m, r, w, l)
      BY <1>3, <1>4, <1>5, <2>2, <3>2, <3>3, FirstListener
    <3> QED
      BY <2>2, <3>2, <3>4, <3>5, <3>6
  <2> QED
    BY <2>1, <2>2
<1> HIDE DEF w
<1>7. /\ manager' \in Managers /\ Agreed(manager', w) /\ manager'.following
      /\ manager'.listeners = m.listeners \union {l} /\ manager'.online = m.online
      /\ \A x \in Listener \ {l} : /\ manager'.events[x] = m.events[x]
                                  /\ manager'.listener[x] = m.listener[x]
      /\ Informed(manager', w, l) /\ Heeded(manager', w, NothingHeard, l)
  BY <1>6 DEF Welcomed, OthersKeep
<1>8. \A x \in Listener \ {l} : x \in manager'.listeners => x \in m.listeners /\ v = w
  <2>1. \A x \in Listener : x \in m.listeners => m.following
    BY <1>3 DEF Agreed
  <2> QED
    BY <1>6, <1>7, <2>1
<1>9. ASSUME NEW x \in Listener
      PROVE  /\ x \in manager'.listeners => Informed(manager', w, x)
             /\ stage[x] # "removed" => Heeded(manager', w, heard[x], x)
  <2>1. CASE x = l
    BY <1>5, <1>7, <2>1
  <2>2. CASE x # l
    <3>1. x \in m.listeners => Informed(m, v, x)
      BY DEF IInv
    <3>2. stage[x] # "removed" => Heeded(m, v, heard[x], x)
      BY DEF IInv
    <3>3. /\ manager'.events[x] = m.events[x] /\ manager'.listener[x] = m.listener[x]
          /\ x \in manager'.listeners => x \in m.listeners /\ v = w
      BY <1>7, <1>8, <2>2
    <3> HIDE DEF v, m
    <3> QED
      BY <1>7, <3>1, <3>2, <3>3, OthersOwed
  <2> QED
    BY <2>1, <2>2
<1>10. Types'
  BY <1>1, <1>4, <1>6, <1>7 DEF IInv, Types
<1>11. \A x \in Listener : Scheduled(x)'
  <2>1. ASSUME NEW x \in Listener \ {l}
        PROVE  /\ Fresh(x) => Fresh(x)'
               /\ x \in manager'.listeners => x \in manager.listeners
    BY <1>1, <1>7, <1>8 DEF Fresh
  <2> QED
    BY <1>1, <1>3, <2>1, TaskDone DEF IInv
<1>12. ReplayIsDocuments'
  BY <1>1 DEF IInv, ReplayIsDocuments
<1>13. manager'.listeners \subseteq Listener
  BY <1>7 DEF Managers
<1> QED
  BY <1>1, <1>6, <1>7, <1>9, <1>10, <1>11, <1>12, <1>13 DEF IInv, w

-----------------------------------------------------------------------------
(* The app.                                                                *)

(* A task put on the worker queue is the last one.                         *)
LEMMA TaskPut ==
    ASSUME worker \in Seq(Tasks), NEW task \in Tasks, worker' = Append(worker, task)
    PROVE  /\ worker' \in Seq(Tasks)
           /\ \A i \in DOMAIN worker' : i \in DOMAIN worker \/ i = Len(worker) + 1
           /\ Len(worker) + 1 \in DOMAIN worker' /\ worker'[Len(worker) + 1] = task
           /\ \A i \in DOMAIN worker : i \in DOMAIN worker' /\ worker'[i] = worker[i]
           /\ \A i \in DOMAIN worker : i \in Nat /\ i < Len(worker) + 1
<1>1. /\ worker' \in Seq(Tasks) /\ Len(worker') = Len(worker) + 1
      /\ worker'[Len(worker) + 1] = task
      /\ \A i \in 1..Len(worker) : worker'[i] = worker[i]
  BY AppendProperties
<1>2. /\ DOMAIN worker = 1..Len(worker) /\ Len(worker) \in Nat
      /\ DOMAIN worker' = 1..Len(worker')
  BY <1>1, LenProperties
<1> QED
  BY <1>1, <1>2

(* The app adds a listener.                                                *)
LEMMA AddSnapshotListenerKeeps ==
    ASSUME IInv, NEW l \in Listener, AddSnapshotListener(l)
    PROVE  IInv'
<1> DEFINE task == [task |-> "add", listener |-> l]
<1> PICK last : last = Len(worker) + 1
  OBVIOUS
<1>1. /\ stage[l] = "new" /\ stage' = [stage EXCEPT ![l] = "added"]
      /\ worker' = Append(worker, task)
      /\ UNCHANGED <<engine, manager, heard, changes>>
  BY DEF AddSnapshotListener
<1>2. task \in Tasks /\ task.task = "add" /\ task.listener = l
  BY DEF Tasks
<1>3. worker \in Seq(Tasks) /\ stage \in [Listener -> {"new", "added", "removed"}]
  BY DEF IInv, Types
<1> HIDE DEF task
<1>4. /\ worker' \in Seq(Tasks)
      /\ \A i \in DOMAIN worker' : i \in DOMAIN worker \/ i = last
      /\ last \in DOMAIN worker' /\ worker'[last] = task
      /\ \A i \in DOMAIN worker : i \in DOMAIN worker' /\ worker'[i] = worker[i]
  BY <1>1, <1>2, <1>3, TaskPut
<1>5. ASSUME NEW x \in Listener
      PROVE  /\ stage'[x] = IF x = l THEN "added" ELSE stage[x]
             /\ stage'[x] # "removed" => stage[x] # "removed"
             /\ Fresh(x)' <=> Fresh(x)
  BY <1>1, <1>3 DEF Fresh
<1>6. ASSUME NEW x \in Listener
      PROVE  Scheduled(x)'
  <2>1. /\ \A i \in DOMAIN worker : /\ IsAdd(i, x)' <=> IsAdd(i, x)
                                    /\ IsRemove(i, x)' <=> IsRemove(i, x)
        /\ IsAdd(last, x)' <=> x = l
        /\ ~IsRemove(last, x)'
    BY <1>2, <1>4 DEF IsAdd, IsRemove
  <2>2. Scheduled(x)
    BY DEF IInv
  <2>3. CASE x = l
    <3>1. Fresh(x) /\ \A i \in DOMAIN worker : ~IsAdd(i, x) /\ ~IsRemove(i, x)
      BY <1>1, <2>2, <2>3 DEF Scheduled, IsAdd, IsRemove
    <3>2. \A i \in DOMAIN worker' : ~IsRemove(i, x)' /\ (IsAdd(i, x)' => i = last)
      BY <1>4, <2>1, <3>1
    <3>3. Fresh(x)' /\ stage'[x] = "added"
      BY <1>5, <2>3, <3>1
    <3> QED
      BY <3>2, <3>3 DEF Scheduled
  <2>4. CASE x # l
    <3>1. \A i \in DOMAIN worker' : /\ IsAdd(i, x)' => i \in DOMAIN worker /\ IsAdd(i, x)
                                    /\ IsRemove(i, x)' => i \in DOMAIN worker /\ IsRemove(i, x)
      BY <1>4, <2>1, <2>4 DEF IsRemove
    <3>2. \A i \in DOMAIN worker : IsRemove(i, x) => i \in DOMAIN worker' /\ IsRemove(i, x)'
      BY <1>4, <2>1
    <3>3. stage'[x] = stage[x] /\ (Fresh(x)' <=> Fresh(x)) /\ manager' = manager
      BY <1>1, <1>5, <2>4
    <3>4. (\A i \in DOMAIN worker : worker[i].listener # x) =>
              \A i \in DOMAIN worker' : worker'[i].listener # x
      BY <1>2, <1>4, <2>4
    <3> QED
      BY <2>2, <3>1, <3>2, <3>3, <3>4 DEF Scheduled
  <2> QED
    BY <2>3, <2>4
<1>7. Types'
  BY <1>1, <1>3, <1>4 DEF IInv, Types
<1>8. ReplayIsDocuments'
  BY <1>1 DEF IInv, ReplayIsDocuments
<1> QED
  BY <1>1, <1>5, <1>6, <1>7, <1>8 DEF IInv

(* The app removes one.                                                    *)
LEMMA RemoveListenerKeeps ==
    ASSUME IInv, NEW l \in Listener, RemoveListener(l)
    PROVE  IInv'
<1> DEFINE task == [task |-> "remove", listener |-> l]
<1> PICK last : last = Len(worker) + 1
  OBVIOUS
<1>1. /\ stage[l] = "added" /\ stage' = [stage EXCEPT ![l] = "removed"]
      /\ worker' = IF Alive(l) THEN Append(worker, task) ELSE worker
      /\ UNCHANGED <<engine, manager, heard, changes>>
  BY DEF RemoveListener
<1>2. task \in Tasks /\ task.task = "remove" /\ task.listener = l
  BY DEF Tasks
<1>3. worker \in Seq(Tasks) /\ stage \in [Listener -> {"new", "added", "removed"}]
  BY DEF IInv, Types
<1> HIDE DEF task
<1>4. ASSUME Alive(l)
      PROVE  /\ worker' \in Seq(Tasks)
             /\ \A i \in DOMAIN worker' : i \in DOMAIN worker \/ i = last
             /\ last \in DOMAIN worker' /\ worker'[last] = task
             /\ \A i \in DOMAIN worker : i \in DOMAIN worker' /\ worker'[i] = worker[i]
             /\ \A i \in DOMAIN worker : i < last
  BY <1>1, <1>2, <1>3, <1>4, TaskPut
<1>5. ASSUME NEW x \in Listener
      PROVE  /\ stage'[x] = IF x = l THEN "removed" ELSE stage[x]
             /\ stage'[x] # "removed" => stage[x] # "removed"
             /\ Fresh(x)' <=> Fresh(x)
  BY <1>1, <1>3 DEF Fresh
<1>6. ASSUME NEW x \in Listener
      PROVE  Scheduled(x)'
  <2>1. Scheduled(x) /\ (Fresh(x)' <=> Fresh(x)) /\ manager' = manager
    BY <1>1, <1>5 DEF IInv
  <2>2. CASE ~Alive(l)
    <3>1. worker' = worker
      BY <1>1, <2>2
    <3>2. \A i : (IsAdd(i, x)' <=> IsAdd(i, x)) /\ (IsRemove(i, x)' <=> IsRemove(i, x))
      BY <3>1 DEF IsAdd, IsRemove
    <3>3. CASE x = l
      <4>1. l \notin manager.listeners /\ \A i \in DOMAIN worker : worker[i].listener # l
        BY <2>2 DEF Alive
      <4>2. \A i \in DOMAIN worker : ~IsAdd(i, x) /\ ~IsRemove(i, x)
        BY <3>3, <4>1 DEF IsAdd, IsRemove
      <4> QED
        BY <1>5, <2>1, <3>1, <3>2, <3>3, <4>1, <4>2 DEF Scheduled
    <3>4. CASE x # l
      BY <1>5, <2>1, <3>1, <3>2, <3>4 DEF Scheduled
    <3> QED
      BY <3>3, <3>4
  <2>3. CASE Alive(l)
    <3>1. /\ \A i \in DOMAIN worker : /\ IsAdd(i, x)' <=> IsAdd(i, x)
                                      /\ IsRemove(i, x)' <=> IsRemove(i, x)
          /\ ~IsAdd(last, x)'
          /\ IsRemove(last, x)' <=> x = l
      BY <1>2, <1>4, <2>3 DEF IsAdd, IsRemove
    <3>2. /\ \A i \in DOMAIN worker' :
                /\ IsAdd(i, x)' => i \in DOMAIN worker /\ IsAdd(i, x)
                /\ IsRemove(i, x)' =>
                      \/ i \in DOMAIN worker /\ IsRemove(i, x)
                      \/ i = last /\ x = l
          /\ \A i \in DOMAIN worker : IsRemove(i, x) => i \in DOMAIN worker' /\ IsRemove(i, x)'
      BY <1>4, <2>3, <3>1
    <3>3. \A i, j \in DOMAIN worker' : IsAdd(i, x)' /\ IsAdd(j, x)' => i = j
      BY <2>1, <3>2 DEF Scheduled
    <3>4. \A i, j \in DOMAIN worker' : IsAdd(i, x)' /\ IsRemove(j, x)' => i < j
      BY <1>4, <2>1, <2>3, <3>2 DEF Scheduled
    <3>5. \A i \in DOMAIN worker' : IsAdd(i, x)' => Fresh(x)'
      BY <2>1, <3>2 DEF Scheduled
    <3>6. \A i \in DOMAIN worker' : IsRemove(i, x)' => stage'[x] = "removed"
      BY <1>5, <2>1, <3>2 DEF Scheduled
    <3>7. stage'[x] = "new" => Fresh(x)' /\ \A i \in DOMAIN worker' : worker'[i].listener # x
      BY <1>2, <1>4, <1>5, <2>1, <2>3 DEF Scheduled
    <3>8. ASSUME stage'[x] = "removed",
                 x \in manager'.listeners \/ \E i \in DOMAIN worker' : IsAdd(i, x)'
          PROVE  \E i \in DOMAIN worker' : IsRemove(i, x)'
      <4>1. CASE x = l
        BY <1>4, <2>3, <3>1, <4>1
      <4>2. CASE x # l
        <5>1. /\ stage[x] = "removed"
              /\ x \in manager.listeners \/ \E i \in DOMAIN worker : IsAdd(i, x)
          BY <1>5, <2>1, <3>2, <3>8, <4>2
        <5> QED
          BY <2>1, <3>2, <5>1 DEF Scheduled
      <4> QED
        BY <4>1, <4>2
    <3> QED
      BY <3>3, <3>4, <3>5, <3>6, <3>7, <3>8 DEF Scheduled
  <2> QED
    BY <2>2, <2>3
<1>7. Types'
  BY <1>1, <1>3, <1>4 DEF IInv, Types
<1>8. ReplayIsDocuments'
  BY <1>1 DEF IInv, ReplayIsDocuments
<1> QED
  BY <1>1, <1>5, <1>6, <1>7, <1>8 DEF IInv

(* Changes that lead to what the event shows are all the app needs.        *)
LEMMA ReplayLeads ==
    ASSUME NEW l, NEW docs \in Documents, NEW replayed \in Documents, Same(l, replayed, docs),
           NEW event \in Snapshots, Leads(l, docs, event),
           NEW r, r = Replayed(replayed, event.document_changes)
    PROVE  /\ Fits(replayed, event.document_changes)
           /\ r \in Documents
           /\ Same(l, r, event.documents)
<1> DEFINE cs == event.document_changes
<1>1. /\ cs \subseteq Changes /\ event.documents \in Documents
      /\ \A c \in cs : c.key \in Doc /\ c.doc \in Shown
  BY DEF Snapshots, Changes
<1>2. ASSUME NEW d \in Doc
      PROVE  /\ replayed[d].val = docs[d].val
             /\ l \in WithMetadata => replayed[d] = docs[d]
  <2>1. CASE l \in WithMetadata
    BY <2>1 DEF Same
  <2>2. CASE l \notin WithMetadata
    BY <2>2 DEF Same
  <2> QED
    BY <2>1, <2>2
<1>3. /\ \A c \in cs : c.doc = event.documents[c.key] /\ (c.type = "Added" <=> docs[c.key].val = 0)
      /\ \A d \in Doc : (\A c \in cs : c.key # d) =>
             IF l \in WithMetadata THEN docs[d] = event.documents[d]
             ELSE docs[d].val = event.documents[d].val
  BY DEF Leads
<1>4. r = [d \in Doc |-> IF \E c \in cs : c.key = d
                         THEN (CHOOSE c \in cs : c.key = d).doc ELSE replayed[d]]
  BY DEF Replayed
<1> HIDE DEF cs
<1>5. ASSUME NEW d \in Doc
      PROVE  /\ r[d] \in Shown
             /\ IF l \in WithMetadata THEN r[d] = event.documents[d]
                ELSE r[d].val = event.documents[d].val
  <2>1. CASE \E c \in cs : c.key = d
    <3> DEFINE c == CHOOSE x \in cs : x.key = d
    <3>1. c \in cs /\ c.key = d
      BY <2>1
    <3>2. r[d] = c.doc
      BY <1>4, <2>1
    <3> HIDE DEF c
    <3> QED
      BY <1>1, <1>3, <3>1, <3>2
  <2>2. CASE \A c \in cs : c.key # d
    <3>1. r[d] = replayed[d]
      BY <1>4, <2>2
    <3>2. replayed[d] \in Shown
      BY DEF Documents
    <3> QED
      BY <1>2, <1>3, <2>2, <3>1, <3>2
  <2> QED
    BY <2>1, <2>2
<1>6. r \in Documents
  BY <1>4, <1>5 DEF Documents
<1>7. Fits(replayed, cs)
  BY <1>1, <1>2, <1>3 DEF Fits
<1> QED
  BY <1>5, <1>6, <1>7 DEF Same, cs

(* The app is told of the first event on its queue.                        *)
LEMMA RunUserKeeps ==
    ASSUME IInv, NEW l \in Listener, RunUser(l)
    PROVE  IInv'
<1> DEFINE m == manager
           v == engine.view
           q == m.events[l]
           e == Head(q)
           h == heard[l]
           failed == [h EXCEPT !.failed = TRUE, !.sound = h.sound /\ ~h.failed]
           told == [told |-> TRUE, failed |-> h.failed,
                    documents |-> e.event.documents,
                    replayed |-> Replayed(h.replayed, e.event.document_changes),
                    from_cache |-> e.event.from_cache,
                    sound |-> /\ h.sound /\ ~h.failed
                              /\ Fits(h.replayed, e.event.document_changes)]
           now == IF e.error THEN failed ELSE told
<1>1. /\ q # <<>>
      /\ heard' = IF stage[l] = "removed" THEN heard ELSE [heard EXCEPT ![l] = now]
      /\ manager' = [manager EXCEPT !.events[l] = Tail(q)]
      /\ UNCHANGED <<engine, worker, stage, changes>>
  BY DEF RunUser
<1>2. /\ m \in Managers /\ v \in Views /\ heard \in [Listener -> Hearings] /\ h \in Hearings
      /\ q \in Seq(UserEvents) /\ Agreed(m, v)
  BY DEF IInv, Types, Managers
<1>3. Tail(q) \in Seq(UserEvents) /\ e \in UserEvents
  BY <1>1, <1>2, HeadTailProperties, EmptySeq
<1>4. /\ manager' \in Managers
      /\ manager'.following = m.following /\ manager'.listeners = m.listeners
      /\ manager'.had = m.had /\ manager'.snapshot = m.snapshot /\ manager'.online = m.online
      /\ manager'.asserts = m.asserts /\ manager'.listener = m.listener
      /\ manager'.events[l] = Tail(q)
      /\ \A x \in Listener \ {l} : manager'.events[x] = m.events[x]
  BY <1>1, <1>2, <1>3 DEF Managers
<1>5. Agreed(manager', v)
  BY <1>2, <1>4 DEF Agreed
<1>6. ASSUME NEW x \in Listener, x \in m.listeners
      PROVE  Informed(manager', v, x)
  BY <1>4, <1>6 DEF IInv, Informed
<1>7. ASSUME NEW x \in Listener \ {l}, stage[x] # "removed"
      PROVE  Heeded(manager', v, heard[x], x)
  <2>1. Heeded(m, v, heard[x], x)
    BY <1>7 DEF IInv
  <2>2. /\ manager'.events[x] = m.events[x] /\ manager'.listener[x] = m.listener[x]
        /\ manager'.online = m.online
        /\ x \in manager'.listeners => x \in m.listeners /\ v = v
    BY <1>4
  <2> HIDE DEF m, v
  <2> QED
    BY <2>1, <2>2, OthersOwed
<1>8. ASSUME stage[l] # "removed"
      PROVE  /\ Heeded(manager', v, now, l)
             /\ now \in Hearings
             /\ now.sound /\ Same(l, now.replayed, now.documents)
  <2>1. /\ Chain(l, q, h.documents) /\ ~h.failed
        /\ l \in m.listeners => UpToDate(m, v, h, l)
    BY <1>1, <1>8 DEF IInv, Heeded
  <2>2. h.sound /\ Same(l, h.replayed, h.documents)
    BY DEF IInv, ReplayIsDocuments
  <2>3. CASE e.error
    <3>1. e = q[1] /\ 1 \in 1..Len(q) /\ Len(Tail(q)) = Len(q) - 1
      BY <1>1, <1>2, HeadTailProperties, EmptySeq, LenProperties
    <3>2. Len(q) = 1
      BY <2>1, <2>3, <3>1 DEF Chain
    <3>3. Tail(q) = <<>>
      <4> DEFINE r == Tail(q)
      <4>1. r \in Seq(UserEvents) /\ Len(r) = 0
        BY <1>3, <3>1, <3>2
      <4> HIDE DEF r
      <4>2. r = <<>>
        BY <4>1, EmptySeq
      <4> QED
        BY <4>2 DEF r
    <3>4. l \notin m.listeners
      BY <2>1, <2>3, <3>1 DEF UpToDate, ErrorFree
    <3>5. now = failed
      BY <2>3
    <3>6. /\ now \in Hearings /\ now.sound
          /\ now.documents = h.documents /\ now.replayed = h.replayed
      BY <1>2, <2>1, <2>2, <3>5 DEF Hearings
    <3>7. Chain(l, <<>>, now.documents)
      BY DEF Chain
    <3> HIDE DEF now, q, m
    <3> QED
      BY <1>4, <2>2, <3>3, <3>4, <3>6, <3>7 DEF Heeded
  <2>4. CASE ~e.error
    <3>1. /\ Leads(l, h.documents, e.event)
          /\ Chain(l, Tail(q), e.event.documents)
          /\ Known(Tail(q), e.event.documents, Len(Tail(q))) = Known(q, h.documents, Len(q))
          /\ LastFromCache(Tail(q), e.event.from_cache) = LastFromCache(q, h.from_cache)
          /\ ErrorFree(q) => ErrorFree(Tail(q))
      <4> DEFINE docs == h.documents
                 from_cache == h.from_cache
      <4>1. q \in Seq(UserEvents) /\ q # <<>> /\ Chain(l, q, docs) /\ ~Head(q).error
        BY <1>1, <1>2, <2>1, <2>4
      <4> HIDE DEF q, h, docs, from_cache
      <4>2. Leads(l, docs, e.event)
        BY <4>1, ChainMovesOn
      <4>3. Chain(l, Tail(q), e.event.documents)
        BY <4>1, ChainMovesOn
      <4>4. Known(Tail(q), e.event.documents, Len(Tail(q))) = Known(q, docs, Len(q))
        BY <4>1, ChainMovesOn
      <4>5. LastFromCache(Tail(q), e.event.from_cache) = LastFromCache(q, from_cache)
        BY <4>1, ChainMovesOn
      <4>6. ErrorFree(q) => ErrorFree(Tail(q))
        BY <4>1, ChainMovesOn
      <4> QED
        BY <4>2, <4>3, <4>4, <4>5, <4>6 DEF docs, from_cache
    <3>2. e.event \in Snapshots /\ h.documents \in Documents /\ h.replayed \in Documents
      BY <1>2, <1>3 DEF UserEvents, Hearings
    <3> DEFINE r == Replayed(h.replayed, e.event.document_changes)
    <3>3. r = Replayed(h.replayed, e.event.document_changes)
      OBVIOUS
    <3>4. now = told
      BY <2>4
    <3> HIDE DEF r, e, h
    <3>5. Fits(h.replayed, e.event.document_changes)
      BY <2>2, <3>1, <3>2, <3>3, ReplayLeads
    <3>6. r \in Documents
      BY <2>2, <3>1, <3>2, <3>3, ReplayLeads
    <3>7. Same(l, r, e.event.documents)
      BY <2>2, <3>1, <3>2, <3>3, ReplayLeads
    <3>8. /\ now.told /\ now.failed = h.failed /\ now.documents = e.event.documents
          /\ now.replayed = r /\ now.from_cache = e.event.from_cache
          /\ now.sound = (h.sound /\ ~h.failed /\ Fits(h.replayed, e.event.document_changes))
      BY <3>3, <3>4
    <3>9. now \in Hearings
      <4>1. e.event.documents \in Documents /\ e.event.from_cache \in BOOLEAN /\ h.failed \in BOOLEAN
        BY <1>2, <3>2 DEF Snapshots, Hearings
      <4>2. (h.sound /\ ~h.failed /\ Fits(h.replayed, e.event.document_changes)) \in BOOLEAN
        OBVIOUS
      <4> QED
        BY <3>3, <3>4, <3>6, <4>1, <4>2 DEF Hearings
    <3> HIDE DEF now
    <3>10. now.sound /\ Same(l, now.replayed, now.documents) /\ ~now.failed
      BY <2>1, <2>2, <3>5, <3>7, <3>8
    <3>11. ASSUME l \in m.listeners
           PROVE  UpToDate(manager', v, now, l)
      <4>1. UpToDate(m, v, h, l)
        BY <2>1, <3>11
      <4> HIDE DEF m, v, q
      <4>2. m.events[l] = q /\ q # <<>>
        BY <1>1 DEF q
      <4>3. /\ ErrorFree(q) /\ m.listener[l].raised
            /\ Same(l, Known(q, h.documents, Len(q)), v.docs)
            /\ l \in WithMetadata => LastFromCache(q, h.from_cache) = ~v.sync
        BY <4>1, <4>2 DEF UpToDate
      <4>4. manager'.events[l] = Tail(q) /\ manager'.listener[l] = m.listener[l]
        BY <1>4
      <4>5. /\ ErrorFree(Tail(q))
            /\ Same(l, Known(Tail(q), now.documents, Len(Tail(q))), v.docs)
            /\ l \in WithMetadata => LastFromCache(Tail(q), now.from_cache) = ~v.sync
        BY <3>1, <3>8, <4>3
      <4> QED
        BY <3>8, <3>10, <4>3, <4>4, <4>5 DEF UpToDate
    <3>12. Chain(l, manager'.events[l], now.documents) /\ manager'.listeners = m.listeners
      BY <1>4, <3>1, <3>8
    <3> QED
      BY <3>9, <3>10, <3>11, <3>12 DEF Heeded
  <2> QED
    BY <2>3, <2>4
<1> HIDE DEF now, v, m
<1>9. /\ heard' \in [Listener -> Hearings]
      /\ \A x \in Listener \ {l} : heard'[x] = heard[x]
      /\ heard'[l] = IF stage[l] = "removed" THEN heard[l] ELSE now
  BY <1>1, <1>2, <1>8
<1>10. ASSUME NEW x \in Listener, stage'[x] # "removed"
       PROVE  Heeded(manager', v, heard'[x], x)
  BY <1>1, <1>7, <1>8, <1>9, <1>10
<1>11. ReplayIsDocuments'
  <2>1. \A x \in Listener : heard[x].sound /\ Same(x, heard[x].replayed, heard[x].documents)
    BY DEF IInv, ReplayIsDocuments
  <2>2. ASSUME NEW x \in Listener
        PROVE  heard'[x].sound /\ Same(x, heard'[x].replayed, heard'[x].documents)
    BY <1>8, <1>9, <2>1
  <2> QED
    BY <2>2 DEF ReplayIsDocuments, Same
<1>12. ASSUME NEW x \in Listener
       PROVE  Scheduled(x)'
  <2>1. Scheduled(x)
    BY DEF IInv
  <2>2. \A i : (IsAdd(i, x)' <=> IsAdd(i, x)) /\ (IsRemove(i, x)' <=> IsRemove(i, x))
    BY <1>1 DEF IsAdd, IsRemove
  <2>3. Fresh(x) => Fresh(x)'
    <3>1. CASE x = l
      BY <1>1, <3>1 DEF Fresh, m
    <3>2. CASE x # l
      BY <1>4, <1>9, <3>2 DEF Fresh, m
    <3> QED
      BY <3>1, <3>2
  <2>4. manager'.listeners = manager.listeners /\ UNCHANGED <<worker, stage>>
    BY <1>1, <1>4 DEF m
  <2> QED
    BY <2>1, <2>2, <2>3, <2>4 DEF Scheduled
<1>13. Types'
  BY <1>1, <1>4, <1>9 DEF IInv, Types
<1>14. engine'.view = v /\ engine'.followed = engine.followed /\ m.listeners \subseteq Listener
  BY <1>1, <1>2 DEF v, Managers
<1> QED
  BY <1>4, <1>5, <1>6, <1>10, <1>11, <1>12, <1>13, <1>14 DEF IInv, m

-----------------------------------------------------------------------------
(* The invariant.                                                          *)

LEMMA InitIInv ==
    Init => IInv
<1> SUFFICES ASSUME Init
             PROVE  IInv
  OBVIOUS
<1>1. /\ engine = [followed |-> FALSE, view |-> NewView({})]
      /\ manager = NewManager /\ worker = <<>> /\ changes = 0
      /\ stage = [l \in Listener |-> "new"] /\ heard = [l \in Listener |-> NothingHeard]
  BY DEF Init
<1>2. NewListener \in QueryListeners /\ "unknown" \in Online /\ <<>> \in Seq(UserEvents)
  BY NoSnapshotType, EmptySeq DEF NewListener, QueryListeners, Online
<1>3. /\ manager \in Managers /\ ~manager.following /\ manager.listeners = {} /\ ~manager.had
      /\ manager.asserts
      /\ \A l \in Listener : manager.listener[l] = NewListener /\ manager.events[l] = <<>>
  BY <1>1, <1>2, NoSnapshotType DEF NewManager, Managers
<1>4. /\ NothingHeard \in Hearings /\ NothingHeard.sound /\ ~NothingHeard.failed
      /\ NothingHeard.documents = NoDocuments /\ NothingHeard.replayed = NoDocuments
  BY NewViewType DEF NothingHeard, Hearings
<1>5. \A l \in Listener : stage[l] = "new" /\ heard[l] = NothingHeard
  BY <1>1
<1>6. worker \in Seq(Tasks) /\ DOMAIN worker = {}
  BY <1>1, EmptySeq
<1>7. Types
  BY <1>1, <1>3, <1>4, <1>6, NewViewType, ValueAssumption DEF Types
<1>8. \A l \in Listener : Scheduled(l)
  BY <1>3, <1>5, <1>6 DEF Scheduled, Fresh
<1>9. Agreed(manager, engine.view)
  BY <1>3 DEF Agreed
<1>10. ASSUME NEW l \in Listener
       PROVE  Heeded(manager, engine.view, heard[l], l)
  <2>1. Chain(l, <<>>, NoDocuments)
    BY DEF Chain
  <2> QED
    BY <1>3, <1>4, <1>5, <2>1 DEF Heeded
<1>11. ReplayIsDocuments
  BY <1>4, <1>5 DEF ReplayIsDocuments, Same
<1> QED
  BY <1>1, <1>3, <1>7, <1>8, <1>9, <1>10, <1>11 DEF IInv

(* Every step keeps it.                                                    *)
LEMMA NextKeepsIInv ==
    IInv /\ [Next]_vars => IInv'
<1> SUFFICES ASSUME IInv, [Next]_vars
             PROVE  IInv'
  OBVIOUS
<1>1. CASE AddQueryListener
  BY <1>1, AddQueryListenerKeeps
<1>2. CASE RemoveQueryListener
  BY <1>2, RemoveQueryListenerKeeps
<1>3. ASSUME NEW news \in News, NEW change \in TargetChanges, ViewChanges(news, change)
      PROVE  IInv'
  BY <1>3, ViewChangesKeeps
<1>4. ASSUME NEW online \in Online, OnlineStateChanges(online)
      PROVE  IInv'
  BY <1>4, OnlineStateChangesKeeps
<1>5. CASE HandleRejectedListen
  BY <1>5, HandleRejectedListenKeeps
<1>6. ASSUME NEW l \in Listener, AddSnapshotListener(l)
      PROVE  IInv'
  BY <1>6, AddSnapshotListenerKeeps
<1>7. ASSUME NEW l \in Listener, RemoveListener(l)
      PROVE  IInv'
  BY <1>7, RemoveListenerKeeps
<1>8. ASSUME NEW l \in Listener, RunUser(l)
      PROVE  IInv'
  BY <1>8, RunUserKeeps
<1>9. CASE UNCHANGED vars
  <2>1. UNCHANGED <<engine, manager, worker, stage, heard, changes>>
    BY <1>9 DEF vars
  <2>2. Types'
    BY <2>1 DEF IInv, Types
  <2>3. ReplayIsDocuments'
    BY <2>1 DEF IInv, ReplayIsDocuments
  <2>4. \A l \in Listener : Scheduled(l)'
    <3>1. manager'.listeners \subseteq manager.listeners /\ OthersKeep(manager, manager.listeners, manager')
      BY <2>1 DEF OthersKeep
    <3> QED
      BY <2>1, <3>1, ScheduleKept DEF IInv
  <2> QED
    BY <2>1, <2>2, <2>3, <2>4 DEF IInv
<1> QED
  BY <1>1, <1>2, <1>3, <1>4, <1>5, <1>6, <1>7, <1>8, <1>9 DEF Next

(* A listener of the query is not one the app has removed, once the worker *)
(* queue is empty.                                                         *)
LEMMA RestIsHeeded ==
    ASSUME IInv, NEW l \in Listener, AtRest(l)
    PROVE  /\ Informed(manager, engine.view, l)
           /\ UpToDate(manager, engine.view, heard[l], l)
<1>1. worker = <<>> /\ l \in manager.listeners
  BY DEF AtRest
<1>2. DOMAIN worker = {}
  BY <1>1, EmptySeq
<1>3. stage[l] # "removed"
  BY <1>1, <1>2 DEF IInv, Scheduled
<1> QED
  BY <1>1, <1>3 DEF IInv, Heeded

(* What it says of the listeners, once nothing is under way.               *)
LEMMA IInvShows ==
    IInv => Inv
<1> SUFFICES ASSUME IInv
             PROVE  Inv
  OBVIOUS
<1>1. TypeOK
  BY DEF IInv, Types, Managers, Agreed, TypeOK
<1>2. AssertsHold
  BY DEF IInv, Agreed, AssertsHold
<1>3. ASSUME NEW l \in Listener, AtRest(l), heard[l].told
      PROVE  /\ Same(l, heard[l].documents, engine.view.docs)
             /\ l \in WithMetadata => heard[l].from_cache = ~engine.view.sync
  <2>1. UpToDate(manager, engine.view, heard[l], l) /\ manager.events[l] = <<>>
    BY <1>3, RestIsHeeded DEF AtRest
  <2>2. Len(<<>>) = 0
    BY EmptySeq
  <2>3. Known(manager.events[l], heard[l].documents, Len(manager.events[l])) = heard[l].documents
    BY <2>1, <2>2 DEF Known
  <2>4. LastFromCache(manager.events[l], heard[l].from_cache) = heard[l].from_cache
    BY <2>1 DEF LastFromCache
  <2> QED
    BY <1>3, <2>1, <2>3, <2>4 DEF UpToDate
<1>4. ASSUME NEW l \in Listener, AtRest(l), ~heard[l].told
      PROVE  WaitsForServer(l)
  <2>1. UpToDate(manager, engine.view, heard[l], l) /\ manager.events[l] = <<>>
        /\ l \in manager.listeners
    BY <1>4, RestIsHeeded DEF AtRest
  <2>2. Informed(manager, engine.view, l)
    BY <1>4, RestIsHeeded
  <2>3. ~ShouldRaiseInitialEvent(l, manager.listener[l].snapshot, manager.online)
    BY <1>4, <2>1 DEF UpToDate
  <2>4. /\ manager.listener[l].snapshot.documents = engine.view.docs
        /\ manager.listener[l].snapshot.from_cache = ~engine.view.sync
    BY <2>2 DEF Informed
  <2> QED
    BY <2>1, <2>3, <2>4 DEF ShouldRaiseInitialEvent, WaitsForServer
<1>5. ReplayIsDocuments
  BY DEF IInv
<1> QED
  BY <1>1, <1>2, <1>3, <1>4, <1>5 DEF Inv, ToldIsShown, NobodyForgotten

(***************************************************************************)
(* However many listeners come and go while the view changes, fails and is *)
(* listened to anew: no assertion fails between EventManager, its          *)
(* QueryListeners and SyncEngine (event_manager.cc:36-99,                  *)
(* sync_engine.cc:100-183), the changes each listener is told replay to    *)
(* the documents it is told (query_listener.cc:66-152), and once the       *)
(* queues are empty it was told what the view shows, or waits for the      *)
(* server with reason.                                                     *)
(***************************************************************************)
THEOREM NobodyIsForgotten ==
    Spec => []Inv
<1>1. Spec => []IInv
  BY InitIInv, NextKeepsIInv, PTL DEF Spec
<1> QED
  BY <1>1, IInvShows, PTL
=============================================================================
