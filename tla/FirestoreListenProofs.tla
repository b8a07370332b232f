------------------------- MODULE FirestoreListenProofs -------------------------
(***************************************************************************)
(* Latency compensation, for any documents, any bounds on writes, limbo    *)
(* resolutions and faults, and whatever comes over the watch stream: the   *)
(* user's last write to a document is what is shown of it until the        *)
(* server's answer came.                                                   *)
(*                                                                         *)
(* What a write shows is decided by the queue and the view alone, so the   *)
(* proof does not need to know what the folds over limbo documents make of *)
(* the fields they change.                                                 *)
(***************************************************************************)
EXTENDS FirestoreListen, NaturalsInduction, WellFoundedInduction, SequenceTheorems, TLAPS

-----------------------------------------------------------------------------
(* The queue and the view.                                                 *)

Writes == [doc : Doc, val : Nat \ {0}, transform : BOOLEAN, version : Nat]

(* Documents as a view shows them.                                         *)
Showing(docs) ==
    /\ docs = [d \in Doc |-> docs[d]]
    /\ \A d \in Doc : /\ docs[d] = [val |-> docs[d].val, local |-> docs[d].local]
                      /\ docs[d].local \in BOOLEAN

(* The fields of the client that matter here are there.                    *)
Fields == {"queue", "view", "ok", "limboFree", "token"}

HasFields(s) ==
    /\ Fields \subseteq DOMAIN s
    /\ s.queue \in Seq(Writes)

HasView(s) ==
    /\ "docs" \in DOMAIN s.view
    /\ Showing(s.view.docs)

(* A write in the queue after which there is no other to its document.     *)
Newest(queue, i) == \A j \in DOMAIN queue : queue[j].doc = queue[i].doc => j <= i

(* The newest writes of the queue to documents of D are what docs shows.   *)
ShownOf(queue, docs, D) ==
    \A i \in DOMAIN queue :
        queue[i].doc \in D /\ Newest(queue, i) =>
            docs[queue[i].doc] = [val |-> queue[i].val, local |-> TRUE]

(* A client whose view shows its newest writes.                            *)
Shows(s) ==
    /\ HasFields(s)
    /\ HasView(s)
    /\ ShownOf(s.queue, s.view.docs, Doc)

IInv ==
    /\ log \in Seq([doc : Doc, val : Nat])
    /\ issued \in Nat
    /\ Shows(c)

(* What is in the queue is a write.                                        *)
LEMMA QueueOfWrites ==
    ASSUME NEW s, HasFields(s), NEW i \in DOMAIN s.queue
    PROVE  /\ s.queue[i] \in Writes
           /\ s.queue[i].doc \in Doc
           /\ s.queue[i].val # 0
<1>1. s.queue[i] \in Writes
    BY ElementOfSeq, LenProperties DEF HasFields
<1> QED
    BY <1>1 DEF Writes

LEMMA PendingIsShown ==
    ASSUME HasFields(c)
    PROVE  PendingShown <=> ShownOf(c.queue, c.view.docs, Doc)
<1>1. \A i \in DOMAIN c.queue : c.queue[i].doc \in Doc
    BY QueueOfWrites
<1> QED
    BY <1>1 DEF PendingShown, ShownOf, Newest, IsLastOf

-----------------------------------------------------------------------------
(* The store and the view.                                                 *)

(* What the device has of a document with a write is the newest write.     *)
LEMMA NewestIsLocal ==
    ASSUME NEW s, HasFields(s), NEW i \in DOMAIN s.queue, Newest(s.queue, i)
    PROVE  LocalView(s, s.queue[i].doc)
               = [val |-> s.queue[i].val, local |-> TRUE, committed |-> FALSE]
<1> DEFINE own == WritesTo(s, s.queue[i].doc)
<1>1. own \subseteq Nat /\ i \in own /\ \A j \in own : j <= i
    BY DEF HasFields, WritesTo, Newest
<1>2. Max(own) = i
    BY <1>1 DEF Max
<1> QED
    BY <1>1, <1>2 DEF LocalView

(* A change to a document with a write always shows it.                    *)
LEMMA WriteIsApplied ==
    ASSUME NEW view, Showing(view.docs), NEW changes, NEW d \in Doc, d \in DOMAIN changes,
           NEW val, val # 0, changes[d] = [val |-> val, local |-> TRUE, committed |-> FALSE]
    PROVE  ComputeDocumentChanges(view, changes)[d] = [val |-> val, local |-> TRUE]
<1>1. changes[d].val = val /\ changes[d].local = TRUE /\ changes[d].committed = FALSE
    OBVIOUS
<1>2. /\ view.docs[d] = [val |-> view.docs[d].val, local |-> view.docs[d].local]
      /\ view.docs[d].local \in BOOLEAN
    BY DEF Showing
<1>3. CASE ChangeApplied(view.docs[d], changes[d])
    BY <1>1, <1>3 DEF ComputeDocumentChanges
<1>4. CASE ~ChangeApplied(view.docs[d], changes[d])
  <2>1. view.docs[d].val = val /\ view.docs[d].local = TRUE
      BY <1>1, <1>2, <1>4 DEF ChangeApplied, ShouldWaitForSyncedDocument
  <2> QED
      BY <1>2, <1>4, <2>1 DEF ComputeDocumentChanges
<1> QED
    BY <1>3, <1>4

(* What changes is shown as a document is, and the rest as it was.         *)
LEMMA ChangesShowing ==
    ASSUME NEW s, NEW view, Showing(view.docs), NEW D
    PROVE  LET docs == ComputeDocumentChanges(view, [d \in D |-> LocalView(s, d)])
           IN  /\ Showing(docs)
               /\ \A d \in Doc \ D : docs[d] = view.docs[d]
<1> DEFINE changes == [d \in D |-> LocalView(s, d)]
           docs == ComputeDocumentChanges(view, changes)
<1>1. docs = [d \in Doc |-> docs[d]]
    BY DEF ComputeDocumentChanges
<1>2. ASSUME NEW d \in Doc
      PROVE  /\ docs[d] = [val |-> docs[d].val, local |-> docs[d].local]
             /\ docs[d].local \in BOOLEAN
  <2>1. CASE d \in D /\ ChangeApplied(view.docs[d], changes[d])
    <3>1. docs[d] = [val |-> changes[d].val, local |-> changes[d].local]
        BY <2>1 DEF ComputeDocumentChanges
    <3>2. changes[d] = LocalView(s, d) /\ LocalView(s, d).local \in BOOLEAN
        BY <2>1 DEF LocalView
    <3> QED
        BY <3>1, <3>2
  <2>2. CASE ~(d \in D /\ ChangeApplied(view.docs[d], changes[d]))
    <3>1. docs[d] = view.docs[d]
        BY <2>2 DEF ComputeDocumentChanges
    <3> QED
        BY <3>1 DEF Showing
  <2> QED
      BY <2>1, <2>2
<1>3. \A d \in Doc \ D : docs[d] = view.docs[d]
    BY DEF ComputeDocumentChanges
<1> QED
    BY <1>1, <1>2, <1>3 DEF Showing

(* A view that takes changes in shows the writes it showed and those it    *)
(* was told of.                                                            *)
LEMMA ChangesShowWrites ==
    ASSUME NEW s, HasFields(s), NEW view, Showing(view.docs), NEW D, NEW E,
           ShownOf(s.queue, view.docs, E \ D)
    PROVE  ShownOf(s.queue, ComputeDocumentChanges(view, [d \in D |-> LocalView(s, d)]), E)
<1> DEFINE changes == [d \in D |-> LocalView(s, d)]
           docs == ComputeDocumentChanges(view, changes)
<1>1. ASSUME NEW i \in DOMAIN s.queue, s.queue[i].doc \in E, Newest(s.queue, i)
      PROVE  docs[s.queue[i].doc] = [val |-> s.queue[i].val, local |-> TRUE]
  <2> DEFINE d == s.queue[i].doc
  <2>1. d \in Doc /\ s.queue[i].val # 0
      BY QueueOfWrites
  <2>2. CASE d \in D
    <3>1. changes[d] = [val |-> s.queue[i].val, local |-> TRUE, committed |-> FALSE]
        BY <1>1, <2>2, NewestIsLocal
    <3>2. d \in DOMAIN changes
        BY <2>2
    <3> HIDE DEF changes
    <3> QED
        BY <2>1, <3>1, <3>2, WriteIsApplied
  <2>3. CASE d \notin D
    <3>1. docs[d] = view.docs[d]
        BY <2>1, <2>3, ChangesShowing
    <3> QED
        BY <1>1, <2>3, <3>1 DEF ShownOf
  <2> QED
      BY <2>2, <2>3
<1> QED
    BY <1>1 DEF ShownOf

(* The documents a view is given are those it shows.                       *)
LEMMA ViewDocs ==
    ASSUME NEW view, "docs" \in DOMAIN view, NEW docs, NEW change
    PROVE  /\ ApplyChanges(view, docs, change).docs = docs
           /\ "docs" \in DOMAIN ApplyChanges(view, docs, change)
    BY DEF ApplyChanges, UpdateLimboDocuments, ApplyTargetChange

-----------------------------------------------------------------------------
(* What changes neither the queue nor the view.                            *)

Keeps(r, s) ==
    /\ Fields \subseteq DOMAIN r
    /\ r.queue = s.queue
    /\ r.view = s.view

LEMMA ResolvingKeeps ==
    ASSUME NEW s, Fields \subseteq DOMAIN s, NEW r
    PROVE  Keeps(Resolving(s, r), s)
    BY DEF Keeps, Resolving, Fields

LEMMA SendKeeps ==
    ASSUME NEW s, Fields \subseteq DOMAIN s, NEW request
    PROVE  Keeps(Send(s, request), s)
    BY DEF Keeps, Send, Fields

LEMMA PumpKeeps ==
    ASSUME NEW s, Fields \subseteq DOMAIN s
    PROVE  Keeps(PumpEnqueuedLimboResolutions(s), s)
    BY ResolvingKeeps DEF PumpEnqueuedLimboResolutions

LEMMA KeepsOn ==
    ASSUME NEW p, NEW q, NEW r, Keeps(p, q), Keeps(q, r)
    PROVE  Keeps(p, r)
    BY DEF Keeps

LEMMA KeptFits ==
    ASSUME NEW r, NEW s, Keeps(r, s), HasFields(s), HasView(s)
    PROVE  HasFields(r) /\ HasView(r)
    BY DEF Keeps, HasFields, HasView

(* What keeps the queue and the view keeps what is shown.                  *)
LEMMA KeptShows ==
    ASSUME NEW s, Shows(s), NEW r, Keeps(r, s)
    PROVE  Shows(r)
    BY KeptFits DEF Shows, Keeps

LEMMA FreshKeeps ==
    ASSUME NEW s, Fields \subseteq DOMAIN s
    PROVE  Keeps(Fresh(s), s)
    BY DEF Keeps, Fresh, Fields, NewAggregator

LEMMA ClosedKeeps ==
    ASSUME NEW s, Fields \subseteq DOMAIN s
    PROVE  Keeps(StreamClosed(s), s)
    BY DEF Keeps, StreamClosed, Fields, NewAggregator

(* The messages of the server.                                             *)
LEMMA DocumentKeeps ==
    ASSUME NEW s, Fields \subseteq DOMAIN s, NEW targets, NEW d, NEW document
    PROVE  Keeps(HandleDocumentChange(s, targets, d, document), s)
    BY DEF Keeps, HandleDocumentChange, Fields

LEMMA AnswersKeep ==
    ASSUME NEW s, Fields \subseteq DOMAIN s, NEW t
    PROVE  /\ Keeps(HandleAdded(s, t), s)
           /\ Keeps(HandleRemoved(s, t), s)
           /\ Keeps(HandleCurrent(s, t), s)
    BY DEF Keeps, HandleAdded, HandleRemoved, HandleCurrent, Fields

LEMMA FilterKeeps ==
    ASSUME NEW s, Fields \subseteq DOMAIN s, NEW t, NEW count
    PROVE  Keeps(HandleExistenceFilter(s, t, count), s)
    BY DocumentKeeps DEF Keeps, HandleExistenceFilter, ResetTarget, Fields

(* Remote events, up to the view.                                          *)
LEMMA LimboEventKeeps ==
    ASSUME NEW s, Fields \subseteq DOMAIN s, NEW event
    PROVE  Keeps(UpdateLimboResolutions(s, event), s)
    BY DEF Keeps, UpdateLimboResolutions, Fields

LEMMA FollowKeeps ==
    ASSUME NEW s, Fields \subseteq DOMAIN s, NEW change, NEW mismatch, NEW version
    PROVE  Keeps(FollowTarget(s, change, mismatch, version), s)
    BY DEF Keeps, FollowTarget, Fields

LEMMA PopulateKeeps ==
    ASSUME NEW s, Fields \subseteq DOMAIN s, NEW updates, NEW version
    PROVE  Keeps(PopulateDocumentChanges(s, updates, version), s)
    BY DEF Keeps, PopulateDocumentChanges, Fields

LEMMA RelistenKeeps ==
    ASSUME NEW s, Fields \subseteq DOMAIN s, NEW event
    PROVE  Keeps(Relisten(s, event), s)
<1> DEFINE left == Send(s, Unwatch(Query))
<1>1. Keeps(left, s)
    BY SendKeeps
<1>2. Keeps(Send(left, Watch(Query, Doc, 0)), left)
    BY <1>1, SendKeeps DEF Keeps
<1>3. Keeps(Send(left, Watch(Query, Doc, 0)), s)
    BY <1>1, <1>2, KeepsOn
<1>4. Keeps(s, s)
    BY DEF Keeps
<1> QED
    BY <1>3, <1>4 DEF Relisten

-----------------------------------------------------------------------------
(* What is raised to the listeners shows every write, if it did of the     *)
(* documents that did not change.                                          *)
LEMMA EmitShows ==
    ASSUME NEW s, HasFields(s), HasView(s), NEW D, NEW change,
           ShownOf(s.queue, s.view.docs, Doc \ D),
           NEW r, r = EmitNewSnapshots(s, D, change)
    PROVE  Shows(r)
<1> DEFINE docs == ComputeDocumentChanges(s.view, [d \in D |-> LocalView(s, d)])
           view == ApplyChanges(s.view, docs, change)
           shown == [s EXCEPT !.view = view, !.ok = @ /\ ModifiedAreSynced(s.view, change)]
           left == FoldLeft(RemoveLimboTarget, shown, InOrder(s.view.limbo \ view.limbo))
           last == FoldLeft(TrackLimboChange, left, InOrder(view.limbo \ s.view.limbo))
           tracked == Resolving(shown, last)
<1>1. Fields \subseteq DOMAIN s /\ s.queue \in Seq(Writes)
    BY DEF HasFields
<1>2. Showing(s.view.docs) /\ "docs" \in DOMAIN s.view
    BY DEF HasView
<1>3. Showing(docs)
    BY <1>2, ChangesShowing
<1>4. ShownOf(s.queue, docs, Doc)
    BY <1>2, ChangesShowWrites
<1>5. view.docs = docs /\ "docs" \in DOMAIN view
    BY <1>2, ViewDocs
<1>6. r = IF SnapshotRaised(s.view, view) /\ view.sync
          THEN NotifyLocalViewChanges(tracked) ELSE tracked
    BY DEF EmitNewSnapshots
<1> HIDE DEF docs, view, last
<1>7. Fields \subseteq DOMAIN shown /\ shown.queue = s.queue /\ shown.view = view
    BY <1>1 DEF Fields
<1> HIDE DEF shown
<1>8. Keeps(tracked, shown)
    BY <1>7, ResolvingKeeps
<1> HIDE DEF tracked
<1>9. Keeps(r, tracked)
    BY <1>6, <1>8 DEF Keeps, NotifyLocalViewChanges, Fields
<1>10. Fields \subseteq DOMAIN r /\ r.queue = s.queue /\ r.view = view
    BY <1>7, <1>8, <1>9 DEF Keeps
<1> QED
    BY <1>1, <1>3, <1>4, <1>5, <1>10 DEF Shows, HasFields, HasView

(* A remote event.                                                         *)
LEMMA RemoteEventShows ==
    ASSUME NEW s, Shows(s), NEW event,
           NEW r, r = ApplyRemoteEvent(s, event)
    PROVE  Shows(r)
<1> DEFINE followed == Query \in DOMAIN event.changes
           limbo == UpdateLimboResolutions(s, event)
           target == IF followed
                     THEN FollowTarget(limbo, event.changes[Query], event.mismatch, event.version)
                     ELSE limbo
           news == News(target, event.updates)
           populated == PopulateDocumentChanges(target, event.updates, event.version)
           stored == [populated EXCEPT
                         !.snapshot = IF event.version # 0 THEN event.version ELSE @,
                         !.ok = @ /\ \A d \in news :
                                         event.version # 0 \/ event.updates[d].version = 0]
           change == IF followed THEN event.changes[Query] ELSE NoTargetChange
<1>1. r = EmitNewSnapshots(stored, news, change)
    BY DEF ApplyRemoteEvent
<1>2. Keeps(limbo, s)
    BY LimboEventKeeps DEF Shows, HasFields
<1>3. Keeps(target, s)
  <2>1. CASE followed
      BY <1>2, <2>1, FollowKeeps, KeepsOn DEF Keeps
  <2>2. CASE ~followed
      BY <1>2, <2>2
  <2> QED
      BY <2>1, <2>2
<1> HIDE DEF target
<1>4. Keeps(populated, target)
    BY <1>3, PopulateKeeps DEF Keeps
<1> HIDE DEF populated
<1>5. Keeps(stored, populated)
    BY <1>4 DEF Keeps, Fields
<1> HIDE DEF stored, news, change
<1>6. Keeps(stored, s)
    BY <1>3, <1>4, <1>5, KeepsOn
<1>7. /\ HasFields(stored) /\ HasView(stored)
      /\ ShownOf(stored.queue, stored.view.docs, Doc \ news)
    BY <1>6, KeptShows DEF Shows, ShownOf
<1> QED
    BY <1>1, <1>7, EmitShows

(* A global snapshot of the watch stream.                                  *)
LEMMA SnapshotShows ==
    ASSUME NEW s, Shows(s), NEW version,
           NEW r, r = RaiseWatchSnapshot(s, version)
    PROVE  Shows(r)
<1> DEFINE event == RemoteEvent(s, version)
           cleared == ClearPendingChanges(s)
           noted == [cleared EXCEPT
                        !.active = [t \in DOMAIN @ |->
                            IF t \in DOMAIN event.changes THEN [@[t] EXCEPT !.token = version]
                            ELSE @[t]]]
           listened == Relisten(noted, event)
<1>1. r = ApplyRemoteEvent(listened, event)
    BY DEF RaiseWatchSnapshot
<1> HIDE DEF event
<1>2. Keeps(cleared, s)
    BY DEF Shows, Keeps, HasFields, ClearPendingChanges, Fields
<1> HIDE DEF cleared
<1>3. Keeps(noted, cleared)
    BY <1>2 DEF Keeps, Fields
<1> HIDE DEF noted
<1>4. Keeps(listened, noted)
    BY <1>3, RelistenKeeps DEF Keeps
<1> HIDE DEF listened
<1>5. Keeps(listened, s)
    BY <1>2, <1>3, <1>4, KeepsOn
<1>6. Shows(listened)
    BY <1>5, KeptShows
<1> QED
    BY <1>1, <1>6, RemoteEventShows

(* A limbo document the server refuses.                                    *)
LEMMA RejectedListenShows ==
    ASSUME NEW s, Shows(s), NEW t,
           NEW r, r = HandleRejectedListen(s, t)
    PROVE  Shows(r)
<1> DEFINE left == [s EXCEPT !.active = Forgotten(@, t), !.states[t] = NewState]
           pumped == PumpEnqueuedLimboResolutions(left)
           event == [version |-> 0, changes |-> <<>>, mismatch |-> FALSE,
                     updates |-> s.active[t].doc :> [val |-> 0, version |-> 0]]
<1>1. r = ApplyRemoteEvent(pumped, event)
    BY DEF HandleRejectedListen
<1> HIDE DEF event
<1>2. Keeps(left, s)
    BY DEF Shows, Keeps, HasFields, Fields
<1> HIDE DEF left
<1>3. Keeps(pumped, left)
    BY <1>2, PumpKeeps DEF Keeps
<1> HIDE DEF pumped
<1>4. Keeps(pumped, s)
    BY <1>2, <1>3, KeepsOn
<1>5. Shows(pumped)
    BY <1>4, KeptShows
<1> QED
    BY <1>1, <1>5, RemoteEventShows

-----------------------------------------------------------------------------
(* A new process.                                                          *)

(* However the query is answered, every document with a write is found.    *)
LEMMA WritesAreFound ==
    ASSUME NEW s, HasFields(s), NEW limboFree, NEW i \in DOMAIN s.queue, Newest(s.queue, i)
    PROVE  s.queue[i].doc \in GetDocumentsMatchingQuery(s, limboFree)
<1> DEFINE d == s.queue[i].doc
<1>1. d \in Doc /\ s.queue[i].val # 0
    BY QueueOfWrites
<1>2. LocalView(s, d) = [val |-> s.queue[i].val, local |-> TRUE, committed |-> FALSE]
    BY NewestIsLocal
<1>3. d \in Mutated(s)
    BY DEF Mutated, Range
<1> QED
    BY <1>1, <1>2, <1>3 DEF GetDocumentsMatchingQuery, FullCollectionScan, Matching

LEMMA ListeningShows ==
    ASSUME NEW s, HasFields(s), NEW r, r = Listening(s)
    PROVE  Shows(r)
<1> DEFINE new == NewView(s.keys)
           found == GetDocumentsMatchingQuery(s, s.limboFree)
           docs == ComputeDocumentChanges(new, [d \in found |-> LocalView(s, d)])
           view == ApplyChanges(new, docs, NoTargetChange)
<1>1. r = [s EXCEPT !.view = view]
    BY DEF Listening
<1>2. Showing(new.docs) /\ "docs" \in DOMAIN new
    BY DEF NewView, Showing, NotShown
<1>3. ShownOf(s.queue, new.docs, Doc \ found)
    BY WritesAreFound DEF ShownOf
<1> HIDE DEF new, found
<1>4. Showing(docs)
    BY <1>2, ChangesShowing
<1>5. ShownOf(s.queue, docs, Doc)
    BY <1>2, <1>3, ChangesShowWrites
<1> HIDE DEF docs
<1>6. view.docs = docs /\ "docs" \in DOMAIN view
    BY <1>2, ViewDocs
<1> HIDE DEF view
<1>7. Fields \subseteq DOMAIN r /\ r.queue = s.queue /\ r.view = view
    BY <1>1 DEF HasFields, Fields
<1> QED
    BY <1>4, <1>5, <1>6, <1>7 DEF Shows, HasFields, HasView

-----------------------------------------------------------------------------
(* Queues.                                                                 *)

SameWrites(q, queue) ==
    /\ DOMAIN q = DOMAIN queue
    /\ \A i \in DOMAIN queue : q[i].doc = queue[i].doc /\ q[i].val = queue[i].val

LEMMA SameShown ==
    ASSUME NEW queue, NEW q, SameWrites(q, queue), NEW docs, ShownOf(queue, docs, Doc)
    PROVE  ShownOf(q, docs, Doc)
    BY DEF SameWrites, ShownOf, Newest

(* The writes are sent again.                                              *)
LEMMA ResendKeeps ==
    ASSUME NEW queue \in Seq(Writes)
    PROVE  Resend(queue) \in Seq(Writes) /\ SameWrites(Resend(queue), queue)
<1>1. \A i \in DOMAIN queue : queue[i] \in Writes
    BY ElementOfSeq, LenProperties
<1>2. \A i \in DOMAIN queue : Resend(queue)[i] \in Writes
    BY <1>1 DEF Resend, Writes
<1>3. DOMAIN Resend(queue) = 1 .. Len(queue) /\ Len(queue) \in Nat
    BY LenProperties DEF Resend
<1>4. Resend(queue) = [i \in 1 .. Len(queue) |-> Resend(queue)[i]]
    BY <1>3 DEF Resend
<1>5. Resend(queue) \in Seq(Writes)
  <2> DEFINE e(i) == Resend(queue)[i]
  <2>1. \A i \in 1 .. Len(queue) : e(i) \in Writes
      BY <1>2, <1>3 DEF Resend
  <2> HIDE DEF e
  <2>2. [i \in 1 .. Len(queue) |-> e(i)] \in Seq(Writes)
      BY <1>3, <2>1, IsASeq
  <2> QED
      BY <1>4, <2>2 DEF e
<1>6. SameWrites(Resend(queue), queue)
    BY <1>1 DEF SameWrites, Resend, Writes
<1> QED
    BY <1>5, <1>6

(* One write more: those to other documents are shown as before.           *)
LEMMA AppendShown ==
    ASSUME NEW queue \in Seq(Writes), NEW w \in Writes, NEW docs, ShownOf(queue, docs, Doc)
    PROVE  /\ Append(queue, w) \in Seq(Writes)
           /\ ShownOf(Append(queue, w), docs, Doc \ {w.doc})
<1> DEFINE q == Append(queue, w)
           n == Len(queue)
<1>1. /\ n \in Nat
      /\ DOMAIN queue = 1 .. n
      /\ DOMAIN q = 1 .. (n + 1)
      /\ \A i \in 1 .. n : q[i] = queue[i]
      /\ q[n + 1] = w
    BY AppendProperties, LenProperties
<1>2. q \in Seq(Writes)
    BY AppendProperties
<1> HIDE DEF q, n
<1>3. ASSUME NEW i \in DOMAIN q, q[i].doc \in Doc \ {w.doc}, Newest(q, i)
      PROVE  docs[q[i].doc] = [val |-> q[i].val, local |-> TRUE]
  <2>1. i \in 1 .. n /\ q[i] = queue[i]
      BY <1>1, <1>3
  <2>2. Newest(queue, i)
      BY <1>1, <1>3, <2>1 DEF Newest
  <2> QED
      BY <1>1, <1>3, <2>1, <2>2 DEF ShownOf
<1>4. ShownOf(q, docs, Doc \ {w.doc})
    BY <1>3 DEF ShownOf
<1> QED
    BY <1>2, <1>4 DEF q

(* The first write leaves: those to other documents are shown as before.   *)
LEMMA TailShown ==
    ASSUME NEW queue \in Seq(Writes), queue # <<>>, NEW docs, ShownOf(queue, docs, Doc)
    PROVE  /\ Tail(queue) \in Seq(Writes)
           /\ ShownOf(Tail(queue), docs, Doc \ {Head(queue).doc})
<1> DEFINE q == Tail(queue)
           n == Len(q)
<1>1. /\ q \in Seq(Writes)
      /\ n \in Nat
      /\ Len(queue) = n + 1
      /\ \A i \in 1 .. n : q[i] = queue[i + 1]
      /\ Head(queue) = queue[1]
    BY HeadTailProperties, LenProperties
<1>2. DOMAIN queue = 1 .. (n + 1) /\ DOMAIN q = 1 .. n
    BY <1>1, LenProperties
<1> HIDE DEF q, n
<1>3. ASSUME NEW i \in DOMAIN q, q[i].doc \in Doc \ {Head(queue).doc}, Newest(q, i)
      PROVE  docs[q[i].doc] = [val |-> q[i].val, local |-> TRUE]
  <2>1. i + 1 \in DOMAIN queue /\ q[i] = queue[i + 1]
      BY <1>1, <1>2
  <2>2. ASSUME NEW j \in DOMAIN queue, queue[j].doc = queue[i + 1].doc
        PROVE  j <= i + 1
    <3>1. CASE j = 1
        BY <1>1, <1>2, <3>1
    <3>2. CASE j # 1
      <4>1. j - 1 \in DOMAIN q /\ q[j - 1] = queue[j]
          BY <1>1, <1>2, <3>2
      <4>2. j - 1 <= i
          BY <1>3, <2>1, <2>2, <4>1 DEF Newest
      <4> QED
          BY <1>1, <1>2, <4>2
    <3> QED
        BY <3>1, <3>2
  <2>3. Newest(queue, i + 1)
      BY <2>2 DEF Newest
  <2> QED
      BY <1>3, <2>1, <2>3 DEF ShownOf
<1>4. ShownOf(q, docs, Doc \ {Head(queue).doc})
    BY <1>3 DEF ShownOf
<1> QED
    BY <1>1, <1>4 DEF q

-----------------------------------------------------------------------------
(* The steps.                                                              *)

LEMMA InitShows ==
    ASSUME Init
    PROVE  IInv
<1>1. log \in Seq([doc : Doc, val : Nat])
  <2>1. PICK d \in Doc : log = <<[doc |-> d, val |-> 101]>>
      BY DEF Init
  <2> QED
      BY <2>1
<1>2. HasFields(NewClient)
    BY DEF HasFields, Fields, NewClient
<1>3. Shows(c)
    BY <1>2, ListeningShows DEF Init
<1> QED
    BY <1>1, <1>3 DEF Init, IInv

(* The user writes: the view is told of the document.                      *)
LEMMA WriteShows ==
    ASSUME IInv, NEW d \in Doc, NEW transform \in Transforms, Write(d, transform)
    PROVE  Shows(c')
<1> DEFINE w == [doc |-> d, val |-> issued + 1, transform |-> transform, version |-> 0]
           s == [c EXCEPT !.queue = Append(@, w)]
<1>1. Shows(c) /\ c.queue \in Seq(Writes) /\ Fields \subseteq DOMAIN c
    BY DEF IInv, Shows, HasFields
<1>2. w \in Writes
    BY TransformsAssumption DEF IInv, Writes
<1>3. s.queue = Append(c.queue, w) /\ s.view = c.view /\ Fields \subseteq DOMAIN s
    BY <1>1 DEF Fields
<1>4. c' = EmitNewSnapshots(s, {d}, NoTargetChange)
    BY DEF Write
<1>5. w.doc = d
    OBVIOUS
<1> HIDE DEF s, w
<1>6. /\ s.queue \in Seq(Writes)
      /\ ShownOf(s.queue, s.view.docs, Doc \ {d})
    BY <1>1, <1>2, <1>3, <1>5, AppendShown DEF Shows
<1>7. HasFields(s) /\ HasView(s)
    BY <1>1, <1>3, <1>6 DEF Shows, HasFields, HasView
<1> QED
    BY <1>4, <1>6, <1>7, EmitShows

(* The answer to the first write: the view is told of its document.        *)
LEMMA AnsweredShows ==
    ASSUME Shows(c), c.queue # <<>>, NEW s, Fields \subseteq DOMAIN s,
           s.queue = Tail(c.queue), s.view = c.view,
           NEW r, r = EmitNewSnapshots(s, {Head(c.queue).doc}, NoTargetChange)
    PROVE  Shows(r)
<1>1. c.queue \in Seq(Writes)
    BY DEF Shows, HasFields
<1>2. /\ s.queue \in Seq(Writes)
      /\ ShownOf(s.queue, s.view.docs, Doc \ {Head(c.queue).doc})
    BY <1>1, TailShown DEF Shows
<1>3. HasFields(s) /\ HasView(s)
    BY <1>2 DEF Shows, HasFields, HasView
<1> QED
    BY <1>2, <1>3, EmitShows

LEMMA AcknowledgedShows ==
    ASSUME Shows(c), HandleSuccessfulWrite
    PROVE  Shows(c')
<1>1. Fields \subseteq DOMAIN c
    BY DEF Shows, HasFields
<1>2. /\ Fields \subseteq DOMAIN AcknowledgeBatch(c)
      /\ AcknowledgeBatch(c).queue = Tail(c.queue)
      /\ AcknowledgeBatch(c).view = c.view
    BY <1>1 DEF AcknowledgeBatch, Fields
<1> QED
    BY <1>2, AnsweredShows DEF HandleSuccessfulWrite

LEMMA RejectedShows ==
    ASSUME Shows(c), HandleRejectedWrite
    PROVE  Shows(c')
<1>1. Fields \subseteq DOMAIN c
    BY DEF Shows, HasFields
<1>2. /\ Fields \subseteq DOMAIN RejectBatch(c)
      /\ RejectBatch(c).queue = Tail(c.queue)
      /\ RejectBatch(c).view = c.view
    BY <1>1 DEF RejectBatch, Fields
<1> QED
    BY <1>2, AnsweredShows DEF HandleRejectedWrite

(* A set of numbers has a least one.                                       *)
LEMMA Least ==
    ASSUME NEW N \in SUBSET Nat, N # {}
    PROVE  \E m \in N : \A n \in N : m <= n
<1>1. IsWellFoundedOn(OpToRel(<, Nat), Nat)
    BY NatLessThanWellFounded
<1>2. PICK m \in N : \A n \in N : ~(<<n, m>> \in OpToRel(<, Nat))
    BY <1>1, WFMin, Zenon
<1>3. ASSUME NEW n \in N
      PROVE  m <= n
  <2>1. n \in Nat /\ m \in Nat
      OBVIOUS
  <2>2. ~(n < m)
      BY <1>2, <2>1 DEF OpToRel
  <2> QED
      BY <2>1, <2>2
<1> QED
    BY <1>2, <1>3

(* The server commits: the write stays in the queue.                       *)
LEMMA CommittedShows ==
    ASSUME IInv, ServerCommits
    PROVE  Shows(c') /\ log' \in Seq([doc : Doc, val : Nat])
<1>1. c.queue \in Seq(Writes) /\ Fields \subseteq DOMAIN c /\ Shows(c)
    BY DEF IInv, Shows, HasFields
<1>2. Len(log) \in Nat /\ log \in Seq([doc : Doc, val : Nat])
    BY LenProperties DEF IInv
<1>3. PICK i \in Uncommitted :
          /\ log' = Append(log, [doc |-> c.queue[i].doc, val |-> Stored(c.queue[i])])
          /\ c' = [c EXCEPT !.queue[i].version = Len(log) + 1]
  <2> DEFINE first == CHOOSE j \in Uncommitted : \A k \in Uncommitted : j <= k
  <2>1. Uncommitted \subseteq Nat /\ Uncommitted # {}
    <3>1. DOMAIN c.queue \subseteq Nat
        BY <1>1, LenProperties
    <3> QED
        BY <3>1 DEF ServerCommits, Uncommitted
  <2>2. \E j \in Uncommitted : \A k \in Uncommitted : j <= k
      BY <2>1, Least
  <2>3. first \in Uncommitted
      BY <2>2
  <2> QED
      BY <2>3 DEF ServerCommits
<1>4. i \in 1 .. Len(c.queue) /\ c.queue[i] \in Writes
    BY <1>1, ElementOfSeq, LenProperties DEF Uncommitted
<1> DEFINE w == [c.queue[i] EXCEPT !.version = Len(log) + 1]
<1>5. w \in Writes /\ w.doc = c.queue[i].doc /\ w.val = c.queue[i].val
    BY <1>2, <1>4 DEF Writes
<1>6. c'.queue = [c.queue EXCEPT ![i] = w] /\ c'.view = c.view /\ Fields \subseteq DOMAIN c'
    BY <1>1, <1>3 DEF Fields
<1> HIDE DEF w
<1>7. c'.queue \in Seq(Writes)
    BY <1>1, <1>4, <1>5, <1>6, ExceptSeq
<1>8. SameWrites(c'.queue, c.queue)
    BY <1>1, <1>5, <1>6 DEF SameWrites
<1>9. ShownOf(c'.queue, c'.view.docs, Doc)
    BY <1>1, <1>6, <1>8, SameShown DEF Shows
<1>10. Shows(c')
    BY <1>1, <1>6, <1>7, <1>9 DEF Shows, HasFields, HasView
<1>11. [doc |-> c.queue[i].doc, val |-> Stored(c.queue[i])] \in [doc : Doc, val : Nat]
    BY <1>4 DEF Writes, Stored
<1>12. log' \in Seq([doc : Doc, val : Nat])
    BY <1>2, <1>3, <1>11
<1> QED
    BY <1>10, <1>12

(* The writes are sent again, by this process or the next.                 *)
LEMMA ResentShows ==
    ASSUME Shows(c), OnWriteStreamClose
    PROVE  Shows(c')
<1>1. c.queue \in Seq(Writes) /\ Fields \subseteq DOMAIN c
    BY DEF Shows, HasFields
<1>2. c'.queue = Resend(c.queue) /\ c'.view = c.view /\ Fields \subseteq DOMAIN c'
    BY <1>1 DEF OnWriteStreamClose, Fields
<1>3. c'.queue \in Seq(Writes) /\ SameWrites(c'.queue, c.queue)
    BY <1>1, <1>2, ResendKeeps
<1>4. ShownOf(c'.queue, c'.view.docs, Doc)
    BY <1>2, <1>3, SameShown DEF Shows
<1> QED
    BY <1>2, <1>3, <1>4 DEF Shows, HasFields, HasView

LEMMA RestartShows ==
    ASSUME Shows(c), Restart
    PROVE  Shows(c')
<1>1. c.queue \in Seq(Writes) /\ Fields \subseteq DOMAIN c
    BY DEF Shows, HasFields
<1> DEFINE s == Reloaded(c)
<1>2. s.queue = Resend(c.queue) /\ Fields \subseteq DOMAIN s
    BY <1>1 DEF Reloaded, Fields
<1> HIDE DEF s
<1>3. Keeps(Fresh(s), s)
    BY <1>2, FreshKeeps
<1>4. HasFields(Fresh(s))
    BY <1>1, <1>2, <1>3, ResendKeeps DEF HasFields, Keeps
<1>5. c' = Listening(Fresh(s))
    BY DEF Restart, s
<1> QED
    BY <1>4, <1>5, ListeningShows

(* Going offline the view keeps its documents.                             *)
LEMMA OfflineShows ==
    ASSUME Shows(c), HandleOffline
    PROVE  Shows(c')
<1> DEFINE old == [c.view EXCEPT !.current = FALSE]
           view == ApplyChanges(old, c.view.docs, NoTargetChange)
<1>1. "docs" \in DOMAIN old
    BY DEF Shows, HasView
<1>2. c' = [c EXCEPT !.view = view]
    BY DEF HandleOffline, ApplyOnlineStateChange
<1> HIDE DEF old
<1>3. view.docs = c.view.docs /\ "docs" \in DOMAIN view
    BY <1>1, ViewDocs
<1> HIDE DEF view
<1>4. Fields \subseteq DOMAIN c' /\ c'.queue = c.queue /\ c'.view = view
    BY <1>2 DEF Shows, HasFields, Fields
<1> QED
    BY <1>3, <1>4 DEF Shows, HasFields, HasView

(* The watch stream.                                                       *)
LEMMA OpenedShows ==
    ASSUME Shows(c), OnWatchStreamOpen
    PROVE  Shows(c')
<1> DEFINE opened == [c EXCEPT !.open = TRUE]
<1>1. Keeps(opened, c)
    BY DEF Shows, HasFields, Keeps, Fields
<1>2. PICK r : c' = Resolving(opened, r)
    BY DEF OnWatchStreamOpen
<1> HIDE DEF opened
<1>3. Keeps(c', opened)
    BY <1>1, <1>2, ResolvingKeeps DEF Keeps
<1> QED
    BY <1>1, <1>3, KeepsOn, KeptShows

LEMMA ReadsShow ==
    ASSUME Shows(c),
           (\E forgets \in BOOLEAN : ServerReadsWatch(forgets)) \/ ServerReadsUnwatch
    PROVE  Shows(c')
<1>1. Keeps(Answered, c)
    BY DEF Shows, HasFields, Keeps, Fields, Answered
<1>2. Fields \subseteq DOMAIN Answered
    BY <1>1 DEF Keeps
<1>3. ASSUME NEW forgets \in BOOLEAN, ServerReadsWatch(forgets)
      PROVE  Keeps(c', Answered)
    BY <1>2, <1>3, AnswersKeep DEF ServerReadsWatch
<1>4. ASSUME ServerReadsUnwatch
      PROVE  Keeps(c', Answered)
  <2>1. PICK t : \/ c' = HandleRemoved(Answered, t)
                \/ c' = [Answered EXCEPT !.states[t] = NewState]
      BY <1>4 DEF ServerReadsUnwatch
  <2> QED
      BY <1>2, <2>1, AnswersKeep DEF Keeps, Fields
<1> QED
    BY <1>1, <1>3, <1>4, KeepsOn, KeptShows

LEMMA MessagesShow ==
    ASSUME Shows(c),
           \/ \E d \in Doc, targets \in SUBSET OnTargets : ServerSendsDocument(d, targets)
           \/ \E t \in Target : ServerSendsCurrent(t) \/ ServerSendsFilter(t)
    PROVE  Shows(c')
<1>1. Fields \subseteq DOMAIN c
    BY DEF Shows, HasFields
<1>2. ASSUME NEW d \in Doc, NEW targets \in SUBSET OnTargets, ServerSendsDocument(d, targets)
      PROVE  Keeps(c', c)
    BY <1>1, <1>2, DocumentKeeps DEF ServerSendsDocument
<1>3. ASSUME NEW t \in Target, ServerSendsCurrent(t)
      PROVE  Keeps(c', c)
    BY <1>1, <1>3, AnswersKeep DEF ServerSendsCurrent
<1>4. ASSUME NEW t \in Target, ServerSendsFilter(t)
      PROVE  Keeps(c', c)
    BY <1>1, <1>4, FilterKeeps DEF ServerSendsFilter
<1> QED
    BY <1>2, <1>3, <1>4, KeptShows

-----------------------------------------------------------------------------
LEMMA Inductive ==
    ASSUME IInv, [Next]_vars
    PROVE  IInv'
<1>1. Shows(c) /\ Fields \subseteq DOMAIN c
    BY DEF IInv, Shows, HasFields
<1>2. issued' \in {issued, issued + 1}
    BY DEF Next, vars, Write, ServerCommits, HandleSuccessfulWrite,
           HandleRejectedWrite, ForeignWrite, OnWatchStreamOpen, OnWatchStreamClose,
           HandleOffline, OnWriteStreamClose, Restart, ServerSends, ServerReadsWatch,
           ServerReadsUnwatch, ServerFollows, ServerSendsDocument, ServerSendsCurrent,
           ServerSendsFilter, ServerSendsSnapshot, ServerRefuses
<1>3. log' \in Seq([doc : Doc, val : Nat])
  <2>1. CASE ServerCommits
      BY <2>1, CommittedShows
  <2>2. ASSUME NEW d \in Doc, ForeignWrite(d)
        PROVE  log' \in Seq([doc : Doc, val : Nat])
    <3>1. Len(log) \in Nat /\ log \in Seq([doc : Doc, val : Nat])
        BY LenProperties DEF IInv
    <3>2. PICK val \in Nat : log' = Append(log, [doc |-> d, val |-> val])
        BY <2>2, <3>1 DEF ForeignWrite
    <3> QED
        BY <3>1, <3>2
  <2>3. CASE log' = log
      BY <2>3 DEF IInv
  <2>4. log' = log \/ ServerCommits \/ \E d \in Doc : ForeignWrite(d)
      BY DEF Next, vars, Write, HandleSuccessfulWrite,
             HandleRejectedWrite, OnWatchStreamOpen, OnWatchStreamClose,
             HandleOffline, OnWriteStreamClose, Restart, ServerSends, ServerReadsWatch,
             ServerReadsUnwatch, ServerFollows, ServerSendsDocument, ServerSendsCurrent,
             ServerSendsFilter, ServerSendsSnapshot, ServerRefuses
  <2> QED
      BY <2>1, <2>2, <2>3, <2>4
<1>4. Shows(c')
  <2>1. ASSUME NEW d \in Doc, NEW transform \in Transforms, Write(d, transform)
        PROVE  Shows(c')
      BY <2>1, WriteShows
  <2>2. CASE ServerCommits
      BY <2>2, CommittedShows
  <2>3. CASE HandleSuccessfulWrite
      BY <1>1, <2>3, AcknowledgedShows
  <2>4. CASE HandleRejectedWrite
      BY <1>1, <2>4, RejectedShows
  <2>5. CASE OnWatchStreamOpen
      BY <1>1, <2>5, OpenedShows
  <2>6. CASE OnWatchStreamClose
      BY <1>1, <2>6, ClosedKeeps, KeptShows DEF OnWatchStreamClose
  <2>7. CASE HandleOffline
      BY <1>1, <2>7, OfflineShows
  <2>8. CASE OnWriteStreamClose
      BY <1>1, <2>8, ResentShows
  <2>9. CASE Restart
      BY <1>1, <2>9, RestartShows
  <2>10. CASE (\E forgets \in BOOLEAN : ServerReadsWatch(forgets)) \/ ServerReadsUnwatch
      BY <1>1, <2>10, ReadsShow
  <2>11. CASE \/ \E d \in Doc, targets \in SUBSET OnTargets : ServerSendsDocument(d, targets)
              \/ \E t \in Target : ServerSendsCurrent(t) \/ ServerSendsFilter(t)
      BY <1>1, <2>11, MessagesShow
  <2>12. CASE ServerSendsSnapshot
      BY <1>1, <2>12, SnapshotShows DEF ServerSendsSnapshot
  <2>13. ASSUME NEW t \in Target, ServerRefuses(t)
         PROVE  Shows(c')
      BY <1>1, <2>13, RejectedListenShows DEF ServerRefuses
  <2>14. CASE (\E d \in Doc : ForeignWrite(d)) \/ ServerFollows \/ UNCHANGED vars
      BY <1>1, <2>14 DEF ForeignWrite, ServerFollows, vars
  <2> QED
      BY <2>1, <2>2, <2>3, <2>4, <2>5, <2>6, <2>7, <2>8, <2>9, <2>10, <2>11, <2>12,
         <2>13, <2>14 DEF Next, ServerSends
<1> QED
    BY <1>2, <1>3, <1>4 DEF IInv

(***************************************************************************)
(* Latency compensation: the user's last write to a document is what is    *)
(* shown of it until the answer came, through acknowledgements, events of  *)
(* the watch stream, refused listens, broken streams and new processes.    *)
(***************************************************************************)
THEOREM WritesAreShown == Spec => []PendingShown
<1>1. Init => IInv
    BY InitShows
<1>2. IInv /\ [Next]_vars => IInv'
    BY Inductive
<1>3. IInv => PendingShown
    BY PendingIsShown DEF IInv, Shows
<1> QED
    BY <1>1, <1>2, <1>3, PTL DEF Spec
=============================================================================
