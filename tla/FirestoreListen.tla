--------------------------- MODULE FirestoreListen --------------------------
(***************************************************************************)
(* The Firestore client of Flash Chat: how the listener of the chat        *)
(* (addSnapshotListener on the messages) is kept up to date.               *)
(*                                                                         *)
(* One query is listened to for as long as the app runs.  A server that    *)
(* others write to as well sends what it has of the query over the watch   *)
(* stream, message by message, and says now and then that all of it is     *)
(* consistent; only then the client takes it over.  The user's own writes  *)
(* are shown at once, go to the server over another stream, and their      *)
(* acknowledgements overtake what the watch stream says of them or come    *)
(* after it.  Documents the device has and the server does not send are in *)
(* limbo and asked for one by one.  Streams break, the app is killed.      *)
(*                                                                         *)
(* c is the client, all of it: FirestoreLocal, FirestoreWatchChanges and   *)
(* FirestoreViews say what its fields are; here                            *)
(*   c.active    the limbo targets listened to: document, whether the      *)
(*               server sent it, and resume token                          *)
(*   c.waiting   the documents in limbo that wait for their turn           *)
(*   c.open      whether the watch stream is open                          *)
(*   c.up        the requests on it the server has not read                *)
(*   c.ok        whether every assertion held so far                       *)
(* srv is the server's end of the watch stream and log what was written,   *)
(* in order; both are modelled from what the client expects of them.       *)
(***************************************************************************)
EXTENDS FirestoreWatchChanges, TLC

CONSTANTS
    MaxConcurrentLimboResolutions,
    MaxOwn,         \* writes of the user: a bound
    MaxForeign,     \* writes of others: a bound
    MaxFaults,      \* how often a stream breaks or the app is killed: a bound
    FilterSettles   \* whether nothing is sent after it before the next snapshot

VARIABLES log, srv, c, issued, foreign, faults

vars == <<log, srv, c, issued, foreign, faults>>

-----------------------------------------------------------------------------
(***************************************************************************)
(* The server's log.                                                       *)
(***************************************************************************)
Changes(d, upTo) == {i \in 1 .. upTo : log[i].doc = d}

LastChange(d, upTo) ==
    IF Changes(d, upTo) = {} THEN 0 ELSE CHOOSE i \in Changes(d, upTo) :
                                             \A j \in Changes(d, upTo) : j <= i

ServerValue(d, version) ==
    IF LastChange(d, version) = 0 THEN 0 ELSE log[LastChange(d, version)].val

(***************************************************************************)
(* A target as the server follows it: up to which of its changes each      *)
(* document was sent.                                                      *)
(***************************************************************************)
Off == [on |-> FALSE, docs |-> {}, seen |-> [d \in Doc |-> 0], current |-> FALSE,
        filter |-> FALSE]

ClosedServer == [ver |-> 0, news |-> FALSE, filtered |-> FALSE, target |-> [t \in Target |-> Off]]

Unsent(t, d) == Changes(d, srv.ver) \ (1 .. srv.target[t].seen[d])

CaughtUp(t) == \A d \in srv.target[t].docs : Unsent(t, d) = {}

OnTargets == {t \in Target : srv.target[t].on}

-----------------------------------------------------------------------------
(***************************************************************************)
(* Requests over the watch stream, if it is open.                          *)
(***************************************************************************)
Watch(t, docs, token) == [op |-> "watch", target |-> t, docs |-> docs, token |-> token]
Unwatch(t) == [op |-> "unwatch", target |-> t, docs |-> {}, token |-> 0]

Send(s, request) ==
    IF s.open
    THEN [s EXCEPT !.up = Append(@, request),
                   !.states[request.target].outstanding = @ + 1]
    ELSE s

(***************************************************************************)
(* Limbo documents: asked for in turn, a few at a time, under an id that   *)
(* was never used.                                                         *)
(***************************************************************************)
Unused(s, t) ==
    /\ t \notin DOMAIN s.active
    /\ s.states[t].outstanding = 0
    /\ \A i \in DOMAIN s.up : s.up[i].target # t

(***************************************************************************)
(* What becomes of s with the limbo documents and the requests of r: limbo *)
(* comes and goes without the store, the view or what was collected.       *)
(***************************************************************************)
Resolving(s, r) ==
    [s EXCEPT !.waiting = r.waiting, !.active = r.active,
              !.states = r.states, !.up = r.up]

StartResolution(s, d) ==
    LET t == CHOOSE u \in LimboTarget : Unused(s, u)
    IN  Send([s EXCEPT !.waiting = Tail(@),
                       !.active = (t :> [doc |-> d, received |-> FALSE, token |-> 0]) @@ @],
             Watch(t, {d}, 0))

PumpEnqueuedLimboResolutions(s) ==
    LET free == MaxConcurrentLimboResolutions - Cardinality(DOMAIN s.active)
        n == IF free < Len(s.waiting) THEN free ELSE Len(s.waiting)
    IN  Resolving(s, FoldLeft(StartResolution, s, SubSeq(s.waiting, 1, n)))

TargetsFor(s, d) == {t \in DOMAIN s.active : s.active[t].doc = d}

TrackLimboChange(s, d) ==
    IF TargetsFor(s, d) # {} \/ d \in Range(s.waiting) THEN s
    ELSE PumpEnqueuedLimboResolutions([s EXCEPT !.waiting = Append(@, d)])

Forgotten(active, t) == [u \in DOMAIN active \ {t} |-> active[u]]

Fault_NoPump(s, d) ==
    LET quiet == [s EXCEPT !.waiting = SelectSeq(@, LAMBDA e : e # d)]
    IN  IF TargetsFor(s, d) = {} THEN quiet
        ELSE LET t == CHOOSE u \in TargetsFor(s, d) : TRUE
             IN  [Send(quiet, Unwatch(t)) EXCEPT !.active = Forgotten(@, t)]

RemoveLimboTarget(s, d) ==
    LET quiet == [s EXCEPT !.waiting = SelectSeq(@, LAMBDA e : e # d)]
    IN  IF TargetsFor(s, d) = {} THEN quiet
        ELSE LET t == CHOOSE u \in TargetsFor(s, d) : TRUE
             IN  PumpEnqueuedLimboResolutions(
                     [Send(quiet, Unwatch(t)) EXCEPT !.active = Forgotten(@, t)])

(***************************************************************************)
(* Documents changed on the device: the view follows, then its limbo, then *)
(* the store learns whether the view was as of the server.                 *)
(***************************************************************************)
InOrder(docs) == SetToSortSeq(docs, <)

EmitNewSnapshots(s, docs, change) ==
    LET view == ApplyChanges(s.view,
                    ComputeDocumentChanges(s.view, [d \in docs |-> LocalView(s, d)]), change)
        shown == [s EXCEPT !.view = view, !.ok = @ /\ ModifiedAreSynced(s.view, change)]
        left == FoldLeft(RemoveLimboTarget, shown, InOrder(s.view.limbo \ view.limbo))
        tracked == Resolving(shown,
                       FoldLeft(TrackLimboChange, left, InOrder(view.limbo \ s.view.limbo)))
    IN  IF SnapshotRaised(s.view, view) /\ view.sync
        THEN NotifyLocalViewChanges(tracked) ELSE tracked

(***************************************************************************)
(* A remote event: limbo targets note whether their document came, with    *)
(* the assertions of the code, then the store and the view take it.        *)
(***************************************************************************)
Touched(change) == change.added \union change.modified \union change.removed

ReceivedAfter(received, change) ==
    IF change.added # {} THEN TRUE
    ELSE IF change.modified = {} /\ change.removed # {} THEN FALSE
    ELSE received

LimboChanges(s, event) == DOMAIN event.changes \intersect DOMAIN s.active

UpdateLimboResolutions(s, event) ==
    [s EXCEPT
        !.active = [t \in DOMAIN @ |->
            IF t \in DOMAIN event.changes
            THEN [@[t] EXCEPT !.received = ReceivedAfter(@, event.changes[t])]
            ELSE @[t]],
        !.ok = @ /\ \A t \in LimboChanges(s, event) :
                        LET change == event.changes[t]
                        IN  /\ Cardinality(Touched(change)) <= 1
                            /\ Touched(change) \ change.added # {} => s.active[t].received]

ApplyRemoteEvent(s, event) ==
    LET followed == Query \in DOMAIN event.changes
        limbo == UpdateLimboResolutions(s, event)
        target == IF followed
                  THEN FollowTarget(limbo, event.changes[Query], event.mismatch, event.version)
                  ELSE limbo
        news == News(target, event.updates)
        stored == [PopulateDocumentChanges(target, event.updates, event.version) EXCEPT
                      !.snapshot = IF event.version # 0 THEN event.version ELSE @,
                      !.ok = @ /\ \A d \in news : event.version # 0 \/ event.updates[d].version = 0]
    IN  EmitNewSnapshots(stored, news, IF followed THEN event.changes[Query] ELSE NoTargetChange)


Relisten(s, event) ==
    IF event.mismatch
    THEN Send(Send(s, Unwatch(Query)), Watch(Query, Doc, 0))
    ELSE s

RaiseWatchSnapshot(s, version) ==
    LET event == RemoteEvent(s, version)
        noted == [ClearPendingChanges(s) EXCEPT
                     !.active = [t \in DOMAIN @ |->
                         IF t \in DOMAIN event.changes THEN [@[t] EXCEPT !.token = version]
                         ELSE @[t]]]
    IN  ApplyRemoteEvent(Relisten(noted, event), event)

(***************************************************************************)
(* The server refuses to listen to a limbo document: it counts as gone.    *)
(***************************************************************************)
HandleRejectedListen(s, t) ==
    LET d == s.active[t].doc
        pumped == PumpEnqueuedLimboResolutions(
                      [s EXCEPT !.active = Forgotten(@, t), !.states[t] = NewState])
    IN  ApplyRemoteEvent(pumped,
            [version |-> 0, changes |-> <<>>, mismatch |-> FALSE,
             updates |-> d :> [val |-> 0, version |-> 0]])

-----------------------------------------------------------------------------
(***************************************************************************)
(* A client that was never used.                                           *)
(***************************************************************************)
NewClient ==
    [cache |-> [d \in Doc |-> NoDocument], queue |-> <<>>, keys |-> {}, token |-> 0,
     limboFree |-> 0, disk |-> [token |-> 0, limboFree |-> 0], snapshot |-> 0,
     view |-> NewView({}), states |-> [t \in Target |-> NewState], updates |-> <<>>,
     mismatch |-> FALSE, active |-> <<>>, waiting |-> <<>>, open |-> FALSE, up |-> <<>>,
     ok |-> TRUE]

(***************************************************************************)
(* A new process listens to the query and shows what the device has.       *)
(***************************************************************************)
Fresh(s) ==
    [NewAggregator(s) EXCEPT !.active = <<>>, !.waiting = <<>>, !.open = FALSE, !.up = <<>>]

Listening(s) ==
    LET view == NewView(s.keys)
        found == GetDocumentsMatchingQuery(s, s.limboFree)
        docs == ComputeDocumentChanges(view, [d \in found |-> LocalView(s, d)])
    IN  [s EXCEPT !.view = ApplyChanges(view, docs, NoTargetChange)]

(***************************************************************************)
(* At first one document is on the server and nothing on the device.       *)
(***************************************************************************)
Init ==
    /\ \E d \in Doc : log = <<[doc |-> d, val |-> 101]>>
    /\ srv = ClosedServer
    /\ c = Listening(NewClient)
    /\ issued = 0
    /\ foreign = 0
    /\ faults = 0

(***************************************************************************)
(* The user writes a document.                                             *)
(***************************************************************************)
Write(d, transform) ==
    /\ issued < MaxOwn
    /\ issued' = issued + 1
    /\ c' = EmitNewSnapshots(
                [c EXCEPT !.queue = Append(@, [doc |-> d, val |-> issued + 1,
                                               transform |-> transform, version |-> 0])],
                {d}, NoTargetChange)
    /\ UNCHANGED <<log, srv, foreign, faults>>

(***************************************************************************)
(* The server commits the first write it has not; its answer comes later.  *)
(* Or it rejects the one in front, if it never committed it before.        *)
(***************************************************************************)
CommittedAt(val) == {i \in DOMAIN log : log[i].val \in {val, 50 + val}}

Uncommitted == {i \in DOMAIN c.queue : c.queue[i].version = 0}

ServerCommits ==
    /\ Uncommitted # {}
    /\ LET i == CHOOSE j \in Uncommitted : \A k \in Uncommitted : j <= k
       IN  /\ log' = Append(log, [doc |-> c.queue[i].doc, val |-> Stored(c.queue[i])])
           /\ c' = [c EXCEPT !.queue[i].version = Len(log) + 1]
    /\ UNCHANGED <<srv, issued, foreign, faults>>

HandleSuccessfulWrite ==
    /\ c.queue # <<>>
    /\ Head(c.queue).version # 0
    /\ c' = EmitNewSnapshots(AcknowledgeBatch(c), {Head(c.queue).doc}, NoTargetChange)
    /\ UNCHANGED <<log, srv, issued, foreign, faults>>

HandleRejectedWrite ==
    /\ c.queue # <<>>
    /\ Head(c.queue).version = 0
    /\ CommittedAt(Head(c.queue).val) = {}
    /\ c' = EmitNewSnapshots(RejectBatch(c), {Head(c.queue).doc}, NoTargetChange)
    /\ UNCHANGED <<log, srv, issued, foreign, faults>>

(***************************************************************************)
(* Others write a document or delete it.                                   *)
(***************************************************************************)
ForeignWrite(d) ==
    /\ foreign < MaxForeign
    /\ foreign' = foreign + 1
    /\ \/ log' = Append(log, [doc |-> d, val |-> 101 + Len(log)])
       \/ /\ ServerValue(d, Len(log)) # 0
          /\ log' = Append(log, [doc |-> d, val |-> 0])
    /\ UNCHANGED <<srv, c, issued, faults>>

-----------------------------------------------------------------------------
(***************************************************************************)
(* The watch stream opens: everything listened to is asked for again, in   *)
(* any order.                                                              *)
(***************************************************************************)
Request(t) ==
    IF t = Query THEN Watch(Query, Doc, c.token)
    ELSE Watch(t, {c.active[t].doc}, c.active[t].token)

OnWatchStreamOpen ==
    /\ ~c.open
    /\ \E order \in SetToSeqs({Query} \union DOMAIN c.active) :
           LET opened == [c EXCEPT !.open = TRUE]
           IN  c' = Resolving(opened, FoldLeft(Send, opened,
                                   [i \in DOMAIN order |-> Request(order[i])]))
    /\ UNCHANGED <<log, srv, issued, foreign, faults>>

(***************************************************************************)
(* The stream breaks: what was collected is dropped.                       *)
(***************************************************************************)
StreamClosed(s) == [NewAggregator(s) EXCEPT !.open = FALSE, !.up = <<>>]

OnWatchStreamClose ==
    /\ c.open
    /\ faults < MaxFaults
    /\ faults' = faults + 1
    /\ c' = StreamClosed(c)
    /\ srv' = ClosedServer
    /\ UNCHANGED <<log, issued, foreign>>

HandleOffline ==
    /\ ~c.open
    /\ c.view.current
    /\ c' = [c EXCEPT !.view = ApplyOnlineStateChange(@)]
    /\ UNCHANGED <<log, srv, issued, foreign, faults>>

(***************************************************************************)
(* The answers to writes are lost, and the writes sent again.              *)
(***************************************************************************)
OnWriteStreamClose ==
    /\ Len(c.queue) > Cardinality(Uncommitted)
    /\ faults < MaxFaults
    /\ faults' = faults + 1
    /\ c' = [c EXCEPT !.queue = Resend(@)]
    /\ UNCHANGED <<log, srv, issued, foreign>>

Restart ==
    /\ faults < MaxFaults
    /\ faults' = faults + 1
    /\ c' = Listening(Fresh(Reloaded(c)))
    /\ srv' = ClosedServer
    /\ UNCHANGED <<log, issued, foreign>>

-----------------------------------------------------------------------------
(***************************************************************************)
(* The server reads a request.  From then on it has caught up with what    *)
(* was written till then.  It sends what there is; with a token, what      *)
(* changed since, of which it may have forgotten the deletions: then it    *)
(* sends an existence filter.                                              *)
(***************************************************************************)
Known(token, d) == token # 0 /\ ServerValue(d, token) # 0

Deleted(token, docs) ==
    {d \in docs : LastChange(d, Len(log)) > token /\ ServerValue(d, Len(log)) = 0
                  /\ Known(token, d)}

SeenAt(request, d, forgets) ==
    LET last == LastChange(d, Len(log))
        unseen == ServerValue(d, Len(log)) # 0 \/ (~forgets /\ Known(request.token, d))
    IN  IF last > request.token /\ unseen THEN last - 1 ELSE last

Followed(request, forgets) ==
    [on |-> TRUE, docs |-> request.docs,
     seen |-> [d \in Doc |-> SeenAt(request, d, forgets)],
     current |-> FALSE, filter |-> forgets]

MayFollow == srv.filtered => ~FilterSettles

Answered == [c EXCEPT !.up = Tail(@)]

ServerReadsWatch(forgets) ==
    LET request == Head(c.up) IN
    /\ c.up # <<>>
    /\ request.op = "watch"
    /\ forgets => Deleted(request.token, request.docs) # {}
    /\ MayFollow
    /\ srv' = [ver |-> Len(log), news |-> TRUE, filtered |-> srv.filtered,
               target |-> [srv.target EXCEPT ![request.target] = Followed(request, forgets)]]
    /\ c' = HandleAdded(Answered, request.target)
    /\ UNCHANGED <<log, issued, foreign, faults>>

(***************************************************************************)
(* An Unwatch of a target that the server has refused in the meantime gets *)
(* no answer, and its id is never used again.                              *)
(***************************************************************************)
ServerReadsUnwatch ==
    LET t == Head(c.up).target IN
    /\ c.up # <<>>
    /\ Head(c.up).op = "unwatch"
    /\ srv' = [srv EXCEPT !.target[t] = Off]
    /\ c' = IF srv.target[t].on THEN HandleRemoved(Answered, t)
            ELSE [Answered EXCEPT !.states[t] = NewState]
    /\ UNCHANGED <<log, issued, foreign, faults>>

(***************************************************************************)
(* The server follows the log, sends each change of a document to the      *)
(* targets it is in, together or one by one, and says that a target is     *)
(* current.                                                                *)
(***************************************************************************)
ServerFollows ==
    /\ OnTargets # {}
    /\ srv.ver < Len(log)
    /\ MayFollow
    /\ srv' = [srv EXCEPT !.ver = @ + 1, !.news = TRUE]
    /\ UNCHANGED <<log, c, issued, foreign, faults>>

ServerSendsDocument(d, targets) ==
    /\ targets # {}
    /\ \A t \in targets : d \in srv.target[t].docs /\ Unsent(t, d) # {}
    /\ \E n \in Changes(d, srv.ver) :
           /\ \A t \in targets : n \in Unsent(t, d) /\ \A m \in Unsent(t, d) : n <= m
           /\ c' = HandleDocumentChange(c, targets, d, [val |-> log[n].val, version |-> n])
           /\ srv' = [srv EXCEPT !.target = [t \in Target |->
                          IF t \in targets THEN [@[t] EXCEPT !.seen[d] = n] ELSE @[t]]]
    /\ UNCHANGED <<log, issued, foreign, faults>>

ServerSendsCurrent(t) ==
    /\ srv.target[t].on
    /\ ~srv.target[t].current
    /\ CaughtUp(t)
    /\ srv' = [srv EXCEPT !.target[t].current = TRUE]
    /\ c' = HandleCurrent(c, t)
    /\ UNCHANGED <<log, issued, foreign, faults>>

ServerSendsFilter(t) ==
    /\ srv.target[t].filter
    /\ CaughtUp(t)
    /\ srv' = [srv EXCEPT !.target[t].filter = FALSE, !.filtered = TRUE]
    /\ c' = HandleExistenceFilter(c, t,
                Cardinality({d \in srv.target[t].docs : ServerValue(d, srv.ver) # 0}))
    /\ UNCHANGED <<log, issued, foreign, faults>>

Settled ==
    /\ OnTargets # {}
    /\ \A t \in OnTargets : srv.target[t].current /\ ~srv.target[t].filter /\ CaughtUp(t)

(***************************************************************************)
(* All the server has said is consistent.  A version before the last one   *)
(* raises nothing.                                                         *)
(***************************************************************************)
ServerSendsSnapshot ==
    /\ srv.news
    /\ Settled
    /\ srv' = [srv EXCEPT !.news = FALSE, !.filtered = FALSE]
    /\ c' = IF srv.ver >= c.snapshot THEN RaiseWatchSnapshot(c, srv.ver) ELSE c
    /\ UNCHANGED <<log, issued, foreign, faults>>

(***************************************************************************)
(* The rules of the server refuse to show a document that is not there.    *)
(***************************************************************************)
ServerRefuses(t) ==
    /\ t # Query
    /\ srv.target[t].on
    /\ \A d \in srv.target[t].docs : ServerValue(d, srv.ver) = 0
    /\ srv' = [srv EXCEPT !.target[t] = Off]
    /\ c' = IF t \in DOMAIN c.active THEN HandleRejectedListen(c, t) ELSE c
    /\ UNCHANGED <<log, issued, foreign, faults>>

ServerSends ==
    \/ \E forgets \in BOOLEAN : ServerReadsWatch(forgets)
    \/ ServerReadsUnwatch
    \/ ServerFollows
    \/ \E d \in Doc, targets \in SUBSET OnTargets : ServerSendsDocument(d, targets)
    \/ \E t \in Target : ServerSendsCurrent(t) \/ ServerSendsFilter(t)
    \/ ServerSendsSnapshot

Next ==
    \/ \E d \in Doc, transform \in Transforms : Write(d, transform)
    \/ ServerCommits
    \/ HandleSuccessfulWrite
    \/ HandleRejectedWrite
    \/ \E d \in Doc : ForeignWrite(d)
    \/ OnWatchStreamOpen
    \/ OnWatchStreamClose
    \/ HandleOffline
    \/ OnWriteStreamClose
    \/ Restart
    \/ ServerSends
    \/ \E t \in Target : ServerRefuses(t)

Spec == Init /\ [][Next]_vars

-----------------------------------------------------------------------------
(***************************************************************************)
(* Types; ids for limbo targets never run out.                             *)
(***************************************************************************)
Shown == [val : Nat, local : BOOLEAN]

TypeOK ==
    /\ log \in Seq([doc : Doc, val : Nat])
    /\ c.cache \in [Doc -> [val : Nat, version : Nat, committed : BOOLEAN, read : Nat]]
    /\ c.queue \in Seq([doc : Doc, val : Nat, transform : BOOLEAN, version : Nat])
    /\ c.view.docs \in [Doc -> Shown]
    /\ c.keys \union c.view.synced \union c.view.limbo \subseteq Doc
    /\ DOMAIN c.active \subseteq LimboTarget
    /\ \A t \in Target : c.states[t].outstanding \in 0 .. 3
    /\ DOMAIN c.updates \subseteq Doc
    /\ {c.token, c.limboFree, c.snapshot} \subseteq 0 .. Len(log)
    /\ \A t \in OnTargets : c.open

(***************************************************************************)
(* No assertion of the code fails, whatever the order of messages:         *)
(* a view knows a document that changed in it (view.cc:352), a limbo       *)
(* document comes alone, and before it changes or goes                     *)
(* (sync_engine.cc:288-298), and only made up documents come without a     *)
(* version (local_store.cc:622).                                           *)
(***************************************************************************)
AssertsHold == c.ok

(***************************************************************************)
(* What is raised as of the server (from_cache is false) is what the       *)
(* server had: each document without writes of the user is as it was at    *)
(* the version of the query or, if it was resolved from limbo, later.      *)
(***************************************************************************)
SyncedIsServer ==
    c.view.sync =>
        \A d \in Doc :
            \/ c.view.docs[d].local
            \/ \E v \in c.token .. c.snapshot : c.view.docs[d].val = ServerValue(d, v)

(***************************************************************************)
(* Latency compensation: whatever comes from the server, the user's last   *)
(* write to a document is what is shown of it until the answer came.       *)
(***************************************************************************)
IsLastOf(i) == \A j \in DOMAIN c.queue : c.queue[j].doc = c.queue[i].doc => j <= i

PendingShown ==
    \A i \in DOMAIN c.queue :
        IsLastOf(i) => c.view.docs[c.queue[i].doc] = [val |-> c.queue[i].val, local |-> TRUE]

(***************************************************************************)
(* What is shown of a document never goes back to something older, not     *)
(* when an acknowledgement and the watch stream overtake each other, not   *)
(* when the app is started again: it becomes a write of the user that      *)
(* waits, or something the server had after it; unless it was a write that *)
(* was rejected, or the server refuses to show the document.               *)
(***************************************************************************)
IsQueued(queue, d, val) == \E i \in DOMAIN queue : queue[i].doc = d /\ queue[i].val = val

WasRejected(d, val) ==
    val # 0 /\ CommittedAt(val) = {} /\ ~IsQueued(c.queue, d, val)

After(d, old, new) ==
    \/ IsQueued(c'.queue, d, new)
    \/ WasRejected(d, old)
    \/ \E i \in DOMAIN log' :
           /\ log'[i].doc = d
           /\ log'[i].val = new
           /\ old = 0 => i > c.cache[d].version \/ c.cache[d].val # 0
           /\ old # 0 => \E j \in CommittedAt(old) : j < i \/ (j = i /\ new # old)

NeverGoesBack ==
    [][HandleRejectedWrite
       \/ \E t \in Target : ServerRefuses(t)
       \/ \A d \in Doc : LET old == c.view.docs[d].val new == c'.view.docs[d].val
                         IN  old # new => After(d, old, new)]_vars

(***************************************************************************)
(* Nothing is asked for that is not in limbo, nothing twice, never more at *)
(* a time than allowed, and never fewer when some wait: a resolution ends  *)
(* by an event, by a refusal, by a write of the user or by the view.       *)
(***************************************************************************)
Asked == {c.active[t].doc : t \in DOMAIN c.active} \union Range(c.waiting)

LimboIsTracked ==
    LET active == Cardinality(DOMAIN c.active) IN
    /\ Asked \subseteq c.view.limbo
    /\ active + Len(c.waiting) = Cardinality(Asked)
    /\ active <= MaxConcurrentLimboResolutions
    /\ c.waiting # <<>> => active = MaxConcurrentLimboResolutions

(***************************************************************************)
(* A new process that answers the query from the keys of the last view and *)
(* from what was read since misses nothing a scan of all documents would   *)
(* find, but for documents the server did not have in that view.           *)
(***************************************************************************)
ReuseIsSound ==
    LET free == c.disk.limboFree
        found == GetDocumentsMatchingQuery(c, free)
    IN  \A d \in FullCollectionScan(c) \ found : ServerValue(d, free) = 0

(***************************************************************************)
(* What the client keeps of its targets, of limbo and of the cache is in   *)
(* order after every message and every event.                              *)
(***************************************************************************)
Inv == TypeOK /\ AssertsHold /\ LimboIsTracked /\ ReuseIsSound

(***************************************************************************)
(* A write that was rejected is not shown any more: only the event for a   *)
(* write acknowledgment is held back (view.cc:237-243).                    *)
(***************************************************************************)
RejectedIsTakenBack ==
    \A d \in Doc : c.view.docs[d].local => ~WasRejected(d, c.view.docs[d].val)

-----------------------------------------------------------------------------
(***************************************************************************)
(* The client opens its stream again after each end (remote_store.cc:233), *)
(* and the server goes on answering, following and committing: something   *)
(* of this is done as long as any of it can be.  FairSpec is WF_vars(Works)*)
(* with what enables Works written out, which TLC evaluates much faster.   *)
(***************************************************************************)
Works ==
    \/ OnWatchStreamOpen
    \/ ServerCommits
    \/ HandleSuccessfulWrite
    \/ ServerSends

CanSend(t) ==
    /\ srv.target[t].on
    /\ \/ ~CaughtUp(t)
       \/ srv.target[t].filter
       \/ ~srv.target[t].current

ServerCanSend ==
    \/ c.up # <<>> /\ (Head(c.up).op = "watch" => MayFollow)
    \/ OnTargets # {} /\ srv.ver < Len(log) /\ MayFollow
    \/ \E t \in Target : CanSend(t)
    \/ srv.news /\ Settled

AtRest == c.open /\ c.queue = <<>> /\ ~ServerCanSend

FairSpec == Spec /\ ([]<>AtRest \/ []<><<Works>>_vars)


(***************************************************************************)
(* An acknowledged write is not shown as pending for ever: its event is    *)
(* held back "as Watch will send us the same document again"               *)
(* (view.cc:237-243).                                                      *)
(***************************************************************************)
PendingEnds == <>[](\A d \in Doc : ~c.view.docs[d].local)
=============================================================================
