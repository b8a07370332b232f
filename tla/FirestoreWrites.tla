--------------------------- MODULE FirestoreWrites ----------------------------
(***************************************************************************)
(* The Firestore client of Flash Chat: the way of a write from the app to  *)
(* the server and of the answer back to the app.                           *)
(*                                                                         *)
(* Everything the client does runs on one serial worker queue.  A write is *)
(* stored in the mutation queue of the user who is signed in, the first    *)
(* few batches of that queue are the write pipeline, and a stream to the   *)
(* server, opened with a token of the user, carries the pipeline.  The     *)
(* results carry no name: the client takes each to be about the batch in   *)
(* front of its pipeline.  Streams break, users change while a token is    *)
(* being fetched, the app is killed; a write must reach the server under   *)
(* its own user all the same, in its order, and the app must not be told   *)
(* it did before it has.                                                   *)
(*                                                                         *)
(* Three queues meet here: FIRAuth's work queue, where the user changes    *)
(* and tokens are handed out; the main queue, where FIRAuth posts its      *)
(* notifications and calls back with tokens; and the worker queue.         *)
(***************************************************************************)
EXTENDS Integers, Sequences, FiniteSets, SequencesExt

CONSTANTS
    User,
    FirstUser,      \* who is signed in at first
    LastWrite,      \* the writes are 1 .. LastWrite, in the order of the app's calls: a bound
    MaxPending,     \* kMaxPendingWrites
    MaxFaults       \* how often a user changes, a call breaks, the network is
                    \* turned off or changes, the app is killed, or the app
                    \* waits for its writes, in all: a bound

NoToken == "no token"
Failed == "failed"

ASSUME UserAssumption == FirstUser \in User /\ {NoToken, Failed} \cap User = {}
ASSUME BoundAssumption ==
    LastWrite \in Nat /\ MaxPending \in Nat \ {0} /\ MaxFaults \in Nat

Write == 1..LastWrite

VARIABLES
    authUser,       \* FIRAuth._currentUser
    provider,       \* the credentials provider's current_user and token_counter
    mainQueue,      \* the notifications and token callbacks on the main queue
    workQueue,      \* the tasks on the worker queue
    disk,           \* per user: the mutation queue, in LevelDB
    client,         \* SyncEngine, RemoteStore and WriteStream, in memory, and their call
    issued,         \* how many writes the app has made
    log,            \* the writes the server has committed, by their first commit
    refused,        \* the writes the server has refused
    told,           \* per write: what its callback was told
    waited,         \* what the app's waits for pending writes covered, once told they are over
    faults

app == <<issued, told, waited>>
auth == <<authUser, provider, mainQueue>>
server == <<log, refused>>
vars == <<auth, workQueue, disk, client, app, server, faults>>

Batch == [id : Nat \ {0}, write : Write, user : User]

WriteTask(w) == [do |-> "write", write |-> w]
CredentialTask(u) == [do |-> "credential", user |-> u]
ResumeTask(token, close) == [do |-> "resume", token |-> token, close |-> close]
NetworkTask(what) == [do |-> what]

Posted(u) == [is |-> "posted", user |-> u]
Token(ask) == [is |-> "token", ask |-> ask]

(* What a call carries either way: the handshake, or a batch as a request  *)
(* and as the result of it.                                                *)
Handshake == [id |-> 0, write |-> 0, user |-> NoToken]

-----------------------------------------------------------------------------
(* The mutation queues.                                                    *)

Batches(queues) == UNION {ToSet(queues[u]) : u \in User}

(* LoadNextBatchIdFromDb: one more than the highest id any user's queue    *)
(* holds, so that the ids of settled batches come again.                   *)
NextBatchId(queues) == 1 + Max({0} \cup {b.id : b \in Batches(queues)})

(* NextMutationBatchAfterBatchId, called until there is none: LevelDB      *)
(* keeps a queue in the order of the ids, those up to id in front.         *)
After(queue, id) ==
    SubSeq(queue, 1 + Cardinality({n \in 1..Len(queue) : queue[n].id <= id}), Len(queue))

(* RemoveMutationBatch, which asserts that there is one of that id.        *)
WithoutBatch(queue, id) == RemoveAt(queue, CHOOSE n \in 1..Len(queue) : queue[n].id = id)

-----------------------------------------------------------------------------
(* The write stream and the write pipeline: functions of the client.       *)

IsOpen(c) == c.state = "open"
IsStarted(c) == c.state \in {"starting", "backoff", "open"}

(* GetToken: the provider notes its token_counter and asks FIRAuth.        *)
Ask(close) == [counter |-> provider.counter, close |-> close, user |-> NoToken]

(* Stream::Start; a new stream asks for a token first.                     *)
Start(c) ==
    IF c.state = "error"
    THEN [c EXCEPT !.state = "backoff"]
    ELSE [c EXCEPT !.state = "starting", !.asked = @ \cup {Ask(c.close)}]

ShouldStartWriteStream(c) == c.network /\ ~IsStarted(c) /\ c.pipeline # <<>>

(* Fault: a stream that has failed is not started again.                   *)
Fault_StartsOnce(c) ==
    IF ShouldStartWriteStream(c) /\ c.state = "initial" THEN Start(c) ELSE c

StartIfNeeded(c) == IF ShouldStartWriteStream(c) THEN Start(c) ELSE c

(* Fault: AddToWritePipeline does not ask whether the handshake is done.   *)
Fault_SendsWhenOpen(c, batches) ==
    [c EXCEPT !.pipeline = @ \o batches,
              !.out = IF IsOpen(c) THEN @ \o batches ELSE @,
              !.idle = IF IsOpen(c) /\ batches # <<>> THEN FALSE ELSE @]

(* AddToWritePipeline for each of the batches; a write to the stream ends  *)
(* its idle time.                                                          *)
AddToWritePipeline(c, batches) ==
    LET sends == IsOpen(c) /\ c.handshake /\ batches # <<>>
    IN  [c EXCEPT !.pipeline = @ \o batches,
                  !.out = IF sends THEN @ \o batches ELSE @,
                  !.idle = IF sends THEN FALSE ELSE @]

(* FillWritePipeline: as many of the user's batches as there is room for,  *)
(* from the one after the last in the pipeline.                            *)
FillWritePipeline(c, queue) ==
    LET last == IF c.pipeline = <<>> THEN -1 ELSE Last(c.pipeline).id
        found == After(queue, last)
        room == IF c.network THEN MaxPending - Len(c.pipeline) ELSE 0
        new == SubSeq(found, 1, IF room < Len(found) THEN room ELSE Len(found))
        filled == AddToWritePipeline(c, new)
        idles == c.network /\ filled.pipeline = <<>> /\ IsOpen(c)
    IN  StartIfNeeded([filled EXCEPT !.idle = @ \/ idles])

(* What a closed call had on its way to the server may still arrive there. *)
Forgotten(c) ==
    [c EXCEPT !.late = IF c.end = "none" THEN c.out ELSE <<>>,
              !.token = NoToken, !.out = <<>>, !.in = <<>>, !.end = "none"]

(* Fault: only a close for an error counts.                                *)
Fault_StopIsNotCounted(c, state) ==
    [Forgotten(c) EXCEPT !.state = state, !.idle = FALSE,
                         !.close = IF state = "error" THEN @ + 1 ELSE @]

(* Stream::Close up to the call of the listener.  The timers of the stream *)
(* and what was on its way are gone, and close_count_ disowns the token it *)
(* may still be waiting for.                                               *)
Close(c, state) ==
    [Forgotten(c) EXCEPT !.state = state, !.idle = FALSE, !.close = @ + 1]

(* Stream::Stop: Close without an error, after which OnWriteStreamClose    *)
(* has nothing to do.                                                      *)
Stop(c) == IF IsStarted(c) THEN [Close(c, "initial") EXCEPT !.handshake = FALSE] ELSE c

(* DisableNetwork and the first half of RestartNetwork.                    *)
NetworkDisabled(c) == [Stop([c EXCEPT !.network = FALSE]) EXCEPT !.pipeline = <<>>]

NetworkEnabled(c, queue) == FillWritePipeline([c EXCEPT !.network = TRUE], queue)

(* RestartNetwork; its InhibitBackoff clears the error of a stopped stream.*)
NetworkRestarted(c, queue) ==
    NetworkEnabled([NetworkDisabled(c) EXCEPT !.state = "initial"], queue)

NewClient(queues, u) ==
    [user |-> u, nextId |-> NextBatchId(queues), callbacks |-> [v \in User |-> {}],
     waits |-> {}, network |-> TRUE, pipeline |-> <<>>, state |-> "initial",
     handshake |-> FALSE, idle |-> FALSE, close |-> 0, asked |-> {},
     token |-> NoToken, out |-> <<>>, in |-> <<>>, end |-> "none",
     late |-> <<>>]


(* FirestoreClient::Initialize, on what the device holds.                  *)
Started(queues, u) == FillWritePipeline(NewClient(queues, u), queues[u])

Init ==
    /\ authUser = FirstUser
    /\ provider = [user |-> FirstUser, counter |-> 0]
    /\ mainQueue = <<>>
    /\ workQueue = <<>>
    /\ disk = [u \in User |-> <<>>]
    /\ client = NewClient([u \in User |-> <<>>], FirstUser)
    /\ issued = 0
    /\ log = <<>>
    /\ refused = {}
    /\ told = [w \in Write |-> "nothing"]
    /\ waited = {}
    /\ faults = 0

Fails == faults < MaxFaults /\ faults' = faults + 1

-----------------------------------------------------------------------------
(* The app.                                                                *)

(* FirestoreClient::WriteMutations.                                        *)
IssueWrite ==
    /\ issued < LastWrite
    /\ issued' = issued + 1
    /\ workQueue' = Append(workQueue, WriteTask(issued + 1))
    /\ UNCHANGED <<auth, disk, client, server, told, waited, faults>>

(* FirestoreClient::DisableNetwork, EnableNetwork, WaitForPendingWrites,   *)
(* and the connectivity monitor's callback.                                *)
CallNetwork ==
    /\ Fails
    /\ \E what \in {"disable", "wait", "connectivity"} :
          workQueue' = Append(workQueue, NetworkTask(what))
    /\ UNCHANGED <<auth, disk, client, app, server>>

(* An app that turned the network off turns it on again.                   *)
CallEnableNetwork ==
    /\ ~client.network
    /\ NetworkTask("enable") \notin ToSet(workQueue)
    /\ workQueue' = Append(workQueue, NetworkTask("enable"))
    /\ UNCHANGED <<auth, disk, client, app, server, faults>>

(* The app is killed.  What is in memory is gone, the mutation queues and  *)
(* the signed-in user are not.                                             *)
Restart ==
    /\ Fails
    /\ provider' = [provider EXCEPT !.user = authUser]
    /\ mainQueue' = <<>>
    /\ workQueue' = <<>>
    /\ client' = [Started(disk, authUser) EXCEPT !.late = Forgotten(client).late]
    /\ UNCHANGED <<authUser, disk, app, server>>

-----------------------------------------------------------------------------
(* FIRAuth and the credentials provider.                                   *)

(* updateCurrentUser, on FIRAuth's work queue: another user signs in, or   *)
(* this one signs out, and the notification is put on the main queue.      *)
ChangeUser(u) ==
    /\ Fails
    /\ u # authUser
    /\ authUser' = u
    /\ mainQueue' = Append(mainQueue, Posted(u))
    /\ UNCHANGED <<provider, workQueue, disk, client, app, server>>

(* getTokenForcingRefresh, on FIRAuth's work queue: the user is read ...   *)
ReadUser(ask) ==
    /\ ask \in client.asked
    /\ ask.user = NoToken
    /\ client' = [client EXCEPT !.asked = (@ \ {ask}) \cup {[ask EXCEPT !.user = authUser]}]
    /\ UNCHANGED <<auth, workQueue, disk, app, server, faults>>

(* ... and, once there is a fresh token of that user, the callback is put  *)
(* on the main queue.                                                      *)
FetchToken(ask) ==
    /\ ask \in client.asked
    /\ ask.user # NoToken
    /\ client' = [client EXCEPT !.asked = @ \ {ask}]
    /\ mainQueue' = Append(mainQueue, Token(ask))
    /\ UNCHANGED <<authUser, provider, workQueue, disk, app, server, faults>>

(* There is no fresh token to be had.                                      *)
TokenFails(ask) ==
    /\ Fails
    /\ ask \in client.asked
    /\ client' = [client EXCEPT !.asked = @ \ {ask}]
    /\ mainQueue' = Append(mainQueue, Token([ask EXCEPT !.user = Failed]))
    /\ UNCHANGED <<authUser, provider, workQueue, disk, app, server>>

Posts(is) == mainQueue # <<>> /\ Head(mainQueue).is = is

(* The observer of the notification.                                       *)
RunPosted ==
    LET u == Head(mainQueue).user
    IN  /\ Posts("posted")
        /\ mainQueue' = Tail(mainQueue)
        /\ provider' = [user |-> u, counter |-> provider.counter + 1]
        /\ workQueue' = Append(workQueue, CredentialTask(u))
        /\ UNCHANGED <<authUser, disk, client, app, server, faults>>

(* get_token_callback: asks again if the user has changed since; otherwise *)
(* the stream goes on with the token, on the worker queue.                 *)
RunToken ==
    LET ask == Head(mainQueue).ask
    IN  /\ Posts("token")
        /\ mainQueue' = Tail(mainQueue)
        /\ IF ask.counter # provider.counter
           THEN /\ client' = [client EXCEPT !.asked = @ \cup {Ask(ask.close)}]
                /\ UNCHANGED workQueue
           ELSE /\ workQueue' = Append(workQueue, ResumeTask(ask.user, ask.close))
                /\ UNCHANGED client
        /\ UNCHANGED <<authUser, provider, disk, app, server, faults>>

-----------------------------------------------------------------------------
(* The answers of the server.                                              *)

(* Datastore::IsPermanentError, IsPermanentWriteError.                     *)
IsPermanentError(status) == status \in {"denied", "aborted"}

(* Fault: an aborted call is not told from the other permanent errors.     *)
Fault_AbortedIsPermanent(status) == IsPermanentError(status)

IsPermanentWriteError(status) == IsPermanentError(status) /\ status # "aborted"

(* The callbacks NotifyUser and TriggerPendingWriteCallbacks take out.     *)
WithoutCallbacks(c, id) ==
    [c EXCEPT !.callbacks[c.user] = {e \in @ : e.id # id},
              !.waits = {x \in @ : x.id # id}]

(* NotifyUser: the callback of the signed-in user's batch, if there is one *)
(* since the start of the app.                                             *)
NotifyUser(id, outcome) ==
    told' = [w \in Write |->
        IF \E e \in client.callbacks[client.user] : e.id = id /\ e.write = w
        THEN outcome
        ELSE told[w]]

TriggerPendingWriteCallbacks(id) ==
    waited' = waited \cup {x.covers : x \in {y \in client.waits : y.id = id}}

(* OnWriteStreamClose after an error.  A permanent one after the handshake *)
(* is about the batch in front of the pipeline, which is given up; any     *)
(* other changes nothing here, and the stream is tried again.              *)
CallEnds(status) ==
    LET closed == Close(client, "error")
        front == Head(client.pipeline)
        rejects == client.handshake /\ client.pipeline # <<>> /\ IsPermanentWriteError(status)
        without == WithoutCallbacks(
            [closed EXCEPT !.state = "initial", !.pipeline = Tail(@)], front.id)
        restarted(c) == [StartIfNeeded(c) EXCEPT !.handshake = FALSE]
    IN  IF rejects
        THEN /\ disk' = [disk EXCEPT ![client.user] = WithoutBatch(@, front.id)]
             /\ client' = restarted(FillWritePipeline(without, disk'[client.user]))
             /\ NotifyUser(front.id, "rejected")
             /\ TriggerPendingWriteCallbacks(front.id)
        ELSE /\ client' = restarted(closed)
             /\ UNCHANGED <<disk, told, waited>>

(* The first response: the handshake is complete, and the whole pipeline   *)
(* is sent.                                                                *)
HandshakeComplete ==
    /\ client.in # <<>>
    /\ ~client.handshake
    /\ client' = [client EXCEPT !.in = Tail(@), !.handshake = TRUE,
                                !.out = @ \o client.pipeline,
                                !.idle = @ /\ client.pipeline = <<>>]
    /\ UNCHANGED <<auth, workQueue, disk, app, server, faults>>

(* OnWriteStreamMutationResult and SyncEngine::HandleSuccessfulWrite: the  *)
(* result is taken to be about the front of the pipeline.                  *)
MutationResult ==
    LET front == Head(client.pipeline)
        without == WithoutCallbacks(
            [client EXCEPT !.in = Tail(@), !.pipeline = Tail(@)], front.id)
    IN  /\ client.in # <<>>
        /\ client.handshake
        /\ client.pipeline # <<>>
        /\ disk' = [disk EXCEPT ![client.user] = WithoutBatch(@, front.id)]
        /\ client' = FillWritePipeline(without, disk'[client.user])
        /\ NotifyUser(front.id, "ok")
        /\ TriggerPendingWriteCallbacks(front.id)
        /\ UNCHANGED <<auth, workQueue, issued, server, faults>>

(* The call is over, and its last result has been taken.                   *)
CallEnded ==
    /\ client.end # "none"
    /\ client.in = <<>>
    /\ CallEnds(client.end)
    /\ UNCHANGED <<auth, workQueue, issued, server, faults>>

(* The connection is lost, with all that is on its way.                    *)
CallBreaks ==
    /\ Fails
    /\ IsOpen(client)
    /\ \E status \in {"unavailable", "aborted"} \cup (IF client.handshake THEN {} ELSE {"denied"}) :
          CallEnds(status)
    /\ UNCHANGED <<auth, workQueue, issued, server>>

-----------------------------------------------------------------------------
(* The worker queue, first in first out.                                   *)

Runs(what) == workQueue # <<>> /\ Head(workQueue).do = what

Dequeue == workQueue' = Tail(workQueue)

(* SyncEngine::WriteMutations: the batch is stored, its callback is kept   *)
(* under its id - insert keeps what is there already - and the pipeline is *)
(* filled.                                                                 *)
RunWrite ==
    LET b == [id |-> client.nextId, write |-> Head(workQueue).write, user |-> client.user]
        taken == \E e \in client.callbacks[client.user] : e.id = b.id
    IN  /\ Runs("write")
        /\ Dequeue
        /\ disk' = [disk EXCEPT ![client.user] = Append(@, b)]
        /\ client' = FillWritePipeline(
               [client EXCEPT !.nextId = @ + 1,
                              !.callbacks[client.user] = IF taken THEN @ ELSE @ \cup {b}],
               disk'[client.user])
        /\ UNCHANGED <<auth, app, server, faults>>

(* Fault: the pipeline is filled for the new user on the open stream.      *)
Fault_KeepsStream ==
    LET u == Head(workQueue).user
        swapped == [client EXCEPT !.user = u, !.waits = {},
                                  !.nextId = NextBatchId(disk),
                                  !.pipeline = <<>>]
    IN  /\ Runs("credential")
        /\ Dequeue
        /\ client' = FillWritePipeline(swapped, disk[u])
        /\ UNCHANGED <<auth, disk, app, server, faults>>

(* HandleCredentialChange of the SyncEngine and of the RemoteStore: the    *)
(* waits of the last user fail, the mutation queue is swapped, and, if the *)
(* network is on, the streams are started afresh for the new user.         *)
RunCredential ==
    LET u == Head(workQueue).user
        changed == u # client.user
        swapped == [client EXCEPT !.user = u,
                                  !.waits = IF changed THEN {} ELSE @,
                                  !.nextId = IF changed THEN NextBatchId(disk) ELSE @]
    IN  /\ Runs("credential")
        /\ Dequeue
        /\ client' = IF client.network THEN NetworkRestarted(swapped, disk[u]) ELSE swapped
        /\ UNCHANGED <<auth, disk, app, server, faults>>

(* ResumeStartWithCredentials, if the stream was not closed meanwhile: the *)
(* call is started with the token and OnWriteStreamOpen sends a handshake. *)
RunResume ==
    LET task == Head(workQueue)
    IN  /\ Runs("resume")
        /\ Dequeue
        /\ IF task.close # client.close
           THEN UNCHANGED <<client, disk, told, waited>>
           ELSE IF task.token = Failed
           THEN CallEnds("unknown")
           ELSE /\ client' = [client EXCEPT !.state = "open", !.token = task.token,
                                            !.out = <<Handshake>>]
                /\ UNCHANGED <<disk, told, waited>>
        /\ UNCHANGED <<auth, issued, server, faults>>

RunDisable ==
    /\ Runs("disable")
    /\ Dequeue
    /\ client' = NetworkDisabled(client)
    /\ UNCHANGED <<auth, disk, app, server, faults>>

RunEnable ==
    /\ Runs("enable")
    /\ Dequeue
    /\ client' = NetworkEnabled(client, disk[client.user])
    /\ UNCHANGED <<auth, disk, app, server, faults>>

(* The connectivity monitor's callback.                                    *)
RunConnectivity ==
    /\ Runs("connectivity")
    /\ Dequeue
    /\ client' = IF client.network THEN NetworkRestarted(client, disk[client.user]) ELSE client
    /\ UNCHANGED <<auth, disk, app, server, faults>>

(* RegisterPendingWritesCallback: at once if the queue is empty, otherwise *)
(* with the last batch in it.                                              *)
RunWait ==
    LET queue == disk[client.user]
        covers == {b.write : b \in ToSet(queue)}
    IN  /\ Runs("wait")
        /\ Dequeue
        /\ IF queue = <<>>
           THEN UNCHANGED client
           ELSE client' = [client EXCEPT !.waits =
                    @ \cup {[id |-> Last(queue).id, covers |-> covers]}]
        /\ UNCHANGED <<auth, disk, app, server, faults>>

(* BackoffAndRun's timer.                                                  *)
BackoffElapsed ==
    /\ client.state = "backoff"
    /\ client' = Start([client EXCEPT !.state = "initial"])
    /\ UNCHANGED <<auth, workQueue, disk, app, server, faults>>

(* MarkIdle's timer.                                                       *)
IdleElapsed ==
    /\ client.idle
    /\ client' = Stop(client)
    /\ UNCHANGED <<auth, workQueue, disk, app, server, faults>>

-----------------------------------------------------------------------------
(* The server takes what a call brings in its order; what it has committed *)
(* already it commits again, to no further effect.                         *)

LogEntry(b) == [write |-> b.write, user |-> b.user]

Committed(request) ==
    IF request = Handshake \/ LogEntry(request) \in ToSet(log)
    THEN log
    ELSE Append(log, LogEntry(request))

ServerAnswers ==
    LET request == Head(client.out)
    IN  /\ client.out # <<>> /\ client.end = "none"
        /\ client' = [client EXCEPT !.out = Tail(@), !.in = Append(@, request)]
        /\ log' = Committed(request)
        /\ UNCHANGED <<auth, workQueue, disk, app, refused, faults>>

ServerTakesLate ==
    /\ client.late # <<>>
    /\ client' = [client EXCEPT !.late = Tail(@)]
    /\ log' = Committed(Head(client.late))
    /\ UNCHANGED <<auth, workQueue, disk, app, refused, faults>>

ServerNeverTakesLate ==
    /\ client.late # <<>>
    /\ client' = [client EXCEPT !.late = <<>>]
    /\ UNCHANGED <<auth, workQueue, disk, app, server, faults>>

(* It refuses a write by ending the call.                                  *)
ServerRefuses ==
    LET request == Head(client.out)
    IN  /\ client.out # <<>> /\ client.end = "none"
        /\ request # Handshake
        /\ refused' = refused \cup {request.write}
        /\ client' = [client EXCEPT !.out = <<>>, !.end = "denied"]
        /\ UNCHANGED <<auth, workQueue, disk, app, log, faults>>

-----------------------------------------------------------------------------
RunWorkQueue ==
    \/ RunWrite \/ RunCredential \/ RunResume \/ RunDisable \/ RunEnable
    \/ RunConnectivity \/ RunWait

RunMainQueue == RunPosted \/ RunToken

HandOutToken == \E ask \in client.asked : ReadUser(ask) \/ FetchToken(ask)

Respond == HandshakeComplete \/ MutationResult \/ CallEnded

Next ==
    \/ IssueWrite \/ CallNetwork \/ CallEnableNetwork \/ Restart
    \/ \E u \in User : ChangeUser(u)
    \/ \E ask \in client.asked : ReadUser(ask) \/ FetchToken(ask) \/ TokenFails(ask)
    \/ RunMainQueue
    \/ RunWorkQueue
    \/ BackoffElapsed \/ IdleElapsed
    \/ HandshakeComplete \/ MutationResult \/ CallEnded \/ CallBreaks
    \/ ServerAnswers \/ ServerRefuses \/ ServerTakesLate \/ ServerNeverTakesLate

(* The queues run, FIRAuth answers, a backoff ends, and a server that is   *)
(* reached answers, in any order of their own; nothing else has to happen. *)
Works ==
    \/ RunWorkQueue \/ RunMainQueue \/ HandOutToken \/ BackoffElapsed
    \/ ServerAnswers \/ Respond

Fairness == WF_vars(Works)

Spec == Init /\ [][Next]_vars /\ Fairness

-----------------------------------------------------------------------------
(* What is to hold.                                                        *)

InLog == {entry.write : entry \in ToSet(log)}

Settled(w) == w \in InLog \cup refused

TypeOK ==
    /\ authUser \in User
    /\ provider.user \in User /\ provider.counter \in Nat
    /\ \A u \in User : ToSet(disk[u]) \subseteq {b \in Batch : b.user = u}
    /\ client.state \in {"initial", "starting", "open", "error", "backoff"}
    /\ client.token \in User \cup {NoToken}
    /\ Len(client.pipeline) <= MaxPending
    /\ told \in [Write -> {"nothing", "ok", "rejected"}]
    /\ refused \subseteq Write

(* Once the handshake is complete, what is on its way to the server and    *)
(* back is the pipeline, batch by batch: so a result without a name        *)
(* belongs to the front of the pipeline, and there is one to take it.  Of  *)
(* a call the server has ended, at least the refused batch is left.        *)
InFlightIsPipeline ==
    LET onTheWay == client.in \o client.out
    IN  IF client.handshake
        THEN IF client.end = "none"
             THEN onTheWay = client.pipeline
             ELSE IsStrictPrefix(client.in, client.pipeline)
        ELSE onTheWay \in {<<>>, <<Handshake>>}

(* The pipeline is the front of the signed-in user's mutation queue: no    *)
(* batch is skipped, sent twice or kept from another user, and the batch   *)
(* taken out for a result is the first of the queue.                       *)
PipelineIsFront == IsPrefix(client.pipeline, disk[client.user])

(* Every callback that is kept is for a batch that is still to be settled: *)
(* ids are given again once they are free, and a callback left behind      *)
(* would keep that of a later write out of the map.                        *)
CallbacksArePending ==
    \A u \in User : client.callbacks[u] \subseteq ToSet(disk[u])

(* ResumeStartWithCredentials asserts that the stream is still starting:   *)
(* a token that the close count lets pass was asked for by this very start.*)
ResumeFindsStarting ==
    \A i \in 1..Len(workQueue) :
        workQueue[i].do = "resume" /\ workQueue[i].close = client.close
            => client.state = "starting"

(* OnWriteStreamClose asserts that no stream is stopped while it is still  *)
(* needed: the idle timer runs only while nothing waits to be sent.        *)
IdleHasNothingToSend == client.idle => client.pipeline = <<>>

(* What the client keeps fits together between any two tasks, and what its *)
(* assertions say holds where they stand.                                  *)
Inv ==
    /\ TypeOK
    /\ InFlightIsPipeline
    /\ PipelineIsFront
    /\ CallbacksArePending
    /\ ResumeFindsStarting
    /\ IdleHasNothingToSend

(* A write goes to the server only on a call opened with a token of the    *)
(* user whose mutation queue it is in, whenever the user has changed while *)
(* tokens, notifications and tasks were under way.                         *)
SentAsOwner ==
    \A i \in 1..Len(client.out) :
        client.out[i] # Handshake => client.out[i].user = client.token

(* The server sees the writes of a user for the first time in the order    *)
(* they were made, over broken calls, restarts and late requests.  Only a  *)
(* write it refused may come later: a request for it that was on its way   *)
(* before may still arrive.                                                *)
FirstCommitsInOrder ==
    \A i, j \in 1..Len(log) :
        i < j /\ log[i].user = log[j].user /\ log[j].write \notin refused
            => log[i].write < log[j].write

(* What is on the server is what was written: under the name of who wrote  *)
(* it, and in that order.                                                  *)
CommittedAsWritten == SentAsOwner /\ FirstCommitsInOrder

(* The app is told that a write succeeded only if the server committed it. *)
AckMeansCommitted == \A w \in Write : told[w] = "ok" => w \in InLog

(* The app is told that a write failed only if the server refused that     *)
(* very write; a call that broke or was aborted is no such answer.         *)
RejectedWasRefused == \A w \in Write : told[w] = "rejected" => w \in refused

(* waitForPendingWrites ends well only when every write that was pending   *)
(* when it was called has been taken or refused by the server.             *)
WaitCoversEarlier == \A covers \in waited : \A w \in covers : Settled(w)

(* Whatever the app is told of its writes is so.                           *)
AnsweredTruly == AckMeansCommitted /\ RejectedWasRefused /\ WaitCoversEarlier

(* What an app may rely on: see FirestoreOutbox.                           *)
Outbox == INSTANCE FirestoreOutbox WITH
    outbox <- [u \in User |-> [i \in 1..Len(disk[u]) |-> disk[u][i].write]],
    committed <- InLog

(* The client implements the outbox: it may lose what is in memory at any  *)
(* time, and still no step of it does more or less than an outbox does.    *)
ImplementsOutbox == Outbox!Spec

(* No write of the signed-in user waits for ever while the network is on:  *)
(* broken calls are tried again, and tokens fetched again, until the       *)
(* server has settled whatever the app has written.                        *)
NoWriteWaitsForEver == []<>(client.network => disk[client.user] = <<>>)

=============================================================================
