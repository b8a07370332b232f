------------------------- MODULE FirestoreOnlineState -------------------------
(***************************************************************************)
(* The Firestore client of Flash Chat: whether it takes itself to be       *)
(* online, and when the listener of a query gets its first event.          *)
(*                                                                         *)
(* A listener whose query has nothing in the cache is told of that only    *)
(* when the server has said so, or when the client has found itself        *)
(* offline.  OnlineStateTracker decides the latter from the attempts of    *)
(* the watch stream: one failure is enough, and a timer stands for an      *)
(* attempt that neither succeeds nor fails.  The stream is started by the  *)
(* first target that is listened to, is kept until it has been idle for a  *)
(* while, and is restarted with a backoff when it fails.                   *)
(*                                                                         *)
(* All of it runs on the worker queue: each action is one task, timer or   *)
(* call of gRPC there.                                                     *)
(***************************************************************************)
EXTENDS Naturals, FiniteSets

CONSTANTS
    Target,         \* the queries listened to
    MaxFailures,    \* kMaxWatchStreamFailures
    Responsive,     \* does the server answer what it is asked, sooner or later?
    MaxFaults,      \* how often the stream fails, the network changes or is
                    \* turned off, in all: a bound
    MaxListens      \* how often the app listens, in all: a bound

ASSUME BoundAssumption ==
    MaxFailures \in Nat \ {0} /\ MaxFaults \in Nat /\ MaxListens \in Nat
ASSUME ResponsiveAssumption == Responsive \in BOOLEAN

VARIABLES
    client,         \* RemoteStore, WatchStream and OnlineStateTracker
    heard,          \* per target: what its listener was told of
    faults, listens

vars == <<client, heard, faults, listens>>

State == {"initial", "starting", "open", "error", "backoff"}
Online == {"unknown", "online", "offline"}

(* What a listener was told: nothing yet, what is in the cache, what the   *)
(* server has; "none" is no listener.                                      *)
Heard == {"none", "nothing", "cache", "server"}

IsOpen(c) == c.stream = "open"
IsStarted(c) == c.stream \in {"starting", "backoff", "open"}

(* HARD_ASSERT: the process ends if the condition is false.                *)
HardAssert(c, condition) == [c EXCEPT !.asserts = @ /\ condition]

-----------------------------------------------------------------------------
(* OnlineStateTracker.                                                     *)

HandleWatchStreamStart(c) ==
    IF c.failures # 0
    THEN c
    ELSE HardAssert([c EXCEPT !.online = "unknown", !.timer = TRUE], ~c.timer)

HandleWatchStreamFailure(c) ==
    IF c.online = "online"
    THEN HardAssert([c EXCEPT !.online = "unknown"], c.failures = 0 /\ ~c.timer)
    ELSE IF c.failures + 1 >= MaxFailures
    THEN [c EXCEPT !.failures = MaxFailures, !.timer = FALSE, !.online = "offline"]
    ELSE [c EXCEPT !.failures = @ + 1]

UpdateState(c, state) ==
    [c EXCEPT !.timer = FALSE, !.failures = 0, !.online = state]

-----------------------------------------------------------------------------
(* RemoteStore and its watch stream.                                       *)

ShouldStartWatchStream(c) == c.network /\ ~IsStarted(c) /\ c.targets # {}

(* StartWatchStream and Stream::Start: after a failure only when a backoff *)
(* has elapsed.                                                            *)
StartWatchStream(c) ==
    HandleWatchStreamStart(
        [c EXCEPT !.stream = IF @ = "error" THEN "backoff" ELSE "starting"])

StartIfNeeded(c) == IF ShouldStartWatchStream(c) THEN StartWatchStream(c) ELSE c

Closed(c, state) ==
    [c EXCEPT !.stream = state, !.idle = FALSE, !.asked = {}]

(* Stream::Stop and OnWatchStreamClose without an error.                   *)
Stop(c) ==
    LET closed == Closed(c, "initial")
    IN  IF IsStarted(c)
        THEN UpdateState(HardAssert(closed, ~ShouldStartWatchStream(closed)), "unknown")
        ELSE c

(* OnWatchStreamClose with an error.                                       *)
StreamFailed(c) ==
    LET closed == Closed(c, "error")
    IN  IF ShouldStartWatchStream(closed)
        THEN StartWatchStream(HandleWatchStreamFailure(closed))
        ELSE UpdateState(closed, "unknown")

NetworkEnabled(c) ==
    LET on == [c EXCEPT !.network = TRUE]
    IN  IF ShouldStartWatchStream(on) THEN StartWatchStream(on) ELSE UpdateState(on, "unknown")

NetworkDisabled(c) == UpdateState(Stop([c EXCEPT !.network = FALSE]), "offline")

(* RestartNetwork; its InhibitBackoff clears the error of a stopped stream.*)
NetworkRestarted(c) ==
    NetworkEnabled([UpdateState(Stop([c EXCEPT !.network = FALSE]), "unknown")
                        EXCEPT !.stream = "initial"])

(* Fault: the request is left to OnWatchStreamOpen, always.                *)
Fault_NotAsked(c, t) == StartIfNeeded([c EXCEPT !.targets = @ \cup {t}])

(* RemoteStore::Listen; a write to the stream ends its idle time.          *)
Listened(c, t) ==
    LET listening == [c EXCEPT !.targets = @ \cup {t}]
    IN  IF IsOpen(c)
        THEN [listening EXCEPT !.asked = @ \cup {t}, !.idle = FALSE]
        ELSE StartIfNeeded(listening)

(* RemoteStore::StopListening.                                             *)
Unlistened(c, t) ==
    LET left == [c EXCEPT !.targets = @ \ {t}, !.asked = @ \ {t}]
    IN  IF left.targets # {} THEN [left EXCEPT !.idle = @ /\ ~IsOpen(c)]
        ELSE IF IsOpen(c) THEN [left EXCEPT !.idle = TRUE]
        ELSE IF c.network THEN UpdateState(left, "unknown")
        ELSE left

-----------------------------------------------------------------------------
(* The listeners.  OnOnlineStateChanged: whoever has heard nothing is told *)
(* what is in the cache once the client is offline.                        *)

(* Fault: the listeners are not told that the state has changed.           *)
Fault_NotTold(c) == heard

Told(c) ==
    [t \in Target |->
        IF heard[t] = "nothing" /\ c.online = "offline" THEN "cache" ELSE heard[t]]

Becomes(c) == client' = c /\ heard' = Told(c)

Init ==
    /\ client = [network |-> TRUE, targets |-> {}, stream |-> "initial", idle |-> FALSE,
                 asked |-> {}, online |-> "unknown", failures |-> 0, timer |-> FALSE,
                 asserts |-> TRUE]
    /\ heard = [t \in Target |-> "none"]
    /\ faults = 0
    /\ listens = 0

Fails == faults < MaxFaults /\ faults' = faults + 1

(* AddQueryListener and SyncEngine::Listen: first the target, then a first *)
(* snapshot from the cache, raised if it has documents or the client is    *)
(* offline.                                                                *)
Listen(t) ==
    LET c == Listened(client, t)
    IN  /\ listens < MaxListens
        /\ listens' = listens + 1
        /\ heard[t] = "none"
        /\ client' = c
        /\ \E hasDocuments \in BOOLEAN :
              heard' = [Told(c) EXCEPT ![t] =
                  IF hasDocuments \/ c.online = "offline" THEN "cache" ELSE "nothing"]
        /\ UNCHANGED faults

StopListening(t) ==
    /\ t \in client.targets
    /\ client' = Unlistened(client, t)
    /\ heard' = [heard EXCEPT ![t] = "none"]
    /\ UNCHANGED <<faults, listens>>

DisableNetwork ==
    /\ Fails
    /\ client.network
    /\ Becomes(NetworkDisabled(client))
    /\ UNCHANGED listens

(* It may be called while the network is on; that is counted as a fault.   *)
EnableNetwork ==
    /\ IF client.network THEN Fails ELSE UNCHANGED faults
    /\ Becomes(NetworkEnabled(client))
    /\ UNCHANGED listens

(* The user or the connectivity has changed.                               *)
RestartNetwork ==
    /\ Fails
    /\ client.network
    /\ Becomes(NetworkRestarted(client))
    /\ UNCHANGED listens

(* ResumeStartWithCredentials and OnWatchStreamOpen.                       *)
StreamOpens ==
    /\ client.stream = "starting"
    /\ Becomes([client EXCEPT !.stream = "open", !.asked = client.targets])
    /\ UNCHANGED <<faults, listens>>

StreamFails ==
    /\ Fails
    /\ client.stream \in {"starting", "open"}
    /\ Becomes(StreamFailed(client))
    /\ UNCHANGED listens

(* BackoffAndRun's timer: Stream::Start again, without the RemoteStore.    *)
BackoffElapsed ==
    /\ client.stream = "backoff"
    /\ Becomes([client EXCEPT !.stream = "starting"])
    /\ UNCHANGED <<faults, listens>>

IdleElapsed ==
    /\ client.idle
    /\ Becomes(Stop(client))
    /\ UNCHANGED <<faults, listens>>

(* The timer of HandleWatchStreamStart.                                    *)
OnlineTimerElapsed ==
    /\ client.timer
    /\ Becomes(HardAssert([client EXCEPT !.timer = FALSE, !.online = "offline"],
                       client.online = "unknown"))
    /\ UNCHANGED <<faults, listens>>

(* OnWatchStreamChange: any message of the server's, even one of a target  *)
(* that is not wanted any more.                                            *)
AnyMessage ==
    /\ IsOpen(client)
    /\ client.online # "online"
    /\ Becomes(UpdateState(client, "online"))
    /\ UNCHANGED <<faults, listens>>

(* ... the one that makes a target current, and its listener's snapshot    *)
(* one of the server's ...                                                 *)
TargetCurrent(t) ==
    /\ IsOpen(client)
    /\ t \in client.asked
    /\ heard[t] # "server"
    /\ client' = UpdateState(client, "online")
    /\ heard' = [heard EXCEPT ![t] = "server"]
    /\ UNCHANGED <<faults, listens>>

(* ... and the one that rejects it: the listener is told so and dropped.   *)
TargetRejected(t) ==
    /\ IsOpen(client)
    /\ t \in client.asked
    /\ client' = UpdateState([client EXCEPT !.targets = @ \ {t}, !.asked = @ \ {t}], "online")
    /\ heard' = [heard EXCEPT ![t] = "none"]
    /\ UNCHANGED <<faults, listens>>

Next ==
    \/ \E t \in Target : Listen(t) \/ StopListening(t) \/ TargetCurrent(t) \/ TargetRejected(t)
    \/ DisableNetwork \/ EnableNetwork \/ RestartNetwork
    \/ StreamOpens \/ StreamFails \/ BackoffElapsed \/ IdleElapsed
    \/ OnlineTimerElapsed \/ AnyMessage

(* Timers fire and tokens are fetched; that the server answers is assumed  *)
(* only where Responsive says so.                                          *)
Fairness ==
    /\ WF_vars(BackoffElapsed)
    /\ WF_vars(OnlineTimerElapsed)
    /\ WF_vars(StreamOpens)
    /\ Responsive => \A t \in Target : WF_vars(TargetCurrent(t))

Spec == Init /\ [][Next]_vars /\ Fairness

-----------------------------------------------------------------------------
(* What is to hold.                                                        *)

(* The watch stream is needed: something is listened to.                   *)
Wanted == client.network /\ client.targets # {}

TypeOK ==
    /\ client.stream \in State /\ client.online \in Online
    /\ client.targets \subseteq Target
    /\ client.asked \subseteq client.targets
    /\ client.failures \in 0..MaxFailures
    /\ heard \in [Target -> Heard]

(* No HARD_ASSERT fails: the timer is never started twice, never runs when *)
(* the state has become known, and no stream is stopped while needed.      *)
AssertsHold == client.asserts

(* While the network is on and something is listened to, the watch stream  *)
(* is started, whatever has failed, stopped or changed before.             *)
WantedIsStarted == Wanted => IsStarted(client)

(* An open watch stream watches what is listened to, no more and no less:  *)
(* no target falls between the opening of the stream and its own request.  *)
OpenWatchesAll == IsOpen(client) => client.asked = client.targets

(* While the client is offline nobody is left waiting for a first event.   *)
OfflineIsTold == client.online = "offline" => \A t \in Target : heard[t] # "nothing"

(* The state, its timer, the stream and what it watches agree between any  *)
(* two tasks of the worker queue.                                          *)
Inv == TypeOK /\ AssertsHold /\ WantedIsStarted /\ OpenWatchesAll /\ OfflineIsTold

(* A listener hears something, if the server answers: through failures,    *)
(* restarts and other listeners that come and go.                          *)
EveryListenerHears ==
    \A t \in Target : (client.network /\ heard[t] = "nothing")
        ~> (~client.network \/ heard[t] # "nothing")

(* "We consider OnlineState::Unknown as online (it should become Offline   *)
(* or Online if we wait long enough)": while something is listened to, the *)
(* state does not stay unknown for ever, even if the server never answers. *)
StateGetsKnown ==
    (Wanted /\ client.online = "unknown") ~> (~Wanted \/ client.online # "unknown")

=============================================================================
