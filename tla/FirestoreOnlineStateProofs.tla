---------------------- MODULE FirestoreOnlineStateProofs ----------------------
(***************************************************************************)
(* Theorem of the online state of the Firestore client, for any queries,   *)
(* any kMaxWatchStreamFailures and any number of faults: no HARD_ASSERT of *)
(* OnlineStateTracker or RemoteStore fails, a wanted watch stream is       *)
(* started, it watches what is listened to, and nobody waits for a first   *)
(* event while the client is offline (Inv).                                *)
(*                                                                         *)
(* Inv is not inductive: that the timer is never started twice depends on  *)
(* when it runs at all, and that no needed stream is stopped on what an    *)
(* idle stream is.  Sound adds both.                                       *)
(***************************************************************************)
EXTENDS FirestoreOnlineState, TLAPS

Client ==
    [network : BOOLEAN, targets : SUBSET Target, stream : State, idle : BOOLEAN,
     asked : SUBSET Target, online : Online, failures : 0..MaxFailures,
     timer : BOOLEAN, asserts : BOOLEAN]

(* The timer runs while the state is unknown only, and outlives the stream *)
(* it was started for only when that has failed and is being tried again;  *)
(* once online there are no failures to count.                             *)
TimerFits(c) ==
    /\ c.timer => c.online = "unknown" /\ (c.failures # 0 \/ IsStarted(c))
    /\ c.online = "online" => c.failures = 0

(* The stream is idle when it is open for nothing, and watches what is     *)
(* listened to.                                                            *)
StreamFits(c) ==
    /\ c.idle => IsOpen(c) /\ c.targets = {}
    /\ c.asked \subseteq c.targets
    /\ IsOpen(c) => c.asked = c.targets

Started(c) == c.network /\ c.targets # {} => IsStarted(c)

Sound(c) ==
    c \in Client /\ c.asserts /\ TimerFits(c) /\ StreamFits(c) /\ Started(c)

IInv == Sound(client) /\ heard \in [Target -> Heard] /\ OfflineIsTold

-----------------------------------------------------------------------------
(* What the operators do to a client that is sound, but for a stream that  *)
(* is to be started.                                                       *)

LEMMA SoundStart ==
    ASSUME NEW c \in Client, c.asserts, TimerFits(c), StreamFits(c), ShouldStartWatchStream(c)
    PROVE  Sound(StartWatchStream(c))
<1> DEFINE d == [c EXCEPT !.stream = IF @ = "error" THEN "backoff" ELSE "starting"]
           e == [d EXCEPT !.online = "unknown", !.timer = TRUE]
<1>1. /\ d \in Client /\ d.asserts /\ d.stream \in {"backoff", "starting"}
      /\ d.network = c.network /\ d.targets = c.targets /\ d.idle = c.idle /\ d.asked = c.asked
      /\ d.online = c.online /\ d.failures = c.failures /\ d.timer = c.timer
  BY DEF Client, State
<1>2. ~IsStarted(c)
  BY DEF ShouldStartWatchStream
<1> HIDE DEF d
<1>3. StreamFits(d) /\ Started(d) /\ IsStarted(d)
  BY <1>1, <1>2 DEF StreamFits, Started, IsStarted, IsOpen
<1>4. CASE c.failures # 0
  <2>1. StartWatchStream(c) = d
    BY <1>1, <1>4 DEF StartWatchStream, HandleWatchStreamStart, d
  <2> QED
    BY <1>1, <1>3, <1>4, <2>1 DEF Sound, TimerFits
<1>5. CASE c.failures = 0
  <2>1. d.timer = FALSE
    BY <1>1, <1>2, <1>5 DEF TimerFits, Client
  <2>2. /\ e \in Client /\ e.asserts /\ e.stream = d.stream /\ e.network = d.network
        /\ e.targets = d.targets /\ e.idle = d.idle /\ e.asked = d.asked
        /\ e.online = "unknown" /\ e.failures = d.failures /\ e.timer
    BY <1>1 DEF Client, Online
  <2>3. StartWatchStream(c) = HardAssert(e, TRUE)
    BY <1>1, <1>5, <2>1 DEF StartWatchStream, HandleWatchStreamStart, d
  <2> HIDE DEF e
  <2>4. HardAssert(e, TRUE) = e
    BY <2>2 DEF HardAssert, Client
  <2>5. TimerFits(e) /\ StreamFits(e) /\ Started(e)
    BY <1>3, <2>2 DEF TimerFits, StreamFits, Started, IsStarted, IsOpen
  <2> QED
    BY <2>2, <2>3, <2>4, <2>5 DEF Sound
<1> QED
  BY <1>4, <1>5

LEMMA SoundStartIfNeeded ==
    ASSUME NEW c \in Client, c.asserts, TimerFits(c), StreamFits(c)
    PROVE  Sound(StartIfNeeded(c))
<1>1. CASE ShouldStartWatchStream(c)
  BY <1>1, SoundStart DEF StartIfNeeded
<1>2. CASE ~ShouldStartWatchStream(c)
  BY <1>2 DEF StartIfNeeded, ShouldStartWatchStream, Sound, Started
<1> QED
  BY <1>1, <1>2

LEMMA SoundUpdate ==
    ASSUME NEW c \in Client, c.asserts, StreamFits(c), Started(c), NEW state \in Online
    PROVE  Sound(UpdateState(c, state))
<1> DEFINE d == UpdateState(c, state)
<1>1. /\ d \in Client /\ d.asserts /\ d.stream = c.stream /\ d.network = c.network
      /\ d.targets = c.targets /\ d.idle = c.idle /\ d.asked = c.asked
      /\ d.online = state /\ d.failures = 0 /\ ~d.timer
  <2>1. 0 \in 0..MaxFailures
    BY BoundAssumption
  <2>2. d = [c EXCEPT !.timer = FALSE, !.failures = 0, !.online = state]
    BY DEF UpdateState
  <2> HIDE DEF d
  <2> QED
    BY <2>1, <2>2 DEF Client
<1> HIDE DEF d
<1>2. TimerFits(d) /\ StreamFits(d) /\ Started(d)
  BY <1>1 DEF TimerFits, StreamFits, Started, IsStarted, IsOpen
<1> QED
  BY <1>1, <1>2 DEF Sound, d

LEMMA ClosedFields ==
    ASSUME NEW c \in Client, NEW state \in {"initial", "error"}
    PROVE  /\ Closed(c, state) \in Client /\ StreamFits(Closed(c, state))
           /\ ~IsStarted(Closed(c, state))
           /\ Closed(c, state).network = c.network /\ Closed(c, state).targets = c.targets
           /\ Closed(c, state).online = c.online /\ Closed(c, state).failures = c.failures
           /\ Closed(c, state).timer = c.timer /\ Closed(c, state).asserts = c.asserts
<1> DEFINE d == Closed(c, state)
<1>1. /\ d \in Client /\ d.stream = state /\ d.idle = FALSE /\ d.asked = {}
      /\ d.network = c.network /\ d.targets = c.targets
      /\ d.online = c.online /\ d.failures = c.failures
      /\ d.timer = c.timer /\ d.asserts = c.asserts
  BY DEF Closed, Client, State
<1> HIDE DEF d
<1>2. StreamFits(d) /\ ~IsStarted(d)
  BY <1>1 DEF StreamFits, IsStarted, IsOpen
<1> QED
  BY <1>1, <1>2 DEF d

(* A stream is stopped when the network is off or nothing is listened to.  *)
LEMMA SoundStop ==
    ASSUME NEW c, Sound(c), ~c.network \/ c.targets = {}
    PROVE  /\ Sound(Stop(c)) /\ ~IsStarted(Stop(c))
           /\ Stop(c).network = c.network /\ Stop(c).targets = c.targets
           /\ Stop(c).online \in {c.online, "unknown"}
<1> DEFINE d == Closed(c, "initial")
           e == HardAssert(d, ~ShouldStartWatchStream(d))
<1>0. c \in Client /\ c.asserts
  BY DEF Sound
<1>1. CASE IsStarted(c)
  <2>1. /\ d \in Client /\ StreamFits(d) /\ ~IsStarted(d) /\ d.asserts
        /\ d.network = c.network /\ d.targets = c.targets
    BY <1>0, ClosedFields
  <2>2. Stop(c) = UpdateState(e, "unknown")
    BY <1>1 DEF Stop
  <2> HIDE DEF d
  <2>3. e = d
    BY <2>1 DEF HardAssert, ShouldStartWatchStream, Client
  <2>4. Started(d)
    BY <2>1 DEF Started
  <2>5. Sound(UpdateState(d, "unknown"))
    BY <2>1, <2>4, SoundUpdate DEF Online
  <2>6. /\ UpdateState(d, "unknown").stream = d.stream
        /\ UpdateState(d, "unknown").network = d.network
        /\ UpdateState(d, "unknown").targets = d.targets
        /\ UpdateState(d, "unknown").online = "unknown"
    BY <2>1 DEF UpdateState, Client
  <2> QED
    BY <2>1, <2>2, <2>3, <2>5, <2>6 DEF IsStarted
<1>2. CASE ~IsStarted(c)
  BY <1>2 DEF Stop
<1> QED
  BY <1>1, <1>2

LEMMA SoundFailed ==
    ASSUME NEW c, Sound(c)
    PROVE  Sound(StreamFailed(c))
<1> DEFINE d == Closed(c, "error")
           e == HandleWatchStreamFailure(d)
<1>0. c \in Client /\ c.asserts /\ TimerFits(c)
  BY DEF Sound
<1>1. /\ d \in Client /\ StreamFits(d) /\ ~IsStarted(d) /\ d.asserts
      /\ d.network = c.network /\ d.targets = c.targets
      /\ d.online = c.online /\ d.failures = c.failures /\ d.timer = c.timer
  BY <1>0, ClosedFields
<1>2. StreamFailed(c) = IF ShouldStartWatchStream(d) THEN StartWatchStream(e)
                        ELSE UpdateState(d, "unknown")
  BY DEF StreamFailed
<1>3. /\ d.timer => d.online = "unknown"
      /\ d.online = "online" => d.failures = 0
  BY <1>0, <1>1 DEF TimerFits
<1> HIDE DEF d
<1>4. CASE ShouldStartWatchStream(d)
  <2>1. /\ e \in Client /\ e.asserts /\ e.network = d.network /\ e.targets = d.targets
        /\ e.stream = d.stream /\ e.idle = d.idle /\ e.asked = d.asked
        /\ TimerFits(e)
    <3>1. CASE d.online = "online"
      <4>1. d.failures = 0 /\ d.timer = FALSE
        BY <1>1, <1>3, <3>1 DEF Client
      <4>2. e = [d EXCEPT !.online = "unknown"]
        BY <1>1, <3>1, <4>1 DEF HandleWatchStreamFailure, HardAssert, Client
      <4> QED
        BY <1>1, <4>1, <4>2 DEF Client, Online, TimerFits
    <3>2. CASE d.online # "online" /\ d.failures + 1 >= MaxFailures
      <4>1. e = [d EXCEPT !.failures = MaxFailures, !.timer = FALSE, !.online = "offline"]
        BY <3>2 DEF HandleWatchStreamFailure
      <4>2. MaxFailures \in 0..MaxFailures /\ MaxFailures # 0
        BY BoundAssumption
      <4> HIDE DEF e
      <4>3. /\ e \in Client /\ e.asserts /\ e.network = d.network /\ e.targets = d.targets
            /\ e.stream = d.stream /\ e.idle = d.idle /\ e.asked = d.asked
            /\ e.timer = FALSE /\ e.online = "offline"
        BY <1>1, <4>1, <4>2 DEF Client, Online
      <4> QED
        BY <4>3 DEF TimerFits
    <3>3. CASE d.online # "online" /\ ~(d.failures + 1 >= MaxFailures)
      <4>1. e = [d EXCEPT !.failures = d.failures + 1]
        BY <3>3 DEF HandleWatchStreamFailure
      <4>2. d.failures + 1 \in 0..MaxFailures /\ d.failures + 1 # 0
        BY <1>1, <3>3, BoundAssumption DEF Client
      <4> QED
        BY <1>1, <1>3, <3>3, <4>1, <4>2 DEF Client, TimerFits
    <3> QED
      BY <3>1, <3>2, <3>3
  <2> HIDE DEF e
  <2>2. StreamFits(e) /\ ShouldStartWatchStream(e)
    BY <1>1, <1>4, <2>1 DEF StreamFits, ShouldStartWatchStream, IsStarted, IsOpen
  <2> QED
    BY <1>2, <1>4, <2>1, <2>2, SoundStart
<1>5. CASE ~ShouldStartWatchStream(d)
  BY <1>1, <1>2, <1>5, SoundUpdate DEF ShouldStartWatchStream, Started, Online
<1> QED
  BY <1>4, <1>5

-----------------------------------------------------------------------------
(* What the tasks of the worker queue do.                                  *)

LEMMA SoundDisabled ==
    ASSUME NEW c, Sound(c)
    PROVE  Sound(NetworkDisabled(c))
<1> DEFINE d == [c EXCEPT !.network = FALSE]
<1>1. Sound(d) /\ ~d.network
  BY DEF Sound, Client, TimerFits, StreamFits, Started, IsStarted, IsOpen
<1>2. NetworkDisabled(c) = UpdateState(Stop(d), "offline")
  BY DEF NetworkDisabled
<1> HIDE DEF d
<1>3. Sound(Stop(d))
  BY <1>1, SoundStop
<1> QED
  BY <1>2, <1>3, SoundUpdate DEF Sound, Online

LEMMA SoundEnabled ==
    ASSUME NEW c \in Client, c.asserts, TimerFits(c), StreamFits(c)
    PROVE  Sound(NetworkEnabled(c))
<1> DEFINE on == [c EXCEPT !.network = TRUE]
<1>1. on \in Client /\ on.asserts /\ TimerFits(on) /\ StreamFits(on)
  BY DEF Client, TimerFits, StreamFits, IsStarted, IsOpen
<1>2. NetworkEnabled(c) = IF ShouldStartWatchStream(on) THEN StartWatchStream(on)
                          ELSE UpdateState(on, "unknown")
  BY DEF NetworkEnabled
<1> HIDE DEF on
<1>3. CASE ShouldStartWatchStream(on)
  BY <1>1, <1>2, <1>3, SoundStart
<1>4. CASE ~ShouldStartWatchStream(on)
  <2>1. Started(on)
    BY <1>4 DEF ShouldStartWatchStream, Started
  <2> QED
    BY <1>1, <1>2, <1>4, <2>1, SoundUpdate DEF Online
<1> QED
  BY <1>3, <1>4

LEMMA SoundRestarted ==
    ASSUME NEW c, Sound(c)
    PROVE  Sound(NetworkRestarted(c))
<1> DEFINE d == [c EXCEPT !.network = FALSE]
           e == UpdateState(Stop(d), "unknown")
           f == [e EXCEPT !.stream = "initial"]
<1>1. Sound(d) /\ ~d.network
  BY DEF Sound, Client, TimerFits, StreamFits, Started, IsStarted, IsOpen
<1>2. NetworkRestarted(c) = NetworkEnabled(f)
  BY DEF NetworkRestarted
<1> HIDE DEF d
<1>3. Sound(Stop(d)) /\ ~IsStarted(Stop(d))
  BY <1>1, SoundStop
<1>4. Sound(e)
  BY <1>3, SoundUpdate DEF Sound, Online
<1>5. e.stream = Stop(d).stream /\ ~e.timer
  BY <1>3 DEF UpdateState, Sound, Client
<1> HIDE DEF e
<1>6. ~IsStarted(e)
  BY <1>3, <1>5 DEF IsStarted, IsOpen
<1>7. f \in Client /\ f.asserts /\ TimerFits(f) /\ StreamFits(f)
  BY <1>4, <1>5, <1>6 DEF Sound, Client, State, TimerFits, StreamFits, IsStarted, IsOpen
<1> HIDE DEF f
<1> QED
  BY <1>2, <1>7, SoundEnabled

LEMMA SoundListened ==
    ASSUME NEW c, Sound(c), NEW t \in Target
    PROVE  Sound(Listened(c, t))
<1> DEFINE d == [c EXCEPT !.targets = @ \cup {t}]
<1>1. CASE IsOpen(c)
  <2> DEFINE e == [d EXCEPT !.asked = @ \cup {t}, !.idle = FALSE]
  <2>1. /\ e \in Client /\ e.asserts /\ e.targets = c.targets \cup {t} /\ e.asked = c.asked \cup {t}
        /\ e.idle = FALSE /\ e.stream = c.stream /\ e.online = c.online
        /\ e.failures = c.failures /\ e.timer = c.timer
    BY DEF Sound, Client
  <2>2. Listened(c, t) = e
    BY <1>1 DEF Listened
  <2> HIDE DEF e
  <2> QED
    BY <1>1, <2>1, <2>2 DEF Sound, TimerFits, StreamFits, Started, IsStarted, IsOpen
<1>2. CASE ~IsOpen(c)
  <2>1. d \in Client /\ d.asserts /\ TimerFits(d) /\ StreamFits(d)
    BY <1>2 DEF Sound, Client, TimerFits, StreamFits, IsStarted, IsOpen
  <2>2. Listened(c, t) = StartIfNeeded(d)
    BY <1>2 DEF Listened
  <2> HIDE DEF d
  <2> QED
    BY <2>1, <2>2, SoundStartIfNeeded
<1> QED
  BY <1>1, <1>2

LEMMA SoundUnlistened ==
    ASSUME NEW c, Sound(c), NEW t \in Target
    PROVE  /\ Sound(Unlistened(c, t))
           /\ Unlistened(c, t).online \in {c.online, "unknown"}
<1> DEFINE d == [c EXCEPT !.targets = @ \ {t}, !.asked = @ \ {t}]
<1>1. /\ d \in Client /\ d.asserts /\ d.targets = c.targets \ {t} /\ d.asked = c.asked \ {t}
      /\ d.network = c.network /\ d.stream = c.stream /\ d.online = c.online /\ d.idle = c.idle
      /\ d.failures = c.failures /\ d.timer = c.timer
  BY DEF Sound, Client
<1>2. Unlistened(c, t) =
          IF d.targets # {} THEN [d EXCEPT !.idle = @ /\ ~IsOpen(c)]
          ELSE IF IsOpen(c) THEN [d EXCEPT !.idle = TRUE]
          ELSE IF c.network THEN UpdateState(d, "unknown")
          ELSE d
  BY DEF Unlistened
<1> HIDE DEF d
<1>3. TimerFits(d) /\ StreamFits(d) /\ Started(d)
  BY <1>1 DEF Sound, TimerFits, StreamFits, Started, IsStarted, IsOpen
<1>4. CASE d.targets # {}
  <2> DEFINE e == [d EXCEPT !.idle = @ /\ ~IsOpen(c)]
  <2>1. d.idle = FALSE
    BY <1>1, <1>3, <1>4 DEF StreamFits, Client
  <2>2. e = d
    BY <1>1, <2>1 DEF Client
  <2> QED
    BY <1>1, <1>2, <1>3, <1>4, <2>2 DEF Sound
<1>5. CASE d.targets = {} /\ IsOpen(c)
  <2> DEFINE e == [d EXCEPT !.idle = TRUE]
  <2>1. /\ e \in Client /\ e.asserts /\ e.targets = {} /\ e.asked = d.asked
        /\ e.network = d.network /\ e.stream = "open" /\ e.online = d.online
        /\ e.failures = d.failures /\ e.timer = d.timer
    BY <1>1, <1>5 DEF Client, IsOpen
  <2>2. Unlistened(c, t) = e
    BY <1>2, <1>5
  <2> HIDE DEF e
  <2> QED
    BY <1>1, <1>3, <1>5, <2>1, <2>2 DEF Sound, TimerFits, StreamFits, Started, IsStarted, IsOpen
<1>6. CASE d.targets = {} /\ ~IsOpen(c) /\ c.network
  <2>1. UpdateState(d, "unknown").online = "unknown"
    BY <1>1 DEF UpdateState, Client
  <2> QED
    BY <1>1, <1>2, <1>3, <1>6, <2>1, SoundUpdate DEF Online
<1>7. CASE d.targets = {} /\ ~IsOpen(c) /\ ~c.network
  BY <1>1, <1>2, <1>3, <1>7 DEF Sound
<1> QED
  BY <1>4, <1>5, <1>6, <1>7

-----------------------------------------------------------------------------
(* The invariant.                                                          *)

LEMMA Initially == Init => IInv
<1> SUFFICES ASSUME Init PROVE IInv
  OBVIOUS
<1>1. 0 \in 0..MaxFailures
  BY BoundAssumption
<1>2. client \in Client
  BY <1>1 DEF Init, Client, State, Online
<1> QED
  BY <1>2 DEF Init, IInv, Sound, TimerFits, StreamFits, Started, IsOpen, OfflineIsTold, Heard

LEMMA BecomesKeeps ==
    ASSUME IInv, NEW c, Sound(c), Becomes(c)
    PROVE  IInv'
<1>1. client' = c /\ heard' = Told(c)
  BY DEF Becomes
<1>2. heard' \in [Target -> Heard]
  BY <1>1 DEF IInv, Told, Heard
<1>3. OfflineIsTold'
  BY <1>1 DEF OfflineIsTold, Told
<1>4. Sound(client')
  BY <1>1
<1> QED
  BY <1>2, <1>3, <1>4 DEF IInv

(* One listener is told, or dropped, while the client is not offline or    *)
(* was told of it already.                                                 *)
LEMMA OneHears ==
    ASSUME IInv, NEW t \in Target, NEW what \in Heard \ {"nothing"}, Sound(client'),
           client'.online = "offline" => client.online = "offline",
           heard' = [heard EXCEPT ![t] = what]
    PROVE  IInv'
<1>1. heard' \in [Target -> Heard]
  BY DEF IInv
<1>2. OfflineIsTold'
  BY DEF IInv, OfflineIsTold
<1> QED
  BY <1>1, <1>2 DEF IInv

LEMMA ListenStep ==
    ASSUME IInv, NEW t \in Target, Listen(t)
    PROVE  IInv'
<1> DEFINE c == Listened(client, t)
<1>1. Sound(c) /\ client' = c
  BY SoundListened DEF IInv, Listen
<1>2. PICK hasDocuments \in BOOLEAN :
          heard' = [Told(c) EXCEPT ![t] =
              IF hasDocuments \/ c.online = "offline" THEN "cache" ELSE "nothing"]
  BY DEF Listen
<1> HIDE DEF c
<1>3. Told(c) \in [Target -> Heard] /\ (c.online = "offline" => \A s \in Target : Told(c)[s] # "nothing")
  BY DEF IInv, Told, Heard
<1>4. heard' \in [Target -> Heard]
  BY <1>2, <1>3 DEF Heard
<1>5. OfflineIsTold'
  BY <1>1, <1>2, <1>3 DEF OfflineIsTold
<1> QED
  BY <1>1, <1>4, <1>5 DEF IInv

LEMMA TargetStep ==
    ASSUME IInv, NEW t \in Target,
           StopListening(t) \/ TargetCurrent(t) \/ TargetRejected(t)
    PROVE  IInv'
<1>0. Sound(client)
  BY DEF IInv
<1>1. CASE StopListening(t)
  <2>1. Sound(client') /\ client'.online \in {client.online, "unknown"}
    BY <1>0, <1>1, SoundUnlistened DEF StopListening
  <2>2. heard' = [heard EXCEPT ![t] = "none"]
    BY <1>1 DEF StopListening
  <2> QED
    BY <2>1, <2>2, OneHears DEF Heard
<1>2. CASE TargetCurrent(t)
  <2>1. Sound(client')
    BY <1>0, <1>2, SoundUpdate DEF TargetCurrent, Sound, Online
  <2>2. client'.online = "online"
    BY <1>0, <1>2 DEF TargetCurrent, UpdateState, Sound, Client
  <2>3. heard' = [heard EXCEPT ![t] = "server"]
    BY <1>2 DEF TargetCurrent
  <2> QED
    BY <2>1, <2>2, <2>3, OneHears DEF Heard
<1>3. CASE TargetRejected(t)
  <2> DEFINE d == [client EXCEPT !.targets = @ \ {t}, !.asked = @ \ {t}]
  <2>1. /\ d \in Client /\ d.asserts /\ d.targets = client.targets \ {t}
        /\ d.asked = client.asked \ {t} /\ d.network = client.network
        /\ d.stream = client.stream /\ d.idle = client.idle
    BY <1>0 DEF Sound, Client
  <2>2. client' = UpdateState(d, "online") /\ heard' = [heard EXCEPT ![t] = "none"]
    BY <1>3 DEF TargetRejected
  <2> HIDE DEF d
  <2>3. StreamFits(d) /\ Started(d)
    BY <1>0, <2>1 DEF Sound, StreamFits, Started, IsStarted, IsOpen
  <2>4. Sound(client')
    BY <2>1, <2>2, <2>3, SoundUpdate DEF Online
  <2>5. client'.online = "online"
    BY <2>1, <2>2 DEF UpdateState, Client
  <2> QED
    BY <2>2, <2>4, <2>5, OneHears DEF Heard
<1> QED
  BY <1>1, <1>2, <1>3

LEMMA NetworkStep ==
    ASSUME IInv, DisableNetwork \/ EnableNetwork \/ RestartNetwork
    PROVE  IInv'
<1>0. Sound(client)
  BY DEF IInv
<1>1. CASE DisableNetwork
  BY <1>0, <1>1, SoundDisabled, BecomesKeeps DEF DisableNetwork
<1>2. CASE EnableNetwork
  <2>1. Sound(NetworkEnabled(client))
    BY <1>0, SoundEnabled DEF Sound
  <2> QED
    BY <1>2, <2>1, BecomesKeeps DEF EnableNetwork
<1>3. CASE RestartNetwork
  BY <1>0, <1>3, SoundRestarted, BecomesKeeps DEF RestartNetwork
<1> QED
  BY <1>1, <1>2, <1>3

LEMMA StreamStep ==
    ASSUME IInv, StreamOpens \/ StreamFails \/ BackoffElapsed \/ IdleElapsed
    PROVE  IInv'
<1>0. Sound(client) /\ client \in Client /\ client.asserts
  BY DEF IInv, Sound
<1>1. CASE StreamOpens
  <2> DEFINE d == [client EXCEPT !.stream = "open", !.asked = client.targets]
  <2>1. /\ d \in Client /\ d.asserts /\ d.stream = "open" /\ d.asked = d.targets
        /\ d.targets = client.targets /\ d.idle = client.idle /\ d.online = client.online
        /\ d.failures = client.failures /\ d.timer = client.timer
    BY <1>0 DEF Client, State
  <2>2. client.stream = "starting" /\ Becomes(d)
    BY <1>1 DEF StreamOpens
  <2> HIDE DEF d
  <2>3. Sound(d)
    BY <1>0, <2>1, <2>2 DEF Sound, TimerFits, StreamFits, Started, IsStarted, IsOpen
  <2> QED
    BY <2>2, <2>3, BecomesKeeps
<1>2. CASE StreamFails
  BY <1>0, <1>2, SoundFailed, BecomesKeeps DEF StreamFails
<1>3. CASE BackoffElapsed
  <2> DEFINE d == [client EXCEPT !.stream = "starting"]
  <2>1. /\ d \in Client /\ d.asserts /\ d.stream = "starting" /\ d.asked = client.asked
        /\ d.targets = client.targets /\ d.idle = client.idle /\ d.online = client.online
        /\ d.failures = client.failures /\ d.timer = client.timer
    BY <1>0 DEF Client, State
  <2>2. client.stream = "backoff" /\ Becomes(d)
    BY <1>3 DEF BackoffElapsed
  <2> HIDE DEF d
  <2>3. Sound(d)
    BY <1>0, <2>1, <2>2 DEF Sound, TimerFits, StreamFits, Started, IsStarted, IsOpen
  <2> QED
    BY <2>2, <2>3, BecomesKeeps
<1>4. CASE IdleElapsed
  <2>1. client.targets = {} /\ Becomes(Stop(client))
    BY <1>0, <1>4 DEF IdleElapsed, Sound, StreamFits
  <2>2. Sound(Stop(client))
    BY <1>0, <2>1, SoundStop
  <2> QED
    BY <2>1, <2>2, BecomesKeeps
<1> QED
  BY <1>1, <1>2, <1>3, <1>4

LEMMA StateStep ==
    ASSUME IInv, OnlineTimerElapsed \/ AnyMessage
    PROVE  IInv'
<1>0. /\ Sound(client) /\ client \in Client /\ client.asserts /\ StreamFits(client)
      /\ Started(client) /\ TimerFits(client)
  BY DEF IInv, Sound
<1>1. CASE OnlineTimerElapsed
  <2> DEFINE d == [client EXCEPT !.timer = FALSE, !.online = "offline"]
  <2>1. /\ d \in Client /\ d.asserts = TRUE /\ d.stream = client.stream /\ d.asked = client.asked
        /\ d.targets = client.targets /\ d.idle = client.idle /\ d.online = "offline"
        /\ d.network = client.network
        /\ d.failures = client.failures /\ d.timer = FALSE
    BY <1>0 DEF Client, Online
  <2>2. client.online = "unknown" /\ Becomes(HardAssert(d, client.online = "unknown"))
    BY <1>0, <1>1 DEF OnlineTimerElapsed, TimerFits
  <2> HIDE DEF d
  <2>3. HardAssert(d, client.online = "unknown") = d
    BY <2>1, <2>2 DEF HardAssert, Client
  <2>4. Sound(d)
    BY <1>0, <2>1 DEF Sound, TimerFits, StreamFits, Started, IsStarted, IsOpen
  <2> QED
    BY <2>2, <2>3, <2>4, BecomesKeeps
<1>2. CASE AnyMessage
  <2>1. Sound(UpdateState(client, "online"))
    BY <1>0, SoundUpdate DEF Online
  <2> QED
    BY <1>2, <2>1, BecomesKeeps DEF AnyMessage
<1> QED
  BY <1>1, <1>2

LEMMA Inductive == IInv /\ [Next]_vars => IInv'
<1> SUFFICES ASSUME IInv, [Next]_vars PROVE IInv'
  OBVIOUS
<1>1. CASE Next
  BY <1>1, ListenStep, TargetStep, NetworkStep, StreamStep, StateStep DEF Next
<1>2. CASE UNCHANGED vars
  BY <1>2 DEF vars, IInv, Sound, Client, TimerFits, StreamFits, Started, IsStarted, IsOpen,
              OfflineIsTold
<1> QED
  BY <1>1, <1>2

(* Between any two tasks of the worker queue the state, its timer, the     *)
(* stream and the listeners agree, whatever failed, stopped or changed.    *)
THEOREM OnlineStateAgrees == Spec => []Inv
<1>1. IInv => Inv
  BY DEF IInv, Sound, TimerFits, StreamFits, Started, Inv, TypeOK, Client, AssertsHold,
         WantedIsStarted, Wanted, OpenWatchesAll
<1> QED
  BY <1>1, Initially, Inductive, PTL DEF Spec

=============================================================================
