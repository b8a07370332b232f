----------------------------- MODULE LateAnswers ----------------------------
(***************************************************************************)
(* Requests over the network whose answers come in any order, as Clima's   *)
(* WeatherManager makes them: a URLSession of its own for each request,    *)
(* the answer decoded on a queue of that session, and a block on the main  *)
(* queue that shows it.  No request is ever cancelled, and no answer is    *)
(* compared with what was asked since.                                     *)
(*                                                                         *)
(* burst and missed only record: what the user asked for since nothing was *)
(* under way, and whether some of that came to nothing.                    *)
(***************************************************************************)
EXTENDS Naturals, Sequences, FiniteSets, SequencesExt

CONSTANTS
    What,           \* what can be asked for
    MaxAsked        \* requests sent: a bound

ASSUME AskedAssumption == MaxAsked \in Nat

VARIABLES
    asked,          \* what was asked for, in order; a request is its place here
    flying,         \* the requests that have no answer
    main,           \* the requests whose answer waits in the main queue
    label,          \* the request whose answer is shown, 0 at first
    burst, missed

answers == <<asked, flying, main, label>>

NothingSent(wants) ==
    /\ asked = <<>>
    /\ flying = {}
    /\ main = <<>>
    /\ label = 0
    /\ burst = wants
    /\ missed = FALSE

Underway == flying # {} \/ main # <<>>

(***************************************************************************)
(* The user asks for w, while something is pending or not; lost says that  *)
(* it comes to nothing at once.                                            *)
(***************************************************************************)
Intend(w, pending, lost) ==
    /\ burst' = IF pending THEN burst \union {w} ELSE {w}
    /\ missed' = (lost \/ (pending /\ missed))

(***************************************************************************)
(* A plausible fault: the task is made and never resumed.                  *)
(***************************************************************************)
Fault_NeverResumed(w) ==
    /\ asked' = Append(asked, w)
    /\ UNCHANGED <<flying, main, label>>

(***************************************************************************)
(* performRequest.                                                         *)
(***************************************************************************)
PerformRequest(w) ==
    /\ asked' = Append(asked, w)
    /\ flying' = flying \union {Len(asked) + 1}
    /\ UNCHANGED <<main, label>>

(***************************************************************************)
(* An answer comes that parseJSON decodes, and its block is dispatched.    *)
(***************************************************************************)
Succeeds(r) ==
    /\ r \in flying
    /\ flying' = flying \ {r}
    /\ main' = Append(main, r)
    /\ UNCHANGED <<asked, label, burst, missed>>

(***************************************************************************)
(* An error, or an answer that cannot be decoded: both are printed.        *)
(***************************************************************************)
DidFailWithError(r) ==
    /\ r \in flying
    /\ flying' = flying \ {r}
    /\ missed' = TRUE
    /\ UNCHANGED <<asked, main, label, burst>>

(***************************************************************************)
(* The main queue shows an answer.                                         *)
(***************************************************************************)
DidUpdate ==
    /\ main # <<>>
    /\ label' = Head(main)
    /\ main' = Tail(main)
    /\ UNCHANGED <<asked, flying, burst, missed>>

(***************************************************************************)
(* Each request is answered once.                                          *)
(***************************************************************************)
AnswersTypeOK ==
    /\ asked \in Seq(What)
    /\ Len(asked) <= MaxAsked
    /\ flying \subseteq DOMAIN asked
    /\ ToSet(main) \subseteq DOMAIN asked \ flying
    /\ IsInjective(main)
    /\ label \in {0} \union DOMAIN asked
    /\ burst \subseteq What
    /\ missed \in BOOLEAN
=============================================================================
