------------------------------ MODULE EggTimer -------------------------------
(***************************************************************************)
(* UIKit/Egg Timer: a repeating Timer counts seconds until the egg is done.*)
(*                                                                         *)
(* The timer is an object of the run loop: it fires once a second until it *)
(* is invalidated, also when the view controller holds another one by      *)
(* then.  The seconds it counts are firings, not time: while the app is in *)
(* the background it does not run, and a timer that has missed firings     *)
(* makes up for one of them.                                               *)
(***************************************************************************)
EXTENDS Integers

CONSTANTS
    Hardness,       \* the buttons
    EggTime,        \* eggTimes
    TimerId,        \* names of Timer objects
    Nil,
    MaxSeconds      \* a bound on the clock: it stands there for all later times

ASSUME EggTimeAssumption == EggTime \in [Hardness -> Nat \ {0}]
ASSUME ClockAssumption ==
    MaxSeconds \in Nat /\ \A h \in Hardness : EggTime[h] < MaxSeconds
ASSUME NilAssumption == Nil \notin TimerId

VARIABLES
    live,           \* the timers in the run loop: id |-> the button that made it
    timer,          \* ViewController.timer
    due,            \* the timers whose second is over and that have not fired
    totalTime,
    secondsPassed,
    title,          \* titleLabel
    stopShown,      \* ~stopButton.isHidden
    active,         \* is the app in the foreground?
    elapsed,        \* the seconds since a button was pressed
    slept           \* has a second passed in the background since?

world == <<active, elapsed, slept>>
view == <<totalTime, secondsPassed, title, stopShown>>
eggVars == <<live, timer, due, view, world>>

FirstTitle == [says |-> "How do you like your eggs?", level |-> Nil, seconds |-> 0]
Passed(h, n) == [says |-> "seconds passed", level |-> h, seconds |-> n]
Done == [says |-> "Done!", level |-> Nil, seconds |-> 0]

EggInit ==
    /\ live = [t \in {} |-> Nil]
    /\ timer = Nil
    /\ due = {}
    /\ totalTime = 0
    /\ secondsPassed = 0
    /\ title = FirstTitle
    /\ stopShown = FALSE
    /\ active = TRUE
    /\ elapsed = 0
    /\ slept = FALSE

Timers == DOMAIN live

(* The run loop without timer t.                                           *)
Without(t) == [u \in Timers \ {t} |-> live[u]]

-----------------------------------------------------------------------------
(* Fault: a second timer is started beside the first.                      *)
Fault_SelectedKeepsTimer(h, t) ==
    /\ active
    /\ t \notin Timers
    /\ live' = [u \in Timers \cup {t} |-> IF u = t THEN h ELSE live[u]]
    /\ timer' = t
    /\ due' = due
    /\ secondsPassed' = 0
    /\ totalTime' = EggTime[h]
    /\ elapsed' = 0
    /\ slept' = FALSE
    /\ UNCHANGED <<title, stopShown, active>>

(* Fault: the seconds are not set back.                                    *)
Fault_SelectedKeepsSeconds(h, t) ==
    /\ active
    /\ t \notin Timers
    /\ live' = [u \in {t} |-> h]
    /\ timer' = t
    /\ due' = {}
    /\ totalTime' = EggTime[h]
    /\ elapsed' = 0
    /\ slept' = FALSE
    /\ UNCHANGED <<secondsPassed, title, stopShown, active>>

(* hardnessSelected: reset, and a new timer.  What the title says and      *)
(* whether there is a stop button does not change until it fires.          *)
HardnessSelected(h, t) ==
    /\ active
    /\ t \notin Timers
    /\ live' = [u \in (Timers \ {timer}) \cup {t} |-> IF u = t THEN h ELSE live[u]]
    /\ timer' = t
    /\ due' = due \ {timer}
    /\ secondsPassed' = 0
    /\ totalTime' = EggTime[h]
    /\ elapsed' = 0
    /\ slept' = FALSE
    /\ UNCHANGED <<title, stopShown, active>>

(* The block of a timer while there are seconds left.                      *)
Count(t) ==
    /\ active
    /\ t \in due
    /\ secondsPassed < totalTime
    /\ secondsPassed' = secondsPassed + 1
    /\ title' = Passed(live[t], secondsPassed')
    /\ stopShown' = TRUE
    /\ due' = due \ {t}
    /\ UNCHANGED <<live, timer, totalTime, world>>

(* Fault: the block does not stop its timer.                               *)
Fault_RingsForEver(t) ==
    /\ active
    /\ t \in due
    /\ secondsPassed >= totalTime
    /\ title' = Done
    /\ stopShown' = FALSE
    /\ due' = due \ {t}
    /\ UNCHANGED <<live, timer, totalTime, secondsPassed, world>>

(* The block when the time is over: it invalidates self.timer, and the     *)
(* alarm is played.                                                        *)
Ring(t) ==
    /\ active
    /\ t \in due
    /\ secondsPassed >= totalTime
    /\ live' = Without(timer)
    /\ due' = due \ {t, timer}
    /\ title' = Done
    /\ stopShown' = FALSE
    /\ UNCHANGED <<timer, totalTime, secondsPassed, world>>

Stop ==
    /\ active
    /\ stopShown
    /\ live' = Without(timer)
    /\ due' = due \ {timer}
    /\ secondsPassed' = 0
    /\ title' = FirstTitle
    /\ stopShown' = FALSE
    /\ UNCHANGED <<timer, totalTime, world>>

-----------------------------------------------------------------------------
(* A second goes by.  In the foreground the timers due have fired before   *)
(* the next one is over; in the background they wait.                      *)
Second ==
    /\ active => due = {}
    /\ due' = Timers
    /\ elapsed' = IF elapsed < MaxSeconds THEN elapsed + 1 ELSE elapsed
    /\ slept' = (slept \/ ~active)
    /\ UNCHANGED <<live, timer, view, active>>

EnterBackground == active /\ active' = FALSE /\ UNCHANGED <<live, timer, due, view, elapsed, slept>>
EnterForeground == ~active /\ active' = TRUE /\ UNCHANGED <<live, timer, due, view, elapsed, slept>>

Select == \E h \in Hardness, t \in TimerId : HardnessSelected(h, t)
Fire == \E t \in TimerId : Count(t) \/ Ring(t)

EggNext == Select \/ Fire \/ Stop \/ Second \/ EnterBackground \/ EnterForeground

(* Seconds go by, and the run loop fires what is due while it runs.        *)
EggFairness == WF_eggVars(Second) /\ WF_eggVars(Fire)

EggSpec == EggInit /\ [][EggNext]_eggVars /\ EggFairness

-----------------------------------------------------------------------------
Titles == {FirstTitle, Done} \cup {Passed(h, n) : h \in Hardness, n \in 1..MaxSeconds}
Totals == {0} \cup {EggTime[h] : h \in Hardness}

(* Every variable holds a value of its kind; there are never more seconds  *)
(* counted than there are to count.                                        *)
EggTypeOK ==
    /\ Timers \subseteq TimerId
    /\ live \in [Timers -> Hardness]
    /\ timer \in TimerId \cup {Nil}
    /\ due \subseteq Timers
    /\ totalTime \in Totals
    /\ secondsPassed \in 0..totalTime
    /\ title \in Titles
    /\ stopShown \in BOOLEAN
    /\ active \in BOOLEAN
    /\ elapsed \in 0..MaxSeconds
    /\ slept \in BOOLEAN

(* However often the buttons are pressed, one timer counts: the one the    *)
(* view controller can invalidate.                                         *)
OneTimer == Timers \subseteq {timer}

(* The egg is never said to have boiled longer than it has, not after any  *)
(* number of buttons pressed in the same second.                           *)
NeverAhead == secondsPassed <= elapsed

(* Nor shorter, once what is due has fired, unless the app has been in the *)
(* background since the button was pressed: then the count falls behind    *)
(* the time and stays there.                                               *)
KeepsPace ==
    Timers # {} /\ due = {} /\ ~slept =>
        secondsPassed = IF elapsed < totalTime THEN elapsed ELSE totalTime

(* "Done!" comes when the time of the level last chosen is over, never     *)
(* before, and never after Stop.                                           *)
DoneNotEarly ==
    [][title' = Done /\ title # Done =>
         elapsed > totalTime /\ timer \in Timers]_eggVars

(* A stop button on screen has a timer to stop, and it is there exactly as *)
(* long as the title counts seconds (of the level chosen before, if the    *)
(* new one has not been counted for yet).                                  *)
StopStopsSomething ==
    /\ stopShown => Timers # {}
    /\ title.says = "seconds passed" <=> stopShown

(* Left alone in the foreground, the egg gets done: the timers all stop.   *)
LeftAloneItRings ==
    <>[]active /\ <>[][~Select /\ ~Stop]_eggVars => <>[](Timers = {})

(* The clock, the timers and the screen agree between any two steps.       *)
EggInv == EggTypeOK /\ OneTimer /\ NeverAhead /\ KeepsPace /\ StopStopsSomething
=============================================================================
