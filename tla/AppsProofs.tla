----------------------------- MODULE AppsProofs ------------------------------
(***************************************************************************)
(* The small apps, each for every value of its constants: Egg Timer's      *)
(* clock, timers and screen, Quizzler's score and screen, WhatFlower's     *)
(* screen, and Clima's.  The apps share no variable and no action.         *)
(***************************************************************************)
EXTENDS EggTimer, Quizzler, WhatFlower, Clima, SequenceTheorems, TLAPS

-----------------------------------------------------------------------------
(* Egg Timer, for any buttons and times, any number of Timer objects and   *)
(* any bound on the clock.                                                 *)

(* How many seconds should have been counted when s are over.              *)
Counted(s) == IF s < totalTime THEN s ELSE totalTime

(* Inv speaks of states where nothing is due, or says too little of the    *)
(* others.  A firing that is due is for a second that has not been counted *)
(* yet, and unless the app slept for just that one.                        *)
DueIsUncounted ==
    /\ due # {} => secondsPassed < elapsed
    /\ due # {} /\ ~slept => secondsPassed = Counted(elapsed - 1)

EggIInv == EggInv /\ DueIsUncounted

(* The bound on the clock is beyond every level, and the time of the level *)
(* chosen is a number.                                                     *)
LEMMA Times ==
    ASSUME EggTypeOK
    PROVE  /\ MaxSeconds \in Nat
           /\ totalTime \in Nat
           /\ Timers # {} => totalTime < MaxSeconds
           /\ totalTime <= MaxSeconds
           /\ secondsPassed \in Nat /\ secondsPassed <= totalTime
           /\ elapsed \in Nat /\ elapsed <= MaxSeconds
<1>1. /\ MaxSeconds \in Nat
      /\ \A h \in Hardness : EggTime[h] \in Nat \ {0} /\ EggTime[h] < MaxSeconds
    BY EggTimeAssumption, ClockAssumption
<1>2. Timers # {} => Hardness # {}
    BY DEF EggTypeOK
<1>3. totalTime = 0 \/ \E h \in Hardness : totalTime = EggTime[h]
    BY DEF EggTypeOK, Totals
<1>4. totalTime \in Nat /\ totalTime <= MaxSeconds /\ (Timers # {} => totalTime < MaxSeconds)
    BY <1>1, <1>2, <1>3
<1> QED
    BY <1>1, <1>4 DEF EggTypeOK

(* What the sets of times and titles of TypeOK hold.                       *)
LEMMA NamesOfSets ==
    /\ FirstTitle \in Titles /\ Done \in Titles
    /\ 0 \in Totals
    /\ \A h \in Hardness : EggTime[h] \in Totals
    BY DEF Titles, Totals

(* Nothing is timed at first.                                              *)
LEMMA InitIInv == EggInit => EggIInv
<1> SUFFICES ASSUME EggInit
             PROVE  EggIInv
    OBVIOUS
<1>1. Timers = {} /\ live \in [Timers -> Hardness]
    BY DEF EggInit, Timers
<1>2. title = FirstTitle /\ title.says = "How do you like your eggs?"
    BY DEF EggInit, FirstTitle
<1>3. EggTypeOK
  <2>1. secondsPassed \in 0..totalTime /\ elapsed \in 0..MaxSeconds
      BY ClockAssumption DEF EggInit
  <2>2. Timers \subseteq TimerId /\ due \subseteq Timers /\ timer = Nil
      BY <1>1 DEF EggInit
  <2>3. stopShown = FALSE /\ active = TRUE /\ slept = FALSE /\ totalTime = 0
      BY DEF EggInit
  <2> QED
      BY <1>1, <1>2, <2>1, <2>2, <2>3, NamesOfSets DEF EggTypeOK
<1>4. OneTimer /\ NeverAhead /\ KeepsPace /\ DueIsUncounted
    BY <1>1 DEF EggInit, OneTimer, NeverAhead, KeepsPace, DueIsUncounted
<1>5. StopStopsSomething
    BY <1>2 DEF EggInit, StopStopsSomething
<1> QED
    BY <1>3, <1>4, <1>5 DEF EggIInv, EggInv

(* A button: the timer before it is gone, with the second that was due.    *)
LEMMA SelectKeepsIInv ==
    ASSUME EggIInv, NEW h \in Hardness, NEW t \in TimerId, HardnessSelected(h, t)
    PROVE  EggIInv'
<1>1. EggTypeOK /\ OneTimer /\ StopStopsSomething
    BY DEF EggIInv, EggInv
<1>2. Timers' = {t} /\ live' \in [{t} -> Hardness]
    BY <1>1 DEF HardnessSelected, Timers, OneTimer, EggTypeOK
<1>3. due' = {}
    BY <1>1 DEF HardnessSelected, OneTimer, EggTypeOK
<1>4. EggTime[h] \in Nat \ {0}
    BY EggTimeAssumption
<1>5. EggTypeOK'
  <2>1. secondsPassed' \in 0..totalTime' /\ elapsed' \in 0..MaxSeconds
      BY <1>4, ClockAssumption DEF HardnessSelected
  <2>2. /\ timer' = t /\ totalTime' = EggTime[h] /\ title' = title
        /\ stopShown' = stopShown /\ active' = active /\ slept' = FALSE
      BY DEF HardnessSelected
  <2> QED
      BY <1>1, <1>2, <1>3, <2>1, <2>2, NamesOfSets DEF EggTypeOK
<1>6. OneTimer' /\ NeverAhead' /\ KeepsPace' /\ DueIsUncounted'
    BY <1>2, <1>3, <1>4
       DEF OneTimer, NeverAhead, KeepsPace, DueIsUncounted, HardnessSelected
<1>7. StopStopsSomething'
    BY <1>1, <1>2 DEF StopStopsSomething, HardnessSelected
<1> QED
    BY <1>5, <1>6, <1>7 DEF EggIInv, EggInv

(* The only timer is the one that fires.                                   *)
LEMMA TheOneDue ==
    ASSUME EggIInv, NEW t \in due
    PROVE  t = timer /\ t \in Timers /\ due = {timer} /\ Timers = {timer}
    BY DEF EggIInv, EggInv, EggTypeOK, OneTimer

(* A firing that counts makes up for the second it was due for.            *)
LEMMA CountKeepsIInv ==
    ASSUME EggIInv, NEW t \in TimerId, Count(t)
    PROVE  EggIInv'
<1>1. EggTypeOK /\ OneTimer
    BY DEF EggIInv, EggInv
<1>2. t = timer /\ t \in Timers /\ due = {timer} /\ due' = {} /\ Timers' = Timers
    BY TheOneDue DEF Count, Timers
<1>3. /\ totalTime \in Nat /\ totalTime <= MaxSeconds /\ MaxSeconds \in Nat
      /\ secondsPassed \in Nat /\ elapsed \in Nat
    BY <1>1, Times
<1>4. live[t] \in Hardness /\ secondsPassed' \in 1..MaxSeconds /\ secondsPassed' \in 0..totalTime
    BY <1>1, <1>2, <1>3 DEF EggTypeOK, Count
<1>5. title' \in Titles
    BY <1>4 DEF Count, Titles
<1>6. EggTypeOK'
    BY <1>1, <1>2, <1>4, <1>5 DEF EggTypeOK, Count, world
<1>7. NeverAhead' /\ KeepsPace' /\ DueIsUncounted'
    BY <1>2, <1>3 DEF EggIInv, NeverAhead, KeepsPace, DueIsUncounted, Counted, Count, world
<1>8. title'.says = "seconds passed"
    BY DEF Count, Passed
<1>9. OneTimer' /\ StopStopsSomething'
    BY <1>1, <1>2, <1>8 DEF OneTimer, StopStopsSomething, Count
<1> QED
    BY <1>6, <1>7, <1>9 DEF EggIInv, EggInv

(* No timer is left when the egg is done or the stop button is pressed:    *)
(* self.timer is the only one.                                             *)
LEMMA NoneLeft ==
    ASSUME EggIInv, live' = Without(timer)
    PROVE  Timers' = {} /\ live' \in [{} -> Hardness]
    BY DEF EggIInv, EggInv, OneTimer, Without, Timers

(* The last firing invalidates the timer it came from.                     *)
LEMMA RingKeepsIInv ==
    ASSUME EggIInv, NEW t \in TimerId, Ring(t)
    PROVE  EggIInv'
<1>1. EggTypeOK
    BY DEF EggIInv, EggInv
<1>2. Timers' = {} /\ live' \in [{} -> Hardness] /\ due' = {}
    BY NoneLeft, TheOneDue DEF Ring
<1>3. title'.says = "Done!"
    BY DEF Ring, Done
<1>4. EggTypeOK'
    BY <1>1, <1>2, NamesOfSets DEF EggTypeOK, Ring, world
<1>5. OneTimer' /\ NeverAhead' /\ KeepsPace' /\ DueIsUncounted'
    BY <1>2 DEF EggIInv, EggInv, OneTimer, NeverAhead, KeepsPace, DueIsUncounted, Ring, world
<1>6. StopStopsSomething'
    BY <1>3 DEF StopStopsSomething, Ring
<1> QED
    BY <1>4, <1>5, <1>6 DEF EggIInv, EggInv

(* The stop button.                                                        *)
LEMMA StopKeepsIInv ==
    ASSUME EggIInv, Stop
    PROVE  EggIInv'
<1>1. EggTypeOK
    BY DEF EggIInv, EggInv
<1>2. Timers' = {} /\ live' \in [{} -> Hardness]
    BY NoneLeft DEF Stop
<1>3. due' = {}
    BY DEF EggIInv, EggInv, OneTimer, EggTypeOK, Stop
<1>4. title'.says = "How do you like your eggs?"
    BY DEF Stop, FirstTitle
<1>5. totalTime \in Nat /\ elapsed \in Nat
    BY <1>1, Times
<1>6. EggTypeOK'
  <2>1. totalTime' = totalTime /\ secondsPassed' \in 0..totalTime'
      BY <1>5 DEF Stop
  <2> QED
      BY <1>1, <1>2, <1>3, <2>1, NamesOfSets DEF EggTypeOK, Stop, world
<1>7. OneTimer' /\ NeverAhead' /\ KeepsPace' /\ DueIsUncounted'
    BY <1>2, <1>3, <1>5 DEF OneTimer, NeverAhead, KeepsPace, DueIsUncounted, Stop, world
<1>8. StopStopsSomething'
    BY <1>4 DEF StopStopsSomething, Stop
<1> QED
    BY <1>6, <1>7, <1>8 DEF EggIInv, EggInv

(* A second: what is due after it is due for that second, or the app was   *)
(* in the background.                                                      *)
LEMMA SecondKeepsIInv ==
    ASSUME EggIInv, Second
    PROVE  EggIInv'
<1>1. EggTypeOK
    BY DEF EggIInv, EggInv
<1>2. Timers' = Timers /\ due' = Timers
    BY DEF Second, Timers
<1>3. /\ MaxSeconds \in Nat /\ totalTime \in Nat /\ secondsPassed \in Nat
      /\ elapsed \in Nat /\ elapsed <= MaxSeconds /\ secondsPassed <= totalTime
      /\ Timers # {} => totalTime < MaxSeconds
    BY <1>1, Times
<1>4. EggTypeOK'
    BY <1>1, <1>2, <1>3 DEF EggTypeOK, Second, view
<1>5. OneTimer' /\ NeverAhead' /\ StopStopsSomething'
  <2>1. OneTimer' /\ NeverAhead'
      BY <1>2, <1>3 DEF EggIInv, EggInv, OneTimer, NeverAhead, Second, view
  <2>2. StopStopsSomething'
      BY <1>2, Zenon DEF EggIInv, EggInv, StopStopsSomething, Second, view
  <2> QED
      BY <2>1, <2>2
<1>6. due' = {} => Timers' = {}
    BY <1>2
<1>7. KeepsPace'
    BY <1>6 DEF KeepsPace
<1>8. Timers # {} => secondsPassed < elapsed'
    BY <1>1, <1>3 DEF EggIInv, EggInv, NeverAhead, Second
<1>9. Timers # {} /\ ~slept' => secondsPassed = Counted(elapsed' - 1)
  <2> SUFFICES ASSUME Timers # {}, ~slept'
               PROVE  secondsPassed = Counted(elapsed' - 1)
      OBVIOUS
  <2>1. active /\ ~slept /\ due = {}
      BY <1>1 DEF Second, EggTypeOK
  <2>2. secondsPassed = Counted(elapsed)
      BY <2>1 DEF EggIInv, EggInv, KeepsPace, Counted
  <2>3. CASE elapsed < MaxSeconds
      BY <2>2, <2>3, <1>3 DEF Second, Counted
  <2>4. CASE elapsed = MaxSeconds
      BY <2>2, <2>4, <1>3 DEF Second, Counted
  <2> QED
      BY <2>3, <2>4, <1>3
<1>10. DueIsUncounted'
    BY <1>2, <1>8, <1>9 DEF DueIsUncounted, Counted, Second, view
<1> QED
    BY <1>4, <1>5, <1>7, <1>10 DEF EggIInv, EggInv

(* IInv is inductive.                                                      *)
LEMMA NextKeepsIInv ==
    ASSUME EggIInv, [EggNext]_eggVars
    PROVE  EggIInv'
<1>1. CASE Select
    BY <1>1, SelectKeepsIInv DEF Select
<1>2. CASE Fire
    BY <1>2, CountKeepsIInv, RingKeepsIInv DEF Fire
<1>3. CASE Stop
    BY <1>3, StopKeepsIInv
<1>4. CASE Second
    BY <1>4, SecondKeepsIInv
<1>5. ASSUME UNCHANGED <<live, timer, due, view, elapsed, slept>>, active' \in BOOLEAN
      PROVE  EggIInv'
  <2>1. EggTypeOK'
      BY <1>5 DEF EggIInv, EggInv, EggTypeOK, Timers, view
  <2>2. OneTimer' /\ NeverAhead' /\ KeepsPace' /\ StopStopsSomething' /\ DueIsUncounted'
      BY <1>5 DEF EggIInv, EggInv, OneTimer, NeverAhead, KeepsPace, StopStopsSomething,
                  DueIsUncounted, Counted, Timers, view
  <2> QED
      BY <2>1, <2>2 DEF EggIInv, EggInv
<1>6. CASE EnterBackground \/ EnterForeground
    BY <1>5, <1>6 DEF EnterBackground, EnterForeground
<1>7. CASE UNCHANGED eggVars
  <2>1. active' \in BOOLEAN
      BY <1>7 DEF EggIInv, EggInv, EggTypeOK, eggVars, world
  <2> QED
      BY <1>5, <1>7, <2>1 DEF eggVars, world
<1> QED
    BY <1>1, <1>2, <1>3, <1>4, <1>6, <1>7 DEF EggNext

THEOREM StaysIInv == EggSpec => []EggIInv
<1> QED
    BY InitIInv, NextKeepsIInv, PTL DEF EggSpec

(* The clock, the timer and the screen agree between any two steps: one    *)
(* timer at most is in the run loop, and it is the one hardnessSelected    *)
(* and stopPressed invalidate; the seconds shown are never more than have  *)
(* gone by, nor fewer unless the app slept; a stop button stops something. *)
THEOREM ClockAndScreenAgree == EggSpec => []EggInv
<1>1. EggIInv => EggInv
    BY DEF EggIInv
<1> QED
    BY StaysIInv, <1>1, PTL

(* "Done!" is never shown before the time of the level last chosen is      *)
(* over, and only a timer that still runs shows it.                        *)
THEOREM NeverDoneEarly == EggSpec => DoneNotEarly
<1>1. ASSUME EggIInv, [EggNext]_eggVars
      PROVE  [title' = Done /\ title # Done => elapsed > totalTime /\ timer \in Timers]_eggVars
  <2> SUFFICES ASSUME EggNext, title' = Done, title # Done
               PROVE  elapsed > totalTime /\ timer \in Timers
      BY <1>1
  <2>1. Done # FirstTitle /\ \A h, n : Done # Passed(h, n)
      BY DEF Done, FirstTitle, Passed
  <2>2. PICK t \in TimerId : Ring(t)
      BY <2>1 DEF EggNext, Select, HardnessSelected, Fire, Count, Stop, Second,
                  EnterBackground, EnterForeground, view
  <2>3. t = timer /\ timer \in Timers
      BY <1>1, <2>2, TheOneDue DEF Ring
  <2>4. totalTime \in Nat /\ secondsPassed \in Nat /\ elapsed \in Nat
      BY <1>1, Times DEF EggIInv, EggInv
  <2>5. secondsPassed < elapsed /\ secondsPassed >= totalTime
      BY <1>1, <2>2 DEF EggIInv, DueIsUncounted, Ring
  <2> QED
      BY <2>3, <2>4, <2>5
<1> QED
    BY StaysIInv, <1>1, PTL DEF EggSpec, DoneNotEarly

-----------------------------------------------------------------------------
(* Quizzler, for quizzes of any length whose answers are all different,    *)
(* and any number of taps within the 0.2 seconds.                          *)

(* What the proofs need: the score is of this round, and the screen is     *)
(* sound.  scoreShown < QuizCount is inductive only with the bound on the  *)
(* score it is copied from.                                                *)
QuizInv == ScreenSound /\ ScoreOfThisRound

(* The quiz starts at its first question with nothing scored.              *)
LEMMA InitQuizInv == QuizInit => QuizInv
    BY CountAssumption
       DEF QuizInit, QuizInv, ScreenSound, QuizTypeOK, GreenIsCorrect, SettledShowsQuestion,
           ScoreOfThisRound, Question

(* The correct answer to the current question is on a button only while    *)
(* the screen shows that question.                                         *)
LEMMA OnlyIfShown ==
    ASSUME QuizTypeOK, NEW answer \in Answers[shown], answer = Correct[questionNumber]
    PROVE  shown = questionNumber
<1>1. shown \in Question /\ questionNumber \in Question
    BY DEF QuizTypeOK
<1>2. answer \in Answers[questionNumber]
    BY <1>1, CorrectAssumption
<1> QED
    BY <1>1, <1>2, AnswersApart

(* A tap scores at most one for the question it leaves behind.             *)
LEMMA AnswerKeepsQuizInv ==
    ASSUME NEW answer \in Answers[shown]
    PROVE  QuizInv /\ AnswerButtonPressed(answer) => QuizInv'
<1> SUFFICES ASSUME QuizInv, AnswerButtonPressed(answer) PROVE QuizInv'
    OBVIOUS
<1>1. /\ QuizCount \in Nat \ {0} /\ MaxPending \in Nat
      /\ questionNumber \in 0..(QuizCount - 1)
      /\ score \in Nat /\ score <= questionNumber
    BY CountAssumption DEF QuizInv, ScreenSound, QuizTypeOK, ScoreOfThisRound, Question
<1>2. CheckAnswer(answer) \in Nat /\ CheckAnswer(answer) <= questionNumber + 1
    BY <1>1 DEF CheckAnswer
<1>3. /\ questionNumber' \in Question
      /\ score' \in Nat
      /\ score' <= questionNumber'
    BY <1>1, <1>2 DEF AnswerButtonPressed, NextQuestion, Question
<1>4. green' \subseteq UNION {Answers[q] : q \in Question}
    BY DEF QuizInv, ScreenSound, QuizTypeOK, AnswerButtonPressed
<1>5. pending' \in 0..MaxPending /\ pending' # 0
    BY <1>1 DEF QuizInv, ScreenSound, QuizTypeOK, AnswerButtonPressed
<1>6. shown' = shown /\ scoreShown' = scoreShown
    BY DEF AnswerButtonPressed
<1>7. green' \subseteq {Correct[shown]}
    BY OnlyIfShown DEF QuizInv, ScreenSound, GreenIsCorrect, AnswerButtonPressed
<1> QED
    BY <1>3, <1>4, <1>5, <1>6, <1>7
       DEF QuizInv, ScreenSound, QuizTypeOK, GreenIsCorrect, SettledShowsQuestion, ScoreOfThisRound

(* The screen copies what is in order.                                     *)
LEMMA UpdateKeepsQuizInv == QuizInv /\ UpdateUI => QuizInv'
    BY CountAssumption
       DEF QuizInv, ScreenSound, QuizTypeOK, GreenIsCorrect, SettledShowsQuestion, ScoreOfThisRound,
           UpdateUI, quizBrain, Question

(* Every step keeps the invariant.                                         *)
LEMMA NextKeepsQuizInv == QuizInv /\ [QuizNext]_quizVars => QuizInv'
<1> SUFFICES ASSUME QuizInv, [QuizNext]_quizVars PROVE QuizInv'
    OBVIOUS
<1>1. CASE UNCHANGED quizVars
    BY <1>1 DEF quizVars, quizBrain, quizScreen, QuizInv, ScreenSound, QuizTypeOK, GreenIsCorrect,
                SettledShowsQuestion, ScoreOfThisRound
<1>2. CASE QuizNext
    BY <1>2, AnswerKeepsQuizInv, UpdateKeepsQuizInv DEF QuizNext
<1> QED
    BY <1>1, <1>2

(* The invariant holds of every state of every behaviour.                  *)
THEOREM QuizInvariance == QuizSpec => []QuizInv
    BY InitQuizInv, NextKeepsQuizInv, PTL DEF QuizSpec

(* The score never counts more than this round has asked, and what the     *)
(* screen shows of it never reaches the number of questions: nextQuestion  *)
(* resets it together with the last answer.                                *)
THEOREM ScoreIsOfThisRound == QuizSpec => []ScoreOfThisRound
<1>1. QuizInv => ScoreOfThisRound
    BY DEF QuizInv
<1> QED
    BY <1>1, QuizInvariance, PTL

(* A green button is the correct answer to the question above it, whatever *)
(* was tapped since the quiz went on, and the screen is up to date when no *)
(* update is due.                                                          *)
THEOREM ScreenStaysSound == QuizSpec => []ScreenSound
<1>1. QuizInv => ScreenSound
    BY DEF QuizInv
<1> QED
    BY <1>1, QuizInvariance, PTL

(* One step: an answer that is right is one of the current question's, and *)
(* the buttons carry no other question's answers.                          *)
LEMMA StepRight ==
    ASSUME QuizInv, [QuizNext]_quizVars, score' > score
    PROVE  shown = questionNumber
<1>1. /\ score \in Nat /\ score' # score
      /\ QuizTypeOK
    BY DEF QuizInv, ScreenSound, QuizTypeOK
<1>2. ~UNCHANGED quizVars /\ ~UpdateUI
    BY <1>1 DEF quizVars, quizBrain, UpdateUI
<1>3. PICK answer \in Answers[shown] : AnswerButtonPressed(answer)
    BY <1>2 DEF QuizNext
<1>4. CheckAnswer(answer) # score
    BY <1>1, <1>3 DEF AnswerButtonPressed, NextQuestion
<1>5. answer = Correct[questionNumber]
    BY <1>4 DEF CheckAnswer
<1> QED
    BY <1>1, <1>5, OnlyIfShown

(* A tap is right only for the question on the screen.                     *)
THEOREM StaleTapsAreWrong == QuizSpec => RightOnlyIfShown
<1>1. QuizInv /\ [QuizNext]_quizVars => [score' > score => shown = questionNumber]_quizVars
    BY StepRight
<1> QED
    BY <1>1, QuizInvariance, PTL DEF QuizSpec, RightOnlyIfShown

-----------------------------------------------------------------------------
(* WhatFlower, for any flowers, articles with and without a thumbnail and  *)
(* number of requests.                                                     *)

(* The thumbnail that is loading is that of the article shown, and an      *)
(* answer that waits is of its own photo.                                  *)
FlowerIInv ==
    /\ FlowerInv
    /\ loading # NoArticle => goShown /\ loading = titleLabel
    /\ \A i \in DOMAIN queue : queue[i].article \in {queue[i].photo, NoArticle}

(* Nothing is shown at first.                                              *)
LEMMA InitFlowerInv == FlowerInit => FlowerIInv
<1> SUFFICES ASSUME FlowerInit PROVE FlowerIInv
    OBVIOUS
<1>1. queue = <<>> /\ queue \in Seq([photo : Flower, article : Flower \cup {NoArticle}])
      /\ DOMAIN queue = {}
    BY EmptySeq DEF FlowerInit
<1> QED
    BY <1>1 DEF FlowerInit, NoPicture, FlowerIInv, FlowerInv, FlowerTypeOK, GoOpensTitled,
                PictureIsOfTitle

(* An answer is put behind those that wait.                                *)
LEMMA RespondKeepsFlowerInv ==
    ASSUME FlowerIInv, NEW r \in Request, NEW article \in Flower \cup {NoArticle},
           Respond(r, article)
    PROVE  FlowerIInv'
<1> DEFINE Answer == [photo : Flower, article : Flower \cup {NoArticle}]
           answer == [photo |-> inFlight[r], article |-> article]
<1>1. /\ FlowerTypeOK /\ inFlight[r] # NoArticle /\ article \in {inFlight[r], NoArticle}
      /\ queue' = Append(queue, answer)
      /\ inFlight' = [inFlight EXCEPT ![r] = NoArticle]
      /\ UNCHANGED <<picker, titleLabel, openURL, picture, loading, goShown>>
    BY DEF FlowerIInv, FlowerInv, Respond, flowerScreen
<1>2. /\ answer \in Answer /\ queue \in Seq(Answer)
      /\ answer.article \in {answer.photo, NoArticle}
    BY <1>1 DEF FlowerTypeOK
<1> HIDE DEF answer, Answer
<1>3. /\ queue' \in Seq(Answer) /\ Len(queue') = Len(queue) + 1 /\ Len(queue) \in Nat
      /\ queue'[Len(queue) + 1] = answer
      /\ \A i \in 1..Len(queue) : queue'[i] = queue[i]
    BY <1>1, <1>2, AppendProperties, LenProperties
<1>4. DOMAIN queue = 1..Len(queue) /\ DOMAIN queue' = 1..Len(queue')
    BY <1>2, <1>3, LenProperties
<1>5. ASSUME NEW i \in DOMAIN queue'
      PROVE  queue'[i].article \in {queue'[i].photo, NoArticle}
  <2>1. CASE i = Len(queue) + 1
      BY <1>2, <1>3, <2>1
  <2>2. CASE i # Len(queue) + 1
    <3>1. i \in DOMAIN queue /\ queue'[i] = queue[i]
        BY <1>3, <1>4, <2>2
    <3> QED
        BY <3>1 DEF FlowerIInv
  <2> QED
      BY <2>1, <2>2
<1>6. FlowerTypeOK'
    BY <1>1, <1>3 DEF FlowerTypeOK, Answer
<1> QED
    BY <1>1, <1>5, <1>6 DEF FlowerIInv, FlowerInv, GoOpensTitled, PictureIsOfTitle

(* The block sets all of the screen for the answer in front.               *)
LEMMA ShowKeepsFlowerInv ==
    ASSUME FlowerIInv, ShowAnswer
    PROVE  FlowerIInv'
<1> DEFINE Answer == [photo : Flower, article : Flower \cup {NoArticle}]
           answer == Head(queue)
<1>1. /\ FlowerTypeOK /\ queue # <<>> /\ queue \in Seq(Answer)
      /\ titleLabel' = answer.article /\ openURL' = answer.article
      /\ picture' = PhotoOf(answer.photo)
      /\ loading' = IF answer.article \in Pictured THEN answer.article ELSE NoArticle
      /\ goShown' = TRUE /\ queue' = Tail(queue)
      /\ UNCHANGED <<picker, inFlight>>
    BY DEF FlowerIInv, FlowerInv, ShowAnswer, FlowerTypeOK
<1> HIDE DEF Answer
<1>2. /\ answer \in Answer /\ answer = queue[1]
      /\ queue' \in Seq(Answer) /\ Len(queue') = Len(queue) - 1
      /\ \A i \in 1..Len(queue') : queue'[i] = queue[i + 1]
      /\ Len(queue) \in Nat \ {0}
    BY <1>1, HeadTailProperties, EmptySeq
<1>3. DOMAIN queue = 1..Len(queue) /\ DOMAIN queue' = 1..Len(queue')
    BY <1>1, <1>2, LenProperties
<1>4. answer.article \in {answer.photo, NoArticle}
    BY <1>2, <1>3 DEF FlowerIInv
<1>5. answer.article \in Flower \cup {NoArticle} /\ answer.photo \in Flower
    BY <1>2 DEF Answer
<1> HIDE DEF answer
<1>6. ASSUME NEW i \in DOMAIN queue'
      PROVE  queue'[i].article \in {queue'[i].photo, NoArticle}
  <2>1. i + 1 \in DOMAIN queue /\ queue'[i] = queue[i + 1]
      BY <1>2, <1>3
  <2> QED
      BY <2>1 DEF FlowerIInv
<1>7. FlowerTypeOK'
    BY <1>1, <1>2, <1>5 DEF FlowerTypeOK, PhotoOf, Answer
<1>8. GoOpensTitled' /\ PictureIsOfTitle'
    BY <1>1, <1>4 DEF GoOpensTitled, PictureIsOfTitle, PhotoOf
<1>9. loading' # NoArticle => goShown' /\ loading' = titleLabel'
    BY <1>1
<1> QED
    BY <1>6, <1>7, <1>8, <1>9 DEF FlowerIInv, FlowerInv

(* The other steps: the camera, and the thumbnail of the article shown.    *)
LEMMA NextKeepsFlowerInv ==
    ASSUME FlowerIInv, [FlowerNext]_flowerVars
    PROVE  FlowerIInv'
<1>1. CASE \E r \in Request, article \in Flower \cup {NoArticle} : Respond(r, article)
    BY <1>1, RespondKeepsFlowerInv
<1>2. CASE ShowAnswer
    BY <1>2, ShowKeepsFlowerInv
<1>3. CASE ImageLoaded
  <2>1. /\ loading = titleLabel /\ loading # NoArticle
        /\ picture' = ThumbnailOf(loading) /\ loading' = NoArticle
        /\ UNCHANGED <<picker, inFlight, queue, titleLabel, openURL, goShown>>
      BY <1>3 DEF FlowerIInv, ImageLoaded
  <2> QED
      BY <2>1 DEF FlowerIInv, FlowerInv, FlowerTypeOK, GoOpensTitled, PictureIsOfTitle, ThumbnailOf
<1>4. ASSUME UNCHANGED <<queue, titleLabel, openURL, picture, goShown>>,
             loading' \in {loading, NoArticle}, picker' \in BOOLEAN,
             inFlight' \in [Request -> Flower \cup {NoArticle}]
      PROVE  FlowerIInv'
    BY <1>4 DEF FlowerIInv, FlowerInv, FlowerTypeOK, GoOpensTitled, PictureIsOfTitle
<1>5. CASE TakePhoto \/ PickNothing \/ ImageFails \/ UNCHANGED flowerVars
    BY <1>4, <1>5 DEF FlowerIInv, FlowerInv, FlowerTypeOK, TakePhoto, PickNothing, ImageFails,
                      flowerVars, flowerScreen
<1>6. CASE \E flower \in Flower, r \in Request : PickPhoto(flower, r)
    BY <1>4, <1>6 DEF FlowerIInv, FlowerInv, FlowerTypeOK, PickPhoto, flowerScreen
<1> QED
    BY <1>1, <1>2, <1>3, <1>5, <1>6 DEF FlowerNext

(* Whatever order the answers and the thumbnails come in, title, button    *)
(* and picture are of one flower: the block sets all of them, and          *)
(* sd_setImage drops what was loading (WhatFlower's ViewController.swift). *)
THEOREM OneFlowerOnScreen == FlowerSpec => []FlowerInv
<1>1. FlowerInit => FlowerIInv
    BY InitFlowerInv
<1>2. FlowerIInv /\ [FlowerNext]_flowerVars => FlowerIInv'
    BY NextKeepsFlowerInv
<1>3. FlowerIInv => FlowerInv
    BY DEF FlowerIInv
<1> QED
    BY <1>1, <1>2, <1>3, PTL DEF FlowerSpec

-----------------------------------------------------------------------------
(* Clima, for any cities and any number of requests.                       *)

(* What is under way was asked for since the screen last was at rest.      *)
ClimaIInv ==
    /\ ClimaInv
    /\ main \in Seq(Nat)
    /\ \A r \in flying : asked[r] \in burst
    /\ \A i \in DOMAIN main : asked[main[i]] \in burst
    /\ locating => Here \in burst

(* A location is all that is under way at first.                           *)
LEMMA InitClimaInv == ClimaInit => ClimaIInv
<1> SUFFICES ASSUME ClimaInit PROVE ClimaIInv
    OBVIOUS
<1>1. /\ asked = <<>> /\ flying = {} /\ main = <<>> /\ label = 0 /\ burst = {Here}
      /\ missed = FALSE /\ text = "" /\ editing = FALSE /\ locating = TRUE
    BY DEF ClimaInit, NothingSent
<1>2. <<>> \in Seq(What) /\ <<>> \in Seq(Nat) /\ Len(<<>>) = 0 /\ DOMAIN <<>> = {}
    BY EmptySeq
<1>3. AnswersTypeOK
  <2>1. asked \in Seq(What) /\ Len(asked) <= MaxAsked
    <3>1. MaxAsked \in Nat
        BY AskedAssumption
    <3>2. asked \in Seq(What)
        BY <1>1, EmptySeq
    <3>3. Len(asked) = 0
        BY <1>1, <1>2
    <3> QED
        BY <3>1, <3>2, <3>3
  <2>2. ToSet(main) \subseteq DOMAIN asked \ flying
      BY <1>1, <1>2 DEF ToSet
  <2>3. IsInjective(main)
      BY <1>1, <1>2 DEF IsInjective
  <2>4. burst \subseteq What /\ missed \in BOOLEAN
      BY <1>1, WhatAssumption
  <2> QED
      BY <1>1, <2>1, <2>2, <2>3, <2>4 DEF AnswersTypeOK
<1> QED
    BY <1>1, <1>2, <1>3 DEF ClimaIInv, ClimaInv, ClimaTypeOK, SettledShowsAsked, Pending

(* What ClimaIInv says of the answers, in terms of their places.            *)
LEMMA AnswersInPlace ==
    ASSUME ClimaIInv
    PROVE  /\ asked \in Seq(What) /\ Len(asked) \in Nat /\ DOMAIN asked = 1..Len(asked)
           /\ flying \subseteq 1..Len(asked)
           /\ main \in Seq(Nat) /\ Len(main) \in Nat /\ DOMAIN main = 1..Len(main)
           /\ \A i \in 1..Len(main) : main[i] \in 1..Len(asked) /\ main[i] \notin flying
           /\ \A i, j \in 1..Len(main) : main[i] = main[j] => i = j
<1>1. asked \in Seq(What) /\ main \in Seq(Nat)
    BY DEF ClimaIInv, ClimaInv, ClimaTypeOK, AnswersTypeOK
<1>2. /\ Len(asked) \in Nat /\ DOMAIN asked = 1..Len(asked)
      /\ Len(main) \in Nat /\ DOMAIN main = 1..Len(main)
    BY <1>1, LenProperties
<1> QED
    BY <1>1, <1>2 DEF ClimaIInv, ClimaInv, ClimaTypeOK, AnswersTypeOK, ToSet, IsInjective

(* A request is sent for what the user asks for, or asked for before.      *)
LEMMA RequestSent ==
    ASSUME ClimaIInv, NEW w \in What, Len(asked) < MaxAsked,
           PerformRequest(w), burst' \subseteq What, missed' \in BOOLEAN, w \in burst',
           burst \subseteq burst' \/ ~Underway
    PROVE  /\ AnswersTypeOK' /\ Underway'
           /\ main' \in Seq(Nat)
           /\ \A r \in flying' : asked'[r] \in burst'
           /\ \A i \in DOMAIN main' : asked'[main'[i]] \in burst'
<1> DEFINE last == Len(asked) + 1
<1>1. /\ asked' = Append(asked, w) /\ flying' = flying \union {last}
      /\ main' = main /\ label' = label
    BY DEF PerformRequest
<1>2. /\ asked \in Seq(What) /\ Len(asked) \in Nat /\ DOMAIN asked = 1..Len(asked)
      /\ flying \subseteq 1..Len(asked)
      /\ main \in Seq(Nat) /\ Len(main) \in Nat /\ DOMAIN main = 1..Len(main)
      /\ \A i \in 1..Len(main) : main[i] \in 1..Len(asked) /\ main[i] \notin flying
      /\ \A i, j \in 1..Len(main) : main[i] = main[j] => i = j
    BY AnswersInPlace
<1>3. /\ asked' \in Seq(What) /\ Len(asked') = last /\ asked'[last] = w
      /\ \A i \in 1..Len(asked) : asked'[i] = asked[i]
      /\ DOMAIN asked' = 1..last
    BY <1>1, <1>2, AppendProperties, LenProperties
<1>4. Len(asked') <= MaxAsked
  <2>1. MaxAsked \in Nat
      BY AskedAssumption
  <2>2. Len(asked) < MaxAsked
      OBVIOUS
  <2> QED
      BY <1>2, <1>3, <2>1, <2>2
<1>5. label \in {0} \union DOMAIN asked
    BY DEF ClimaIInv, ClimaInv, ClimaTypeOK, AnswersTypeOK
<1>6. AnswersTypeOK'
  <2>1. ToSet(main') \subseteq DOMAIN asked' \ flying' /\ IsInjective(main')
      BY <1>1, <1>2, <1>3 DEF ToSet, IsInjective
  <2>2. flying' \subseteq DOMAIN asked'
    <3>1. flying \subseteq 1..last /\ last \in 1..last
        BY <1>2
    <3>2. flying' \subseteq 1..last
        BY <1>1, <3>1
    <3> QED
        BY <1>3, <3>2
  <2>3. label' \in {0} \union DOMAIN asked'
    <3>1. DOMAIN asked \subseteq DOMAIN asked'
        BY <1>2, <1>3
    <3> QED
        BY <1>1, <1>5, <3>1
  <2> QED
      BY <1>3, <1>4, <2>1, <2>2, <2>3 DEF AnswersTypeOK
<1>7. Underway'
    BY <1>1 DEF Underway
<1>8. ASSUME burst \subseteq burst'
      PROVE  /\ \A r \in flying' : asked'[r] \in burst'
             /\ \A i \in DOMAIN main' : asked'[main'[i]] \in burst'
    BY <1>1, <1>2, <1>3, <1>8 DEF ClimaIInv
<1>9. ASSUME ~Underway
      PROVE  /\ \A r \in flying' : asked'[r] \in burst'
             /\ \A i \in DOMAIN main' : asked'[main'[i]] \in burst'
  <2>1. flying' = {last} /\ main' = <<>> /\ Len(main') = 0
      BY <1>1, <1>2, <1>9, EmptySeq DEF Underway
  <2> QED
      BY <1>1, <1>2, <1>3, <2>1
<1> QED
    BY <1>1, <1>2, <1>6, <1>7, <1>8, <1>9

(* The search button.                                                      *)
LEMMA EndEditingKeepsClimaInv ==
    ASSUME ClimaIInv, EndEditing
    PROVE  ClimaIInv'
<1>1. /\ editing' = FALSE /\ text' = "" /\ locating' = locating /\ Len(asked) < MaxAsked
      /\ burst' = IF Pending THEN burst \union {text} ELSE {text}
      /\ missed' = (text \in NoURL \/ (Pending /\ missed))
    BY DEF EndEditing, Intend
<1>2. /\ text \in What /\ burst \subseteq What /\ missed \in BOOLEAN /\ locating \in BOOLEAN
      /\ text \in City \union {""}
    BY WhatAssumption DEF ClimaIInv, ClimaInv, ClimaTypeOK, AnswersTypeOK
<1>3. /\ burst' \subseteq What /\ missed' \in BOOLEAN /\ text \in burst'
      /\ locating' => Here \in burst'
      /\ burst \subseteq burst' \/ ~Underway
    BY <1>1, <1>2 DEF Pending, ClimaIInv
<1>4. CASE text \in NoURL
  <2>1. UNCHANGED <<asked, flying, main, label>> /\ missed'
      BY <1>1, <1>4 DEF EndEditing, FetchWeather, answers
  <2>2. AnswersTypeOK'
      BY <1>3, <2>1 DEF ClimaIInv, ClimaInv, ClimaTypeOK, AnswersTypeOK, ToSet, IsInjective
  <2>3. ASSUME ~Underway
        PROVE  flying = {} /\ DOMAIN main = {}
      BY <2>3, EmptySeq DEF Underway
  <2>4. /\ \A r \in flying' : asked'[r] \in burst'
        /\ \A i \in DOMAIN main' : asked'[main'[i]] \in burst'
      BY <1>3, <2>1, <2>3 DEF ClimaIInv
  <2> QED
      BY <1>1, <1>2, <1>3, <2>1, <2>2, <2>4
         DEF ClimaIInv, ClimaInv, ClimaTypeOK, SettledShowsAsked
<1>5. CASE text \notin NoURL
  <2>1. PerformRequest(text)
      BY <1>5 DEF EndEditing, FetchWeather
  <2>2. /\ AnswersTypeOK' /\ Underway'
        /\ main' \in Seq(Nat)
        /\ \A r \in flying' : asked'[r] \in burst'
        /\ \A i \in DOMAIN main' : asked'[main'[i]] \in burst'
      BY <1>1, <1>2, <1>3, <2>1, RequestSent
  <2> QED
      BY <1>1, <1>2, <1>3, <2>2 DEF ClimaIInv, ClimaInv, ClimaTypeOK, SettledShowsAsked, Pending
<1> QED
    BY <1>4, <1>5

(* The location comes, which was asked for since.                          *)
LEMMA LocationKeepsClimaInv ==
    ASSUME ClimaIInv, DidUpdateLocations
    PROVE  ClimaIInv'
<1>1. /\ locating /\ Len(asked) < MaxAsked /\ locating' = FALSE
      /\ PerformRequest(Here) /\ UNCHANGED <<burst, missed, text, editing>>
    BY DEF DidUpdateLocations
<1>2. /\ Here \in What /\ Here \in burst /\ burst' \subseteq What /\ missed' \in BOOLEAN
      /\ text \in City \union {""} /\ editing \in BOOLEAN
    BY <1>1, WhatAssumption DEF ClimaIInv, ClimaInv, ClimaTypeOK, AnswersTypeOK
<1>3. /\ AnswersTypeOK' /\ Underway'
      /\ main' \in Seq(Nat)
      /\ \A r \in flying' : asked'[r] \in burst'
      /\ \A i \in DOMAIN main' : asked'[main'[i]] \in burst'
    BY <1>1, <1>2, RequestSent
<1> QED
    BY <1>1, <1>2, <1>3 DEF ClimaIInv, ClimaInv, ClimaTypeOK, SettledShowsAsked, Pending

(* An answer waits in the main queue for its block.                        *)
LEMMA SucceedsKeepsClimaInv ==
    ASSUME ClimaIInv, NEW r \in flying, Succeeds(r), UNCHANGED <<text, editing, locating>>
    PROVE  ClimaIInv'
<1>1. /\ flying' = flying \ {r} /\ main' = Append(main, r)
      /\ UNCHANGED <<asked, label, burst, missed, text, editing, locating>>
    BY DEF Succeeds
<1>2. /\ asked \in Seq(What) /\ Len(asked) \in Nat /\ DOMAIN asked = 1..Len(asked)
      /\ flying \subseteq 1..Len(asked)
      /\ main \in Seq(Nat) /\ Len(main) \in Nat /\ DOMAIN main = 1..Len(main)
      /\ \A i \in 1..Len(main) : main[i] \in 1..Len(asked) /\ main[i] \notin flying
      /\ \A i, j \in 1..Len(main) : main[i] = main[j] => i = j
    BY AnswersInPlace
<1>3. r \in Nat /\ r \in 1..Len(asked)
    BY <1>2
<1>4. /\ main' \in Seq(Nat) /\ Len(main') = Len(main) + 1 /\ main'[Len(main) + 1] = r
      /\ \A i \in 1..Len(main) : main'[i] = main[i]
      /\ DOMAIN main' = 1..(Len(main) + 1)
    BY <1>1, <1>2, <1>3, AppendProperties, LenProperties
<1>5. ASSUME NEW i \in 1..(Len(main) + 1)
      PROVE  \/ i = Len(main) + 1 /\ main'[i] = r
             \/ i \in 1..Len(main) /\ main'[i] = main[i]
    BY <1>2, <1>4
<1>6. AnswersTypeOK'
  <2>1. ASSUME NEW i \in 1..(Len(main) + 1), NEW j \in 1..(Len(main) + 1), main'[i] = main'[j]
        PROVE  i = j
      BY <1>2, <1>5, <2>1
  <2>2. IsInjective(main')
      BY <1>4, <2>1 DEF IsInjective
  <2>3. ToSet(main') \subseteq DOMAIN asked' \ flying'
      BY <1>1, <1>2, <1>3, <1>4, <1>5 DEF ToSet
  <2> QED
      BY <1>1, <2>2, <2>3 DEF ClimaIInv, ClimaInv, ClimaTypeOK, AnswersTypeOK
<1>7. ASSUME NEW i \in DOMAIN main'
      PROVE  asked'[main'[i]] \in burst'
    BY <1>1, <1>2, <1>4, <1>5 DEF ClimaIInv
<1>8. Underway'
    BY <1>2, <1>4, EmptySeq DEF Underway
<1>9. ClimaInv'
    BY <1>1, <1>6, <1>8 DEF ClimaIInv, ClimaInv, ClimaTypeOK, SettledShowsAsked, Pending
<1>10. \A q \in flying' : asked'[q] \in burst'
    BY <1>1 DEF ClimaIInv
<1>11. locating' => Here \in burst'
    BY <1>1 DEF ClimaIInv
<1> QED
    BY <1>4, <1>7, <1>9, <1>10, <1>11 DEF ClimaIInv

(* One that fails is missed.                                               *)
LEMMA FailKeepsClimaInv ==
    ASSUME ClimaIInv, NEW r \in flying, DidFailWithError(r), UNCHANGED <<text, editing, locating>>
    PROVE  ClimaIInv'
<1>1. /\ flying' = flying \ {r} /\ missed'
      /\ UNCHANGED <<asked, main, label, burst, text, editing, locating>>
    BY DEF DidFailWithError
<1>2. missed' \in BOOLEAN
    BY DEF DidFailWithError
<1>3. AnswersTypeOK'
    BY <1>1, <1>2 DEF ClimaIInv, ClimaInv, ClimaTypeOK, AnswersTypeOK, ToSet, IsInjective
<1>4. ClimaInv'
    BY <1>1, <1>3 DEF ClimaIInv, ClimaInv, ClimaTypeOK, SettledShowsAsked
<1>5. \A q \in flying' : asked'[q] \in burst'
    BY <1>1 DEF ClimaIInv
<1>6. \A i \in DOMAIN main' : asked'[main'[i]] \in burst'
    BY <1>1 DEF ClimaIInv
<1>7. main' \in Seq(Nat) /\ (locating' => Here \in burst')
    BY <1>1 DEF ClimaIInv
<1> QED
    BY <1>4, <1>5, <1>6, <1>7 DEF ClimaIInv

(* The answer in front is shown; it was asked for since.                   *)
LEMMA ShowKeepsClimaInv ==
    ASSUME ClimaIInv, DidUpdate, UNCHANGED <<text, editing, locating>>
    PROVE  ClimaIInv'
<1>1. /\ main # <<>> /\ label' = Head(main) /\ main' = Tail(main)
      /\ UNCHANGED <<asked, flying, burst, missed, text, editing, locating>>
    BY DEF DidUpdate
<1>2. /\ asked \in Seq(What) /\ Len(asked) \in Nat /\ DOMAIN asked = 1..Len(asked)
      /\ flying \subseteq 1..Len(asked)
      /\ main \in Seq(Nat) /\ Len(main) \in Nat /\ DOMAIN main = 1..Len(main)
      /\ \A i \in 1..Len(main) : main[i] \in 1..Len(asked) /\ main[i] \notin flying
      /\ \A i, j \in 1..Len(main) : main[i] = main[j] => i = j
    BY AnswersInPlace
<1>3. /\ main' \in Seq(Nat) /\ Len(main') = Len(main) - 1 /\ Head(main) = main[1]
      /\ \A i \in 1..Len(main') : main'[i] = main[i + 1]
      /\ Len(main) >= 1
    BY <1>1, <1>2, HeadTailProperties, EmptySeq
<1>4. DOMAIN main' = 1..Len(main')
    BY <1>3, LenProperties
<1>5. ASSUME NEW i \in DOMAIN main'
      PROVE  i \in Nat /\ i + 1 \in 1..Len(main) /\ main'[i] = main[i + 1]
    BY <1>2, <1>3, <1>4
<1>6. /\ label' \in 1..Len(asked) /\ label' # 0 /\ asked[label'] \in burst
    BY <1>1, <1>2, <1>3 DEF ClimaIInv
<1>7. AnswersTypeOK'
  <2>1. ASSUME NEW i \in DOMAIN main', NEW j \in DOMAIN main', main'[i] = main'[j]
        PROVE  i = j
    <3>1. i \in Nat /\ j \in Nat /\ i + 1 = j + 1
        BY <1>2, <1>5, <2>1
    <3> QED
        BY <3>1
  <2>2. IsInjective(main')
      BY <2>1 DEF IsInjective
  <2>3. ToSet(main') \subseteq DOMAIN asked' \ flying'
      BY <1>1, <1>2, <1>5 DEF ToSet
  <2> QED
      BY <1>1, <1>2, <1>6, <2>2, <2>3 DEF ClimaIInv, ClimaInv, ClimaTypeOK, AnswersTypeOK
<1>8. \A i \in DOMAIN main' : asked'[main'[i]] \in burst'
    BY <1>1, <1>2, <1>5 DEF ClimaIInv
<1>9. SettledShowsAsked'
    BY <1>1, <1>6 DEF SettledShowsAsked
<1>10. ClimaInv'
    BY <1>1, <1>7, <1>9 DEF ClimaIInv, ClimaInv, ClimaTypeOK
<1>11. \A q \in flying' : asked'[q] \in burst'
    BY <1>1 DEF ClimaIInv
<1>12. locating' => Here \in burst'
    BY <1>1 DEF ClimaIInv
<1> QED
    BY <1>3, <1>8, <1>10, <1>11, <1>12 DEF ClimaIInv

(* The other steps leave the answers alone.                                *)
LEMMA NextKeepsClimaInv ==
    ASSUME ClimaIInv, [ClimaNext]_climaVars
    PROVE  ClimaIInv'
<1>1. CASE EndEditing
    BY <1>1, EndEditingKeepsClimaInv
<1>2. CASE DidUpdateLocations
    BY <1>2, LocationKeepsClimaInv
<1>3. CASE AnswerComes
  <2>1. UNCHANGED <<text, editing, locating>>
      BY <1>3 DEF AnswerComes
  <2>2. CASE \E r \in flying : asked[r] # "" /\ Succeeds(r)
      BY <2>1, <2>2, SucceedsKeepsClimaInv
  <2>3. CASE \E r \in flying : DidFailWithError(r)
      BY <2>1, <2>3, FailKeepsClimaInv
  <2>4. CASE DidUpdate
      BY <2>1, <2>4, ShowKeepsClimaInv
  <2> QED
      BY <1>3, <2>2, <2>3, <2>4 DEF AnswerComes
<1>4. ASSUME UNCHANGED <<asked, flying, main, label>>,
             burst' \subseteq What, missed' \in BOOLEAN, locating' \in BOOLEAN,
             text' \in City \union {""}, editing' \in BOOLEAN,
             locating' => Here \in burst',
             burst \subseteq burst' \/ ~Underway,
             SettledShowsAsked'
      PROVE  ClimaIInv'
  <2>1. AnswersTypeOK'
      BY <1>4 DEF ClimaIInv, ClimaInv, ClimaTypeOK, AnswersTypeOK, ToSet, IsInjective
  <2>2. ASSUME ~Underway
        PROVE  flying = {} /\ DOMAIN main = {}
      BY <2>2, EmptySeq DEF Underway
  <2>3. /\ \A r \in flying' : asked'[r] \in burst'
        /\ \A i \in DOMAIN main' : asked'[main'[i]] \in burst'
      BY <1>4, <2>2 DEF ClimaIInv
  <2> QED
      BY <1>4, <2>1, <2>3 DEF ClimaIInv, ClimaInv, ClimaTypeOK
<1>5. /\ burst \subseteq What /\ missed \in BOOLEAN /\ locating \in BOOLEAN
      /\ text \in City \union {""} /\ editing \in BOOLEAN /\ SettledShowsAsked
      /\ locating => Here \in burst
    BY DEF ClimaIInv, ClimaInv, ClimaTypeOK, AnswersTypeOK
<1>6. CASE LocationPressed
  <2>1. /\ UNCHANGED <<asked, flying, main, label, text, editing>> /\ locating' = TRUE
        /\ burst' = IF Pending THEN burst \union {Here} ELSE {Here}
        /\ missed' = (FALSE \/ (Pending /\ missed))
      BY <1>6 DEF LocationPressed, Intend
  <2>2. SettledShowsAsked'
      BY <2>1 DEF SettledShowsAsked, Pending
  <2>3. /\ burst' \subseteq What /\ missed' \in BOOLEAN /\ Here \in burst'
        /\ burst \subseteq burst' \/ ~Underway
      BY <1>5, <2>1, WhatAssumption DEF Pending
  <2> QED
      BY <1>4, <1>5, <2>1, <2>2, <2>3
<1>7. CASE LocationFails
  <2>1. /\ UNCHANGED <<asked, flying, main, label, burst, text, editing>>
        /\ locating' = FALSE /\ missed' = TRUE
      BY <1>7 DEF LocationFails
  <2>2. SettledShowsAsked'
      BY <2>1 DEF SettledShowsAsked
  <2> QED
      BY <1>4, <1>5, <2>1, <2>2
<1>8. ASSUME UNCHANGED <<asked, flying, main, label, burst, missed, locating>>,
             text' \in City \union {""}, editing' \in BOOLEAN
      PROVE  ClimaIInv'
  <2>1. SettledShowsAsked'
      BY <1>5, <1>8 DEF SettledShowsAsked, Pending, Underway
  <2> QED
      BY <1>4, <1>5, <1>8, <2>1
<1>9. CASE BeginEditing \/ (\E t \in City \union {""} : Type(t)) \/ UNCHANGED climaVars
    BY <1>5, <1>8, <1>9 DEF BeginEditing, Type, climaVars
<1> QED
    BY <1>1, <1>2, <1>3, <1>6, <1>7, <1>9 DEF ClimaNext

(* However searches, the location button and their answers interleave      *)
(* (WeatherManager.swift compares nothing): when nothing is under way and  *)
(* nothing went wrong, the weather shown is one the user asked for since   *)
(* the screen last was at rest.                                            *)
THEOREM WeatherIsAsked == ClimaSpec => []ClimaInv
<1>1. ClimaInit => ClimaIInv
    BY InitClimaInv
<1>2. ClimaIInv /\ [ClimaNext]_climaVars => ClimaIInv'
    BY NextKeepsClimaInv
<1>3. ClimaIInv => ClimaInv
    BY DEF ClimaIInv
<1> QED
    BY <1>1, <1>2, <1>3, PTL DEF ClimaSpec
=============================================================================
