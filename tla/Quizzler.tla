------------------------------ MODULE Quizzler -------------------------------
(***************************************************************************)
(* UIKit/Quizzler: ten questions, three buttons, a score.                  *)
(*                                                                         *)
(* A tap on a button takes its title to QuizBrain, which compares it with  *)
(* the question it is at and goes on to the next; the screen follows 0.2   *)
(* seconds later.  Until then the buttons still carry the answers of a     *)
(* question that is no longer asked, and can be tapped.  (The alert that   *)
(* asks for a name is left out: it covers the buttons before the first     *)
(* question and changes a label only.)                                     *)
(***************************************************************************)
EXTENDS Integers

CONSTANTS
    QuizCount,      \* quiz.count
    Answers,        \* Answers[q]: the titles of the three buttons
    Correct,        \* Correct[q]: the correct one
    MaxPending      \* a bound on taps within 0.2 seconds

Question == 0..(QuizCount - 1)

ASSUME CountAssumption == QuizCount \in Nat \ {0} /\ MaxPending \in Nat \ {0}
ASSUME CorrectAssumption == \A q \in Question : Correct[q] \in Answers[q]

(* So it is with the ten questions of the quiz: no answer is given to      *)
(* choose from twice.                                                      *)
ASSUME AnswersApart ==
    \A p, q \in Question : p # q => Answers[p] \cap Answers[q] = {}

VARIABLES
    questionNumber, \* QuizBrain.questionNumber
    score,          \* QuizBrain.score
    shown,          \* the question whose title and answers are on screen
    scoreShown,     \* scoreLabel
    green,          \* the buttons with a green background, by their titles
    pending         \* the timers that will call updateUI

quizBrain == <<questionNumber, score>>
quizScreen == <<shown, scoreShown, green>>
quizVars == <<quizBrain, quizScreen, pending>>

QuizInit ==
    /\ questionNumber = 0
    /\ score = 0
    /\ shown = 0
    /\ scoreShown = 0
    /\ green = {}
    /\ pending = 0

-----------------------------------------------------------------------------
(* Fault: the answer is compared with the question on the screen.          *)
Fault_CheckShown(answer) == IF answer = Correct[shown] THEN score + 1 ELSE score

(* The score checkAnswer makes of it.                                      *)
CheckAnswer(answer) ==
    IF answer = Correct[questionNumber] THEN score + 1 ELSE score

(* Fault: the score goes on when the quiz starts again.                    *)
Fault_KeepScore(newScore) ==
    /\ questionNumber' = (questionNumber + 1) % QuizCount
    /\ score' = newScore

NextQuestion(newScore) ==
    \/ /\ questionNumber < QuizCount - 1
       /\ questionNumber' = questionNumber + 1
       /\ score' = newScore
    \/ /\ questionNumber >= QuizCount - 1
       /\ questionNumber' = 0
       /\ score' = 0

(* Fault: the screen is updated for right answers only.                    *)
Fault_UpdateIfRight(answer) ==
    /\ pending < MaxPending
    /\ answer \in Answers[shown]
    /\ green' = IF answer = Correct[questionNumber] THEN green \cup {answer} ELSE green \ {answer}
    /\ NextQuestion(CheckAnswer(answer))
    /\ pending' = IF answer = Correct[questionNumber] THEN pending + 1 ELSE pending
    /\ UNCHANGED <<shown, scoreShown>>

(* answerButtonPressed: the button turns green or red, the quiz goes on,   *)
(* a timer will update the screen.                                         *)
AnswerButtonPressed(answer) ==
    /\ pending < MaxPending
    /\ answer \in Answers[shown]
    /\ green' = IF answer = Correct[questionNumber] THEN green \cup {answer} ELSE green \ {answer}
    /\ NextQuestion(CheckAnswer(answer))
    /\ pending' = pending + 1
    /\ UNCHANGED <<shown, scoreShown>>

(* Fault: the backgrounds are left as they are.                            *)
Fault_UpdateKeepsColours ==
    /\ pending > 0
    /\ pending' = pending - 1
    /\ shown' = questionNumber
    /\ scoreShown' = score
    /\ UNCHANGED <<quizBrain, green>>

(* updateUI, when a timer fires.                                           *)
UpdateUI ==
    /\ pending > 0
    /\ pending' = pending - 1
    /\ shown' = questionNumber
    /\ scoreShown' = score
    /\ green' = {}
    /\ UNCHANGED quizBrain

QuizNext == UpdateUI \/ \E answer \in Answers[shown] : AnswerButtonPressed(answer)

(* A timer fires when its 0.2 seconds are over; nobody has to answer.      *)
QuizFairness == WF_quizVars(UpdateUI)

QuizSpec == QuizInit /\ [][QuizNext]_quizVars /\ QuizFairness

-----------------------------------------------------------------------------
(* Every variable holds a value of its kind.                               *)
QuizTypeOK ==
    /\ questionNumber \in Question
    /\ score \in Nat
    /\ shown \in Question
    /\ scoreShown \in Nat
    /\ green \subseteq UNION {Answers[q] : q \in Question}
    /\ pending \in 0..MaxPending

(* The score is of this round: no more than the questions it has put, and  *)
(* nothing of the round before, whose last answer the screen never counts. *)
ScoreOfThisRound ==
    /\ score <= questionNumber
    /\ scoreShown < QuizCount

(* A tap is counted as right only if the question it answers is the one on *)
(* the screen: taps within the 0.2 seconds are wrong, whatever they say.   *)
RightOnlyIfShown ==
    [][score' > score => shown = questionNumber]_quizVars

(* A green button carries the correct answer to the question above it.     *)
GreenIsCorrect == green \subseteq {Correct[shown]}

(* When no timer is left, the screen shows what QuizBrain is at.           *)
SettledShowsQuestion ==
    pending = 0 => shown = questionNumber /\ scoreShown = score

(* However fast the taps come, the screen catches up with the question     *)
(* that is asked, again and again.                                         *)
ScreenCatchesUp == []<>(shown = questionNumber)

(* What the screen says is so of the question it shows, and when no update *)
(* is due, of the quiz.                                                    *)
ScreenSound == QuizTypeOK /\ GreenIsCorrect /\ SettledShowsQuestion
=============================================================================
