----------------------------- MODULE MCQuizzler ------------------------------
(***************************************************************************)
(* Four questions of three answers, so that up to three taps in a row skip *)
(* questions and pass the end of the quiz.                                 *)
(***************************************************************************)
EXTENDS Quizzler

MCAnswers == [q \in 0..3 |-> {10 * q + k : k \in 1..3}]
MCCorrect == [q \in 0..3 |-> 10 * q + 1]
=============================================================================
