SPECIFICATION QuizSpec
CONSTANTS
    QuizCount = 4
    Answers <- MCAnswers
    Correct <- MCCorrect
    MaxPending = 3
INVARIANTS
    ScoreOfThisRound
    ScreenSound
PROPERTIES
    RightOnlyIfShown
    ScreenCatchesUp
