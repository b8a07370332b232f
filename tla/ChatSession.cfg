SPECIFICATION SessionSpec
CONSTANTS
    User = {ann, bob}
    Request = {r1, r2, r3}
    Nil = Nil
INVARIANTS
    ChatNeedsUser
PROPERTIES
    OutOfStepOnlyByLateAnswer
    SignedInReachesChat
