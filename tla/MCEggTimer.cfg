SPECIFICATION EggSpec
CONSTANTS
    soft = soft
    hard = hard
    Nil = Nil
    Hardness <- MCHardness
    EggTime <- MCEggTime
    TimerId = {t1, t2, t3}
    MaxSeconds = 5
INVARIANTS
    EggInv
PROPERTIES
    DoneNotEarly
    LeftAloneItRings
