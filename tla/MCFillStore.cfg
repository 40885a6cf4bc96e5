CONSTANTS
    MaxOp = 3
    Lookback = 3
    MaxRefused = 2
    MaxBroken = 1
    Keys = {k1, k2}
    Modes = {"batched", "immediate"}
    MaxFailures = 3
    MaxLives = 1
SPECIFICATION BothSpec
INVARIANTS NothingSkipped NothingForgotten CreditedOnce ExitKeepsCredits
PROPERTIES EveryFillIsGiven WrittenInTheEnd
CHECK_DEADLOCK FALSE
