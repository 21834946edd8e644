SPECIFICATION Spec
CONSTANTS
    Seconds = 7
    TurnLengths = {1, 2}
    StallThreshold = 2
    TopRung = 2
    MaxPressure = 3
    PsiActions = "on"
INVARIANTS
    EngineRunsAtRung
    TopGetsItsPolls
    EngineOffAfterEnd
    StallsAreAnswered
    StallsAreReal
