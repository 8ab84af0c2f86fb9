\* One step, and one turn at the ball.
CONSTANTS
    NoPlace = NoPlace
    NoMotion = NoMotion
    Gap = 1
    StartTolerance = 1
    TeeReach = 1
    Tee = 2
    MaxTurns = 2
SPECIFICATION TeedSpec
PROPERTY TeedGolferStays
