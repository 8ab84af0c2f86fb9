\* Up to seven steps and ticks.
CONSTANTS
    NoPlace = NoPlace
    NoMotion = NoMotion
    Gap = 1
    StartTolerance = 1
    TeeReach = 1
    Tee = 2
    MaxTurns = 7
SPECIFICATION SmoothSpec
INVARIANT NoneRefused
CHECK_DEADLOCK FALSE
