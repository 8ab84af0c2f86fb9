\* Up to three steps, ticks, turns at the ball, heartbeats and faults.
CONSTANTS
    NoPlace = NoPlace
    NoMotion = NoMotion
    Gap = 1
    StartTolerance = 1
    TeeReach = 1
    Tee = 2
    MaxTurns = 3
SPECIFICATION FairSpec
INVARIANT MotionTypeOK
INVARIANT Agreement
INVARIANT WithinTime
PROPERTY ImplementsWalk
PROPERTY GetsHeard
