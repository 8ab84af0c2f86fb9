SPECIFICATION FairSpec
CONSTANTS
    Holes = 2
    MaxStrokes = 3
    MaxFlight = 3
INVARIANTS
    BallTypeOK
    BallIsServers
PROPERTIES
    SwingsAndHolesEnd
\* the modelled strokes are bounded, so a game may stop
CHECK_DEADLOCK FALSE
