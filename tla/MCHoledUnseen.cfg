SPECIFICATION Spec
CONSTANTS
    Holes = 2
    MaxStrokes = 3
    MaxFlight = 3
PROPERTIES
    HoledShotsPlay
CHECK_DEADLOCK FALSE
