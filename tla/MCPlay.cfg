\* Two players, a course of up to two holes and a practice ground of one.
CONSTANTS
    a1 = a1
    a2 = a2
    c1 = c1
    p1 = p1
    Account <- MCAccount
    Course <- MCCourse
    PracticeCourse <- MCPractice
    RoomId <- MCRoomId
    GroupId <- MCGroupId
    NoAccount = NoAccount
    NoCourse = NoCourse
    RoomCapacity = 2
    GroupCapacity = 1
    Green <- MCGreen
    MaxHoles = 2
    Publication <- MCPublication
    MaxStrokes = 2
    MaxScores = 2
SYMMETRY Symmetry
SPECIFICATION Spec
INVARIANT PlayTypeOK
INVARIANT TeesSound
INVARIANT BallsMatchRounds
INVARIANT ScoresSound
