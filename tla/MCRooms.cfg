\* Five players, two courses, rooms of four and groups of three.
CONSTANTS
    a1 = a1
    a2 = a2
    a3 = a3
    a4 = a4
    a5 = a5
    c1 = c1
    c2 = c2
    Account <- MCAccount
    Course <- MCCourse
    RoomId <- MCRoomId
    GroupId <- MCGroupId
    NoAccount = NoAccount
    NoCourse = NoCourse
    RoomCapacity = 4
    GroupCapacity = 3
SYMMETRY Symmetry
SPECIFICATION RoomsSpec
INVARIANT RoomsTypeOK
INVARIANT RoomsCountMembers
INVARIANT GroupsSound
PROPERTY RoomsFillBeforeNewOnesOpen
PROPERTY ImplementsLobby
