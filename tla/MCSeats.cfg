\* Three players in one room: every order of boarding, driving, going over, leaving.
CONSTANTS
    a1 = a1
    a2 = a2
    a3 = a3
    c1 = c1
    Account <- MCThreeAccounts
    Course <- MCCourse
    CartCourse <- MCCourse
    RoomId <- MCOneRoom
    GroupId = {}
    NoAccount = NoAccount
    NoCourse = NoCourse
    RoomCapacity = 3
    GroupCapacity = 1
    TowSeconds = 0
    MaxTows = 1
SYMMETRY Symmetry
SPECIFICATION SeatSpec
INVARIANT CartsTypeOK
INVARIANT SeatsSound
INVARIANT RidesSound
