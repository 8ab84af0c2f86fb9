\* Two players and one course that a republish may drop and bring back.
CONSTANTS
    a1 = a1
    a2 = a2
    a3 = a3
    c1 = c1
    Account <- MCTwoAccounts
    Course <- MCCourse
    CartCourse <- MCCourse
    RoomId <- MCOneRoom
    GroupId = {}
    NoAccount = NoAccount
    NoCourse = NoCourse
    RoomCapacity = 2
    GroupCapacity = 2
    TowSeconds = 0
    MaxTows = 1
SPECIFICATION Spec
INVARIANT BagSetDownWithItsCart
