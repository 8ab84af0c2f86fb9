\* Two players in two rooms, bags and carts coming and going; no republish.
CONSTANTS
    a1 = a1
    a2 = a2
    a3 = a3
    c1 = c1
    Account <- MCTwoAccounts
    Course <- MCCourse
    CartCourse <- MCCourse
    RoomId <- MCTwoRooms
    GroupId = {}
    NoAccount = NoAccount
    NoCourse = NoCourse
    RoomCapacity = 2
    GroupCapacity = 2
    TowSeconds = 1
    MaxTows = 1
SPECIFICATION BagSpec
INVARIANT BagsSound
INVARIANT SunkCartHasTow
PROPERTY SunkCartTowed
