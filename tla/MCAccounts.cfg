\* Three logins of two accounts over two connections, one rate-limited try an hour.
CONSTANTS
    a1 = a1
    a2 = a2
    i1 = i1
    i2 = i2
    i3 = i3
    k1 = k1
    k2 = k2
    n1 = n1
    l1 = l1
    c1 = c1
    Account <- MCAccount
    Identity <- MCIdentity
    Connection <- MCConnection
    Name <- MCName
    Code <- MCCode
    Config <- MCConfig
    FirstConfig <- Unconfigured
    Owner = i1
    NoIdentity = NoIdentity
    NoConnection = NoConnection
    NoName = NoName
    CodesPerHour = 1
    FailuresPerHour = 1
    Course <- MCCourse
    RoomId <- MCRoomId
    GroupId = {}
    NoAccount = NoAccount
    NoCourse = NoCourse
    RoomCapacity = 2
    GroupCapacity = 1
SPECIFICATION AccountsFairSpec
INVARIANT AccountsTypeOK
INVARIANT SessionsSound
INVARIANT AccountsHaveLogins
INVARIANT CodesSound
PROPERTY NamedAccountsStay
PROPERTY SessionsTakeTheirRooms
PROPERTY FailuresStick
PROPERTY CodesGoAway
