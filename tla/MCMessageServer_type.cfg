\* Friend messages and chat messages for a user who is offline.
SPECIFICATION MCSpec
CONSTANTS
    u1 = u1
    u2 = u2
    c1 = c1
    c2 = c2
    Uin <- MCUsers
    Con <- MCCons
    NoCon = NoCon
    FriendType = {"accept"}
    NULL = NULL
    Length = {1, 2}
    QueryRoom = 1
    ColumnRoom = 2
    PacketRoom = 2
    Chances <- MCFriend
    MaxMsg = 2
    MaxAgain = 1
PROPERTIES DeletedWasSent
