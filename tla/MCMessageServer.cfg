\* Connection servers come and go; or friend messages and statements that fail;
\* or long texts.
SPECIFICATION MCFairSpec
CONSTANTS
    u1 = u1
    u2 = u2
    c1 = c1
    c2 = c2
    Uin <- MCUsers
    Con <- MCCons
    NoCon = NoCon
    FriendType = {"accept"}
    NULL = NULL
    Length = {1, 2}
    QueryRoom = 1
    ColumnRoom = 2
    PacketRoom = 2
    Chances <- MCChances
    MaxMsg = 3
    MaxAgain = 1
INVARIANTS TypeOK WaitingIsAsked
PROPERTIES MailboxSpec WaitingEnds
\* The server may die.
CHECK_DEADLOCK FALSE
