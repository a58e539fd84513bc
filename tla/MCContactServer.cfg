SPECIFICATION MCSpec
CONSTANTS
    Uin = {1, 2, 3, 4}
    Registered = {1, 2, 3}
    Size <- MCSize
    TooLong = {1}
    c1 = c1
    c2 = c2
    Con <- MCCon
    NULL = NULL
    Failing = {2}
    Asking <- MCAsking
    Asker = {1, 3}
    MaxAccepts = 3
    MaxOpen = 2
INVARIANTS TypeOK ListIsFriends EachOnce
PROPERTIES FriendshipsSpec ListsComplete
CHECK_DEADLOCK FALSE
