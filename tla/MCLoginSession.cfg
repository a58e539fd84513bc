SPECIFICATION FairSpec
CONSTANTS
    Uin = {1, 2}
    Nick = {a, b}
    NewNick = a
    NULL = NULL
    DbMayFail = TRUE
    Member = {2}
    MaxTraffic = 3
INVARIANTS TypeOK OwnAccount StatusIsTrue OkWasGranted NickAsTold
PROPERTIES GoneIsOffline LoginAnswered
CHECK_DEADLOCK FALSE
