\* Users who log in again only when the server has closed their last connection.
SPECIFICATION Spec
CONSTANTS
    u1 = u1
    u2 = u2
    a1 = a1
    a2 = a2
    Uin <- MCUsers
    NoUin = NoUin
    Addr <- MCAddr2
    Request <- MCRequest
    Overlap = FALSE
    MayBlock = TRUE
    MaxQueue <- MCMaxQueue
INVARIANTS TypeOK Directory OnlyOwnPackets
PROPERTIES SwitchboardSpec OfflineIsTrue QueuesAreWatched
SYMMETRY Symmetry
