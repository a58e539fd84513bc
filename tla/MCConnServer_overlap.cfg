\* A user logs in again before the server has noticed that his last connection
\* is gone.  The model stops where freed memory is changed.
SPECIFICATION Spec
CONSTANTS
    u1 = u1
    u2 = u2
    a1 = a1
    a2 = a2
    Uin <- MCUsers
    NoUin = NoUin
    Addr <- MCAddr2
    Request <- MCRequest
    Overlap = TRUE
    MayBlock = TRUE
    MaxQueue <- MCMaxQueue
INVARIANTS FoundIsSafe
CHECK_DEADLOCK FALSE
