\* The server is killed and started again at any time.
SPECIFICATION Spec
CONSTANTS
    Uin <- MCUin
    Asked <- MCAsked
    MAX_USER = 3
    Entry = {e1, e2}
    Con = {s1, s2}
    NoCon = NoCon
    Base = {b1, b2}
    NULL = NULL
INVARIANTS
    TypeOK
    CleanPartition
    OnlineHasAddress
PROPERTY
    BoardSpec
