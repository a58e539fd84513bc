\* The server's packets arrive whole, though one read may return part of one;
\* the client's arrive in pieces, cut anywhere.
SPECIFICATION FairSpec
CONSTANTS
    PACKET_HEADER_LEN = 3
    MAX_PACKET_LEN = 16
    BufSize = 8
    MaySplit = FALSE
    ClientLen = {4, 7}
    ClientMax = 3
    ServerLen = {3, 4, 7}
    ServerMax = 4
INVARIANTS TypeOK Accounted WholeIsIntact
PROPERTIES StreamSpec AllHandled
CHECK_DEADLOCK FALSE
