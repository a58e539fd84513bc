\* Is a packet that comes in pieces put together rightly?
SPECIFICATION Spec
CONSTANTS
    PACKET_HEADER_LEN = 3
    MAX_PACKET_LEN = 16
    BufSize = 8
    MaySplit = FALSE
    ClientLen = {4, 7}
    ClientMax = 2
    ServerLen = {4, 7}
    ServerMax = 2
INVARIANTS CutIsIntact
CHECK_DEADLOCK FALSE
