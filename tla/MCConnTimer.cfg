\* Two clients on a wheel of five slots; a pass may be up to four seconds late,
\* in which case it sweeps the whole wheel.
SPECIFICATION FairSpec
CONSTANTS
    Client = {c1, c2}
    MaxSlots <- MCMaxSlots
    MaxLag = 4
INVARIANTS
    TypeOK
    WheelInv
PROPERTIES
    LeaseSpec
    SilentIsClosed
