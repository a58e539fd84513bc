\* A pass may be two seconds late: the comment of timer_add does not hold.
SPECIFICATION Spec
CONSTANTS
    Client = {c1, c2}
    MaxSlots <- MCMaxSlots
    MaxLag = 2
PROPERTY
    AliveIsNotRemoved
