\* Three requests: a removal can skip the second and double the third.
SPECIFICATION Spec
CONSTANTS
    Clients = {c1, c2, c3}
    ChanCap = 1
    MaxStatuses = 2
    Nil = Nil
SYMMETRY Symmetry
CONSTRAINT NoStall
INVARIANTS InOrder NothingMissed NoGap
PROPERTIES OneLost Implements
CHECK_DEADLOCK FALSE
