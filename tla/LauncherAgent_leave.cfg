\* Two requests that listen and one that is yet to come, with clients that
\* may stall.
SPECIFICATION ListeningSpec
CONSTANTS
    c1 = c1
    c2 = c2
    c3 = c3
    Clients = {c1, c2, c3}
    ChanCap = 1
    MaxStatuses = 2
    Nil = Nil
INVARIANTS TypeOK
PROPERTIES EmitterReturns StreamsEnd
CHECK_DEADLOCK FALSE
