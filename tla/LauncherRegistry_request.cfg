SPECIFICATION Spec
CONSTANTS
    l1 = l1
    l2 = l2
    l3 = l3
    c1 = c1
    c2 = c2
    c3 = c3
    Launchers = {l1}
    Callers = {c1}
    NoCaller = NoCaller
    W = 3
    MaxOwn = 1
    Nil = Nil
INVARIANTS RequestIsNoAnswer
CHECK_DEADLOCK FALSE
