SPECIFICATION Spec
CONSTANTS
    l1 = l1
    l2 = l2
    l3 = l3
    c1 = c1
    c2 = c2
    c3 = c3
    Launchers = {l1, l2}
    Callers = {c1}
    NoCaller = NoCaller
    W = 3
    MaxOwn = 0
    Nil = Nil
INVARIANTS EndedIsRemoved
CHECK_DEADLOCK FALSE
