\* Two connections, two consoles, and two starts.
SPECIFICATION Spec
CONSTANTS
    Conns = {c1, c2}
    Ids = {i1, i2}
    Nobody = Nobody
    MaxStarts = 2
SYMMETRY Interchangeable
INVARIANTS TypeOK EntryIsOwned ScriptIsComplete InputToLatest
CHECK_DEADLOCK FALSE
