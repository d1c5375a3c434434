SPECIFICATION Spec
CONSTANTS
    Names = {s}
    Listened = {s}
    MaxChanges = 4
    Waiters = {w}
    NoName = NoName
INVARIANTS RunningIsRunning
CHECK_DEADLOCK FALSE
