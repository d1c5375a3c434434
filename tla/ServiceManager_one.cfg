\* One service, two callers: a container created, started, stopped, restarted.
SPECIFICATION FairSpec
CONSTANTS
    Names = {s}
    Listened = {s}
    MaxChanges = 4
    Waiters = {w1, w2}
    NoName = NoName
INVARIANTS IInv NoLostWakeup CacheAgrees
PROPERTIES CacheAdvances NoWaitForever
CHECK_DEADLOCK FALSE
