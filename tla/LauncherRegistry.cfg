\* Three launchers that come and go, or three calls to one of them.
SPECIFICATION ScenarioSpec
CONSTANTS
    l1 = l1
    l2 = l2
    l3 = l3
    c1 = c1
    c2 = c2
    c3 = c3
    Launchers = {l1, l2, l3}
    Callers = {c1, c2, c3}
    NoCaller = NoCaller
    W = 2
    MaxOwn = 1
    Nil = Nil
INVARIANTS TypeOK ListedIsListening OwnAnswer CrashNeedsRace StuckBeforeRegistered
PROPERTIES WaitingReturns
CHECK_DEADLOCK FALSE
