\* Three services, two, or one.
SPECIFICATION FairSpec
CONSTANTS
    ServiceLists <- PartsOfTheList
    Disabled = {"geth", "xud"}
    MaxHeight = 1
    MaxChanges = 1
INVARIANTS TypeOK CompleteReport ReportedWasRunning SyncingIsBehind
PROPERTIES Returns
CHECK_DEADLOCK FALSE
