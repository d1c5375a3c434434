SPECIFICATION FairSpec
CONSTANTS
    MaxHeight = 2
    MaxRuns = 2
    MaxLines = 3
INVARIANTS TypeOK ProgressOfStream OneRunPerStream
PROPERTIES CatchesUp
CHECK_DEADLOCK FALSE
