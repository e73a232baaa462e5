\* A client that may be slow, silent or without roots, and may leave.
SPECIFICATION FairSpec
CONSTANTS
    Capacity = 2
    MaxCalls = 2
    MaxRoots = 3
    WithRoots = {TRUE, FALSE}
INVARIANTS TypeOK NeverStale
PROPERTY Served
CHECK_DEADLOCK FALSE
