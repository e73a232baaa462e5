\* A single update, in which one operation fails.
SPECIFICATION Spec
CONSTANTS
    Processes = {p1}
    Nobody = Nobody
    Files = {f1, f2}
    MaxRelease = 2
    Kinds = {"update"}
    MaxAlive = 1
    MaxCrashes = 0
    MaxFaults = 1
    LocksStick = TRUE
PROPERTY FailureKeepsTracked
CHECK_DEADLOCK FALSE
