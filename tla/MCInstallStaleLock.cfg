\* One command crashes; two others find its lock files at the same time.
SPECIFICATION Spec
CONSTANTS
    Processes = {p1, p2, p3}
    Nobody = Nobody
    Files = {f1, f2}
    MaxRelease = 2
    Kinds = {"install", "update"}
    MaxAlive = 2
    MaxCrashes = 1
    MaxFaults = 0
    LocksStick = FALSE
SYMMETRY Symmetry
INVARIANT OneHolder
CHECK_DEADLOCK FALSE
