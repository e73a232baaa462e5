\* Two commands, uninstallations among them, at the same time or one after the
\* other; one operation may fail, no crash.
SPECIFICATION Spec
CONSTANTS
    Processes = {p1, p2}
    Nobody = Nobody
    Files = {f1, f2}
    MaxRelease = 2
    Kinds = {"install", "update", "uninstall"}
    MaxAlive = 2
    MaxCrashes = 0
    MaxFaults = 1
    LocksStick = FALSE
SYMMETRY Symmetry
INVARIANTS OneHolder LocksFreed
PROPERTY Atomic
CHECK_DEADLOCK FALSE
