\* Three commands one after the other, two of which crash, and one removal of a
\* journal that fails: Recover no longer succeeds.
SPECIFICATION Spec
CONSTANTS
    Processes = {p1, p2, p3}
    Nobody = Nobody
    Files = {f1, f2}
    MaxRelease = 2
    Kinds = {"install", "update"}
    MaxAlive = 1
    MaxCrashes = 2
    MaxFaults = 1
    LocksStick = TRUE
SYMMETRY Symmetry
PROPERTY RecoverSucceeds
CHECK_DEADLOCK FALSE
