\* Three commands one after the other, two of which may crash; one operation
\* may fail; two managed files, two releases.
SPECIFICATION Spec
CONSTANTS
    Processes = {p1, p2, p3}
    Nobody = Nobody
    Files = {f1, f2}
    MaxRelease = 2
    Kinds = {"install", "update"}
    MaxAlive = 1
    MaxCrashes = 2
    MaxFaults = 1
    LocksStick = TRUE
SYMMETRY Symmetry
INVARIANTS TypeOK AllOrNothing BackupsKept
PROPERTIES RetriesSucceed Atomic
CHECK_DEADLOCK FALSE
