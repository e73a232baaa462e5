\* Three commands on two roots and two targets; one crash, failure or change by
\* the user.
SPECIFICATION Spec
CONSTANTS
    Roots = {r1, r2}
    Targets = {t1, t2}
    DefaultTarget = t1
    MaxRelease = 2
    Overlap = FALSE
    KeepTargets = TRUE
    RerunFirst = TRUE
    CommitFails = FALSE
    MaxCommands = 3
    MaxEvents = 1
INVARIANTS TypeOK Restorable FilesTracked
SYMMETRY Symmetry
PROPERTY ScopesKept
CHECK_DEADLOCK FALSE
