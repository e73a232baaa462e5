\* Commands and web processes one after another; no-auth changes between them, a
\* daemon is killed, an operation fails.
SPECIFICATION Spec
CONSTANTS
    Commands = {c1, c2, c3}
    Daemons = {d1, d2, d3, d4}
    NoDaemon = NoDaemon
    NoToken = NoToken
    Kinds = {"start", "mcp", "stop"}
    NoAuths = {TRUE, FALSE}
    Overlap = FALSE
    Mixed = FALSE
    MaxWebs = 2
    MaxCrashes = 1
    MaxFaults = 1
SYMMETRY Symmetry
INVARIANTS TypeOK OneDaemon TokenAgrees
PROPERTIES StartWorks StopTruth
CHECK_DEADLOCK FALSE
