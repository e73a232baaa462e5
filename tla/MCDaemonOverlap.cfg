\* Two commands at the same time, under fair scheduling; no symmetry, which TLC
\* does not support for liveness.
SPECIFICATION FairSpec
CONSTANTS
    Commands = {c1, c2}
    Daemons = {d1, d2}
    NoDaemon = NoDaemon
    NoToken = NoToken
    Kinds = {"start", "mcp", "stop"}
    NoAuths = {TRUE, FALSE}
    Overlap = TRUE
    Mixed = TRUE
    MaxWebs = 0
    MaxCrashes = 1
    MaxFaults = 1
PROPERTIES Returns
CHECK_DEADLOCK FALSE
