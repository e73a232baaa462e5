\* Two "daemon start" at the same time: the second may remove a live socket.
SPECIFICATION Spec
CONSTANTS
    Commands = {c1, c2}
    Daemons = {d1, d2}
    NoDaemon = NoDaemon
    NoToken = NoToken
    Kinds = {"start"}
    NoAuths = {FALSE}
    Overlap = TRUE
    Mixed = TRUE
    MaxWebs = 0
    MaxCrashes = 0
    MaxFaults = 0
PROPERTIES ActiveSocketKept
CHECK_DEADLOCK FALSE
