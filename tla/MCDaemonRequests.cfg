\* Two clients, two handlers, one workspace; one shutdown, crash, failing call or
\* request that is given up.
SPECIFICATION Spec
CONSTANTS
    Handlers = {h1, h2}
    Workspaces = {global}
    Global = global
    Repos = {q1, q2, q3, q4}
    None = None
    MaxStops = 1
    Clients = {c1, c2}
    Bases = {b1}
    MaxRequests = 2
    MaxTroubles = 1
INVARIANTS TypeOK SharedRepository WrittenOnce ListingTrue BatchTrue
SYMMETRY Symmetry
CHECK_DEADLOCK FALSE
