\* Two concurrent requests and two references under fair scheduling; no
\* symmetry, which TLC does not support for liveness.
SPECIFICATION FairSpec
CONSTANTS
    Clients = {c1, c2}
    Names = {n1}
    Refs = {r1, r2}
    Digests = {d1}
    NoClient = NoClient
    NoName = NoName
    NoRef = NoRef
    NoDigest = NoDigest
    MaxAttempts = 2
    Limit = 3
PROPERTY Answered
