\* Two concurrent requests over two names and three references, with the mapping
\* to ArtifactHistory.
SPECIFICATION LineSpec
CONSTANTS
    Clients = {c1, c2}
    Names = {n1, n2}
    Refs = {r1, r2, r3}
    Digests = {d1}
    NoClient = NoClient
    NoName = NoName
    NoRef = NoRef
    NoDigest = NoDigest
    MaxAttempts = 2
    Limit = 2
SYMMETRY Symmetry
INVARIANTS TypeOK LinearHistory HeadMatches PayloadsDurable OneWinner IInv
PROPERTIES HeadAdvances Linearizable
