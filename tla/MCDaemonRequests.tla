--------------------------- MODULE MCDaemonRequests ---------------------------
EXTENDS DaemonRequests, TLC

\* Clients and handlers are interchangeable.
Symmetry == Permutations(Clients) \union Permutations(Handlers)
=============================================================================
