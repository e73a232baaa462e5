--------------------------- MODULE MCDaemonLifecycle ---------------------------
EXTENDS DaemonLifecycle, TLC

\* Commands and processes are interchangeable (used for safety only).
Symmetry == Permutations(Commands) \union Permutations(Daemons)
=============================================================================
