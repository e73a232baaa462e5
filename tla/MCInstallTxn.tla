----------------------------- MODULE MCInstallTxn -----------------------------
EXTENDS InstallTxn, TLC

\* Processes and managed files are interchangeable.
Symmetry == Permutations(Processes) \union Permutations(Files)
=============================================================================
