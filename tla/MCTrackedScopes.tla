---------------------------- MODULE MCTrackedScopes ----------------------------
EXTENDS TrackedScopes, TLC

\* Roots are interchangeable.
Symmetry == Permutations(Roots)
=============================================================================
