-------------------------- MODULE MCArtifactRefinement --------------------------
\* The store with its line of versions, for the mapping to ArtifactHistory.
EXTENDS ArtifactLinearization, TLC

Symmetry ==
    Permutations(Clients) \union Permutations(Names) \union Permutations(Refs)
        \union Permutations(Digests)
=============================================================================
