---------------------------- MODULE MCArtifactStore ----------------------------
EXTENDS ArtifactStore, TLC

\* Requests, names, references and digests are interchangeable: every
\* property below is a safety property and names none of them.
Symmetry ==
    Permutations(Clients) \union Permutations(Names) \union Permutations(Refs)
        \union Permutations(Digests)
=============================================================================
