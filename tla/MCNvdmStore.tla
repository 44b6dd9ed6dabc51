---------------------------- MODULE MCNvdmStore ----------------------------
EXTENDS NvdmStoreProps, TLC

CONSTANTS a, b, c     \* the keys
\* The keys are interchangeable.
Symmetry == Permutations(Keys)

\* Delete one item, or the group all belong to.
MCKeySets == {{k} : k \in Keys} \cup {Keys}
GroupOnly == {Keys}
=============================================================================
