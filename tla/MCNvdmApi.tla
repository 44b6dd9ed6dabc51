----------------------------- MODULE MCNvdmApi -----------------------------
EXTENDS NvdmApi, TLC

CONSTANTS t1, t2, a, b, c     \* two client tasks, items in two groups

MCGroupOf == [k \in Keys |-> IF k = a THEN "g" ELSE "h"]
\* The clients are interchangeable.
Symmetry == Permutations({t1, t2})
=============================================================================
