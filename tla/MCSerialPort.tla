---------------------------- MODULE MCSerialPort ----------------------------
EXTENDS SerialPort, TLC

CONSTANTS t1, t2, t3    \* tasks
CONSTANTS p1, p2        \* ports
CONSTANTS b1, b2, b3, b4  \* blocks: two buffers for each of two ports

Own == [t \in Tasks |-> t]            \* each task uses its own handle
SharedWithT1 == [t \in Tasks |-> IF t = t2 THEN t1 ELSE t]
Symmetry == Permutations({t1, t2}) \cup Permutations({p1, p2}) \cup Permutations({b1, b2, b3, b4})
=============================================================================
