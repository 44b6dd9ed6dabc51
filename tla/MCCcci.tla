------------------------------- MODULE MCCcci -------------------------------
EXTENDS CcciProps, TLC

CONSTANTS s1, s2     \* tasks of the sending core
Symmetry == Permutations({s1, s2})
=============================================================================
