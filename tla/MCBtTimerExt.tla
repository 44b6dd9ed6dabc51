---------------------------- MODULE MCBtTimerExt ----------------------------
EXTENDS BtTimerExt, TLC

CONSTANTS a, b, c     \* timer ids
\* The ids are interchangeable in every definition (for safety runs only).
Symmetry == Permutations({a, b, c})
=============================================================================
