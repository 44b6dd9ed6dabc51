--------------------------- MODULE MCBtCallbacks ---------------------------
EXTENDS BtCallbacks, TLC

CONSTANTS bt, app          \* tasks: the stack's, and an application's
CONSTANTS c1, c2, n1, n2   \* event callbacks, and callbacks of the one other type
CONSTANTS event, config    \* types
CONSTANTS gap, gatt        \* modules
CONSTANTS r1, r2           \* SDP records

Kinds == [c \in Callbacks |-> IF c \in {n1, n2} THEN config ELSE event]
\* Event callbacks want GAP, and one of them GATT as well.
Masks == [c \in Callbacks |-> IF c = c1 THEN {gap, gatt} ELSE IF c = c2 THEN {gap} ELSE {}]

AllApp == [c \in Callbacks |-> app]
Mixed == [c \in Callbacks |-> IF c = c2 THEN app ELSE bt]
=============================================================================
