----------------------------- MODULE MCSwTimer -----------------------------
EXTENDS SwTimer, TLC

CONSTANTS u, v     \* tasks
=============================================================================
