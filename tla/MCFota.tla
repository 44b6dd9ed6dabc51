------------------------------- MODULE MCFota -------------------------------
EXTENDS Fota

CONSTANTS v1, v2     \* two firmware versions
=============================================================================
