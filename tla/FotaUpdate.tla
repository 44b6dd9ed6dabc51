----------------------------- MODULE FotaUpdate -----------------------------
(***************************************************************************)
(* What a firmware update promises: the application that runs is always a  *)
(* complete installed version, and a staged package replaces the installed *)
(* version in one step, while no application runs, whenever power fails.   *)
(***************************************************************************)
CONSTANTS
    Packages,   \* complete firmware versions
    Torn,       \* a staged package that is not complete
    None        \* no application runs

VARIABLES
    installed,   \* the version the device has
    staged,      \* the package the next update would install
    running      \* the version that runs

Init == installed \in Packages /\ staged = Torn /\ running = None

\* Only a running application replaces the staged package.
Stage(p) == running # None /\ staged' = p /\ UNCHANGED <<installed, running>>

Install == running = None /\ staged \in Packages /\ installed' = staged /\ UNCHANGED <<staged, running>>

Start == running = None /\ running' = installed /\ UNCHANGED <<installed, staged>>

Stop == running' = None /\ UNCHANGED <<installed, staged>>

Next == Install \/ Start \/ Stop \/ \E p \in Packages \cup {Torn} : Stage(p)

Spec == Init /\ [][Next]_<<installed, staged, running>>
=============================================================================
