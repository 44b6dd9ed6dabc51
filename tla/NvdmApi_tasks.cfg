CONSTANTS
    t1 = t1
    t2 = t2
    a = a
    b = b
    c = c
    Clients = {t1, t2}
    Daemon = daemon
    Nobody = Nobody
    Keys = {a, b, c}
    Values = {1}
    Missing = Missing
    NoCall = NoCall
    Groups = {"g", "h"}
    GroupOf <- MCGroupOf
    MaxItems = 2
    QueueLength = 1
    MaxAsync = 1
    ReadInSession = FALSE
    QueryOutside = FALSE
SPECIFICATION Spec
INVARIANTS
    OneOperation
    SessionExclusive
    SnapshotStable
\* A write that finds no header keeps the mutex, and everything stops.
CHECK_DEADLOCK FALSE
SYMMETRY Symmetry
