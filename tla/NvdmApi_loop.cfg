CONSTANTS
    t1 = t1
    t2 = t2
    a = a
    b = b
    c = c
    Clients = {t1}
    Daemon = daemon
    Nobody = Nobody
    Keys = {a, b}
    Values = {1}
    Missing = Missing
    NoCall = NoCall
    Groups = {"g", "h"}
    GroupOf <- MCGroupOf
    MaxItems = 2
    QueueLength = 1
    MaxAsync = 1
    ReadInSession = TRUE
    QueryOutside = FALSE
SPECIFICATION FairSpec
PROPERTIES Returns
CHECK_DEADLOCK FALSE
