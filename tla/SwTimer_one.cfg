CONSTANTS
    u = u
    v = v
    Users = {u}
    TimerCount = 2
    Durations = {1, 2}
    MaxMs = 2
    Modulus = 6
    Sub = 1
    MaxLate = 1
    Split = FALSE
    OtherPort = TRUE
SPECIFICATION FairSpec
INVARIANTS
    TypeOK
    
    
    

    
