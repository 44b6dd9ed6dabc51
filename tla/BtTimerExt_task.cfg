CONSTANTS
    a = a
    b = b
    c = c
    Ids = {a,b,c}
    NoId = NoId
    SlotCount = 2
    MaxLen = 2
    MaxLate = 2
    Overlap = FALSE
    Preempted = FALSE
    Handover = TRUE
SPECIFICATION FairSpec
INVARIANTS
    TypeOK
    
    

    
    
