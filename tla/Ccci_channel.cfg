CONSTANTS
    s1 = s1
    s2 = s2
    Senders = {s1, s2}
    Parts = {1, 2}
    FifoSize = 2
    Prompt = TRUE
SPECIFICATION Spec
INVARIANTS
    CcciInv
PROPERTIES
    WaitMeansReceived
    
SYMMETRY Symmetry
