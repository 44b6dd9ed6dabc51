CONSTANTS
    t1 = t1
    t2 = t2
    t3 = t3
    p1 = p1
    p2 = p2
    Tasks = {t1, t2}
    Ports = {p1, p2}
    b1 = b1
    b2 = b2
    b3 = b3
    b4 = b4
    Blocks = {b1, b2, b3, b4}
    NoBlock = NoBlock
    NoHandle = NoHandle
    Counts = 3
    Uses <- Own
    Forget = TRUE
    Plenty = FALSE
    GoodSizes = TRUE
SPECIFICATION Spec
INVARIANTS
    PortInv
PROPERTIES
    ControlsOwn
SYMMETRY Symmetry
