CONSTANTS
    v1 = v1
    v2 = v2
    Packages = {v1, v2}
    Torn = Torn
    Blank = Blank
    None = None
    Size = 3
    Leftover = {"marker", "other"}
    Faulty = FALSE
SPECIFICATION FairFotaSpec
INVARIANTS
    FotaInv
PROPERTIES
    ImageSpec
    Finishes
