CONSTANTS
    a = a
    b = b
    c = c
    Keys = {a, b}
    Values = {1, 2}
    KeySets <- GroupOnly
    Missing = Missing
    NoReq = NoReq
    NoKey = NoKey
    PebCount = 3
    Capacity = 5
    Overhead = 1
    MaxItemSize = 2
    EraseCap = 4
    WornCounts = {0, 4}
    MaxItems = 1
    MaxSeq = 2
SPECIFICATION Spec
PROPERTIES
    KvSpec
SYMMETRY Symmetry
