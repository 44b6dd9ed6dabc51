CONSTANTS
    a = a
    b = b
    c = c
    Keys = {a, b}
    Values = {1, 2}
    KeySets <- MCKeySets
    Missing = Missing
    NoReq = NoReq
    NoKey = NoKey
    PebCount = 3
    Capacity = 6
    Overhead = 1
    MaxItemSize = 2
    EraseCap = 0
    WornCounts = {}
    MaxItems = 2
    MaxSeq = 3
SPECIFICATION Spec
INVARIANTS TypeOK NoAssert ReadsDurable AccountingExact ReserveKept OneTarget
PROPERTIES StatusOnlyClears KvSpec
SYMMETRY Symmetry
