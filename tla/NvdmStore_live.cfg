CONSTANTS
    a = a
    b = b
    c = c
    Keys = {a, b}
    Values = {1}
    KeySets <- MCKeySets
    Missing = Missing
    NoReq = NoReq
    NoKey = NoKey
    PebCount = 2
    Capacity = 7
    Overhead = 1
    MaxItemSize = 1
    EraseCap = 1
    WornCounts = {}
    MaxItems = 2
    MaxSeq = 4
SPECIFICATION FairSpec
PROPERTIES Completes
