\* Bad flash: every write may fail its verification; a call still ends.
SPECIFICATION FairSpec
CONSTANTS
    k1 = k1
    k2 = k2
    v1 = v1
    v2 = v2
    Key = {k1, k2}
    Val = {v1, v2}
    NULL = NULL
    GARBAGE = GARBAGE
    NBlock = 2
    Words = 5
    Scan = 3
    Size <- MCSize
    MaxVer = 3
    Factory <- MCNoFactory
    Torn = "junk"
    BadFlash = TRUE
INVARIANTS
    NodesApart
    CopiesOrdered
PROPERTIES
    EraseTakesOne
    CallsReturn
