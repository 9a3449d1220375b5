\* A torn write whose header is whole.
SPECIFICATION Spec
CONSTANTS
    k1 = k1
    k2 = k2
    v1 = v1
    v2 = v2
    Key = {k1, k2}
    Val = {v1, v2}
    NULL = NULL
    GARBAGE = GARBAGE
    NBlock = 3
    Words = 5
    Scan = 4
    Size <- MCSize
    MaxVer = 3
    Factory <- MCNoFactory
    Torn = "header"
    BadFlash = FALSE
INVARIANTS
    NeverCorrupt
