\* A cache evicted while its own caller is still generating it is mapped after release() ran.
CONSTANTS
    c1 = c1
    c2 = c2
    Callers <- MCCallers
    MaxEpoch = 1
    InMem = 1
    Dir = TRUE
    Kind = "cache"
    MaxObjs = 5
    MaxLookups = 4
SPECIFICATION Spec
CHECK_DEADLOCK FALSE
INVARIANT NoLeakedMapping
