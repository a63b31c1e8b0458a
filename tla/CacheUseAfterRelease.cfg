\* An evicted cache is unmapped while another caller still uses its words.
CONSTANTS
    c1 = c1
    c2 = c2
    Callers <- MCCallers
    MaxEpoch = 1
    InMem = 1
    Dir = TRUE
    Kind = "cache"
    MaxObjs = 5
    MaxLookups = 4
SPECIFICATION Spec
CHECK_DEADLOCK FALSE
INVARIANT NoUseAfterRelease
