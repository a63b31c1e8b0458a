\* The mining-dataset store with a dataset directory, one dataset in memory (the defaults of tilt/config.go).
CONSTANTS
    c1 = c1
    c2 = c2
    Callers <- MCCallers
    MaxEpoch = 2
    InMem = 1
    Dir = TRUE
    Kind = "dataset"
    MaxObjs = 6
    MaxLookups = 3
SPECIFICATION Spec
CHECK_DEADLOCK FALSE
INVARIANT TypeOK
INVARIANT StoreBounded
INVARIANT FutureAhead
INVARIANT ReturnedCacheReady
PROPERTY LookupCompletes
