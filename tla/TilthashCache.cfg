\* The verification-cache store with a cache directory, two caches in memory (the defaults of tilt/config.go).
CONSTANTS
    c1 = c1
    c2 = c2
    Callers <- MCCallers
    MaxEpoch = 2
    InMem = 2
    Dir = TRUE
    Kind = "cache"
    MaxObjs = 5
    MaxLookups = 3
SPECIFICATION Spec
CHECK_DEADLOCK FALSE
INVARIANT TypeOK
INVARIANT StoreBounded
INVARIANT FutureAhead
INVARIANT StoreHoldsLiveEntries
INVARIANT ReturnedCacheReady
PROPERTY LookupCompletes
