\* Two generators over epochs 0..2 with cachesondisk = 1, four generate
\* calls, one failing I/O call and one crash.
CONSTANTS
    Gens = {g1, g2}
    Epochs = {0, 1, 2}
    Limit = 1
    MaxStarts = 4
    MaxFaults = 1
    MaxCrashes = 1
SPECIFICATION Spec
CHECK_DEADLOCK FALSE
PROPERTY ImplementsDumpStore
