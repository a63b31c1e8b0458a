\* Adopting the future dataset builds a second entry for the same epoch.
CONSTANTS
    c1 = c1
    c2 = c2
    Callers <- MCCallers
    MaxEpoch = 1
    InMem = 1
    Dir = TRUE
    Kind = "dataset"
    MaxObjs = 5
    MaxLookups = 4
SPECIFICATION Spec
CHECK_DEADLOCK FALSE
INVARIANT SingleGenerationPerEpoch
