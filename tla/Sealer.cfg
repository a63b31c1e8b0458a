\* One Seal call on a 2-CPU machine with up to two SetThreads calls.
CONSTANTS
    NumCPU = 2
    InitThreads = 0
    ThreadValues <- MCThreadValues
    MaxSets = 2
SPECIFICATION Spec
CHECK_DEADLOCK FALSE
INVARIANT TypeOK
INVARIANT SealReturnsResult
PROPERTY StopTerminatesSeal
