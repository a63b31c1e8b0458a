\* A SetThreads call while Seal is spawning its miners is lost.
CONSTANTS
    NumCPU = 2
    InitThreads = 0
    ThreadValues <- MCThreadValues
    MaxSets = 2
SPECIFICATION Spec
CHECK_DEADLOCK FALSE
INVARIANT ThreadsApplied
