\* Every ALU opcode, PUSHn, CALLDATALOAD and the memory-size check on 4-bit words.
CONSTANTS
    ByteBits = 2
    WordBytes = 2
    UintBits = 3
    StackCap = 3
    Code <- MCCode
    Input <- MCInput
SPECIFICATION Spec
INVARIANT TypeOK
PROPERTY AluMatchesReference
PROPERTY ReadsZeroPadded
PROPERTY MemorySizeCovers
