SPECIFICATION RingSpec
CONSTANTS
    Byte <- MCByte
    Blocks <- MCBlocks
    Lengths <- MCLengths
    pool_size = 4
CONSTRAINT OneMark
INVARIANT CopiesAtMostTheBlock
