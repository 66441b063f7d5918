SPECIFICATION FSpec
CONSTANTS
    Byte <- MCByte
    Blocks <- MCBlocks
    Lengths <- MCLengths
    buffer_size = 8
CONSTRAINT OneMark
INVARIANT ForcedPutDiscardsOnlyOldData
