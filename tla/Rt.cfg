SPECIFICATION Spec
CONSTANTS
    Byte <- MCByte
    Blocks <- MCBlocks
    Lengths <- MCLengths
    buffer_size = 8
CONSTRAINT OneMark
INVARIANTS TypeOK LapOK
PROPERTIES PlainCallsAreAQueue AllCallsKeepOrder
