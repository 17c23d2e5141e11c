CONSTANTS
    Blocks <- NonZeroOffsetBlocks
    DstCapacities <- MCDstCapacities
    Dictionaries <- MCDictionaries
SPECIFICATION Spec
INVARIANT TypeOK
INVARIANT DecoderWritesWithinCapacity
PROPERTY DecoderRefinesBlock
PROPERTY DecoderTerminates
CHECK_DEADLOCK FALSE
