CONSTANTS
    Blocks <- MCBlocks
    DstCapacities <- MCDstCapacities
    Dictionaries <- MCDictionaries
SPECIFICATION Spec
INVARIANT SafeDecoderRejectsZeroOffset
CHECK_DEADLOCK FALSE
