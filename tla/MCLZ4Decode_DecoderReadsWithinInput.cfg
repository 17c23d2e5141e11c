CONSTANTS
    Blocks <- MCBlocks
    DstCapacities <- MCDstCapacities
    Dictionaries <- MCDictionaries
SPECIFICATION Spec
INVARIANT DecoderReadsWithinInput
CHECK_DEADLOCK FALSE
