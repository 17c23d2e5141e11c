CONSTANTS
    Dict <- MCDict
    DictSizes = {0, 8}
    StreamBlocks <- MCStreamBlocks
    Dests = {16, 40}
    Caps = {8, 20}
    SaveBuf = 64
    SaveSizes = {0, 3}
    MemTop = 90
    MaxCalls = 3
    ContinueAfterError = FALSE
SPECIFICATION Spec
INVARIANT TypeOK
INVARIANT StreamDecodedExact
INVARIANT WindowHoldsHistory
CHECK_DEADLOCK FALSE
