CONSTANTS
    Dict <- MCDict
    DictSizes = {0, 8}
    StreamBlocks <- MCStreamBlocks
    Dests = {16, 40}
    Caps = {8, 20}
    SaveBuf = 64
    SaveSizes = {0, 3}
    MemTop = 90
    MaxCalls = 3
    ContinueAfterError = TRUE
SPECIFICATION Spec
INVARIANT StreamDecodedExact
CHECK_DEADLOCK FALSE
