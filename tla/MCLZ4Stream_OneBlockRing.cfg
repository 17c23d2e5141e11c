CONSTANTS
    KB64 = 32
    GB1 = 32
    RenormAbove = 64
    HashLog = 3
    SafeStart = 66
    SafeCap = 32
    DictStart = 16
    DictCap = 50
    RingStart = 100
    RingCap = 14
    Dicts <- MCDicts
    BlockInputs <- MCRingBlocks
    OutCapacity <- MCBoundCapacity
    Accelerations = {1}
    SaveSizes = {6, 40}
    MaxCalls = 5
SPECIFICATION Spec
CHECK_DEADLOCK FALSE
INVARIANT StreamRoundTrip
