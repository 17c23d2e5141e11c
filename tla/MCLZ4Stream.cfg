CONSTANTS
    KB64 = 32
    GB1 = 32
    RenormAbove = 64
    HashLog = 3
    SafeStart = 66
    SafeCap = 32
    DictStart = 16
    DictCap = 50
    RingStart = 100
    RingCap = 28
    Dicts <- MCDicts
    BlockInputs <- MCBlocks
    OutCapacity <- MCStreamCapacity
    Accelerations = {1}
    SaveSizes = {6, 40}
    MaxCalls = 5
SPECIFICATION Spec
INVARIANT TypeOK
INVARIANT StreamRoundTrip
INVARIANT DictionaryIsHistory
CHECK_DEADLOCK FALSE
