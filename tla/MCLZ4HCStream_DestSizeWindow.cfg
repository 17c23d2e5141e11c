CONSTANTS
    KB64 = 16
    GB1 = 32
    GB2 = 40
    HCHashLog = 2
    IdxCap = 80
    SafeStart = 60
    SafeCap = 30
    DictStart = 16
    DictCap = 34
    RingStart = 100
    RingCap = 27
    Dicts <- MCDicts
    BlockInputs <- MCBlocks
    OutCapacity <- MCHCStreamCapacity
    DestSizeTargets <- MCPartTargets
    Levels = {4}
    SaveSizes = {6, 20}
    MaxCalls = 4
SPECIFICATION Spec
INVARIANT HCStreamRoundTrip
CHECK_DEADLOCK FALSE
