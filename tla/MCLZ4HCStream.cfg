CONSTANTS
    KB64 = 16
    GB1 = 32
    GB2 = 40
    HCHashLog = 2
    IdxCap = 80
    SafeStart = 60
    SafeCap = 30
    DictStart = 16
    DictCap = 34
    RingStart = 100
    RingCap = 27
    Dicts <- MCDicts
    BlockInputs <- MCBlocks
    OutCapacity <- MCHCStreamCapacity
    DestSizeTargets <- MCWholeTargets
    Levels = {4, 10}
    SaveSizes = {6, 20}
    MaxCalls = 4
SPECIFICATION Spec
INVARIANT TypeOK
INVARIANT HCStreamRoundTrip
INVARIANT WindowIsHistory
CHECK_DEADLOCK FALSE
