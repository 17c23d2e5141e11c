CONSTANTS
    Inputs <- MCInputs
    Targets <- MCTargets
    HashLog = 1
SPECIFICATION Spec
INVARIANT TypeOK
INVARIANT DestSizeWritesWithinTarget
INVARIANT DestSizeRoundTrip
CHECK_DEADLOCK FALSE
