CONSTANTS
    Inputs <- HCInputs
    OutCapacity <- MCOutCapacity
    Levels <- MCLevels
    HCHashLog = 2
SPECIFICATION Spec
INVARIANT TypeOK
INVARIANT HCRoundTrip
INVARIANT HCWritesWithinCapacity
INVARIANT HashChainsExact
PROPERTY ParseAdvances
CHECK_DEADLOCK FALSE
