CONSTANTS
    Inputs <- MCInputs
    OutCapacity <- MCOutCapacity
    Accelerations <- MCAccelerations
    HashLog = 1
SPECIFICATION Spec
INVARIANT TypeOK
INVARIANT RoundTrip
INVARIANT EncoderWritesWithinCapacity
PROPERTY RoundTripCompletes
CHECK_DEADLOCK FALSE
