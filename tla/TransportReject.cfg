SPECIFICATION Spec
CONSTANTS
    Goroutines = {loop, pump}
    MaxFrames = 2
    MaxEpoch = 1
    MaxWire = 4
INVARIANTS NoGenuineFrameRejected
CHECK_DEADLOCK FALSE
