\* Two goroutines.  Four pieces in flight let two frames be interleaved, reordered and
\* repeated; two epochs let each end change its key before or after the other.
SPECIFICATION FairSpec
CONSTANTS
    Goroutines = {loop, pump}
    MaxFrames = 2
    MaxEpoch = 2
    MaxWire = 4
INVARIANTS TypeOK NonceUnique LoneWriterLossless
PROPERTIES ImplementsChannel LoneWriterDelivers
CHECK_DEADLOCK FALSE
