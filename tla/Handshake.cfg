\* Intervals on both sides of the 16 bits, one of them a multiple of 2^16; the padding
\* limit of the defaults and the largest.  The numbers of hellos and cookies are bounded
\* by the code itself.
SPECIFICATION FairSpec
CONSTANTS
    KeepAlives = {15000, 65536}
    Paddings = {96, 255}
    MaxDisturbances = 3
INVARIANTS TypeOK Agreement Authenticated FailsOnlyForCause CleanHandover ParametersAgree
PROPERTIES HandshakeEnds
CHECK_DEADLOCK FALSE
