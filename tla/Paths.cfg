SPECIFICATION Spec
CONSTANTS
    HandshakeRetries = 2
    MaxCalls = 4
    Addrs = {1, 2, 3}
    SwitchThreshold = 2
    VerifyTimeout = 1
    MaxCandidates = 1
    MaxAge = 1
    MaxTime = 2
    MaxPackets = 3
    CalculatePort <- Ports
    MaxSlot = 5
    Senders = {"s1", "s2"}
    Scale = 4
    InitialCwnd = 8
    MaxCwnd = 14
    MinCwnd = 8
    MaxOutstanding = 2
    Conns = {"c1", "c2"}
    PipeSize = 2
    MaxStarts = 2
    MaxServices = 2
INVARIANT TypeOK
INVARIANT RightUnlessOvertaken
PROPERTY StepsForCause
PROPERTY WaitsEnd
\* connections, managers and services come to their ends
CHECK_DEADLOCK FALSE
