SPECIFICATION Spec
CONSTANTS
    Addrs = {"a1", "a2"}
    MaxSessions = 2
    MaxDatagrams = 3
    AcceptCapacity = 1
    ReadCapacity = 1
    PlanePeers = {"p1", "p2"}
    MaxChannels = 2
    MaxFrames = 2
    OutboundCapacity = 1
    Buffer = 1
    Ids = {1, 2}
    MaxStreams = 2
    Backlog = 1
    MuxBuffer = 1
    MaxObjects = 2
    MaxEvents = 3
    Conns = {"c1", "c2"}
    Capacity = 1
    Sizes = {0, 2}
    MaxMessages = 2
    MaxAnswers = 1
    MaxPings = 1
    Names = {"p", "q"}
    Destinations = {1, 2}
    Configs <- PeerLists
    MaxUpdates = 2
INVARIANT TypeOK
INVARIANT FaultsForCause
INVARIANT TablesExact
PROPERTY InOrder
PROPERTY Ends
\* connections, channels and processes come to their ends
CHECK_DEADLOCK FALSE
