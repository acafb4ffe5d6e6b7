SPECIFICATION Spec
CONSTANTS
    Receivers = {"r1", "r2"}
    Modulus = 6
    WindowSize = 2
    Width = 3
    MaxAge = 1
    MaxClockSkew = 1
    MaxTime = 3
    MaxPasses = 2
    MaxTickets = 2
    TicketLifetime = 4
    RetryWindow = 2
    UsedKept = 2
    MaxTicketUsage = 2
    MaxTicketsPerPeer = 1
    MaxTicketTime = 6
    MaxNonce = 5
    MaxData = 1
    SuiteLists <- Suites
    KeepAlives = {0, 70000}
    Paddings = {0, 255}
    MaxAttempts = 2
    MaxReplies = 2
    MaxCalls = 4
    Logins = {l1, l2}
    Changers = {"a1"}
    maxRetries = 1
    MaxRecords = 2
    MaxGuesses = 3
    Callers = {"c1", "c2"}
    MaxTokens = 2
    tokenDuration = 1
    MaxTokenTime = 2
    MaxVersion = 2
    Names = {"n1", "n2"}
    Ips = {"i1", "i2"}
    Roles = {"r1"}
    MaxPermission = 1
    MaxRules = 2
    Loaders = {"l1", "l2"}
    V4 <- Ipv4
    MaxIp = 4
    Entry <- Ranges
    MaxEntries = 2
    MaxRemovals = 1
    BridgeIds = {"b1"}
    Clients = {"c1", "c2"}
    maxRequestsPerIP = 1
    bridgeTimeout = 1
    Hour = 2
    MaxBridgeTime = 4
    bufferSize = 2
    MaxEvents = 6
    MaxStarts = 3
    MaxLogTime = 1
SYMMETRY Interchangeable
INVARIANT TypeOK
INVARIANT NoReplay
INVARIANT EndsAgree
INVARIANT AccessForCause
INVARIANT RecordsKept
\* a handshake, a negotiation and a clock come to their ends
CHECK_DEADLOCK FALSE
