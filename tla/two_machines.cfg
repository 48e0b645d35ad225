SPECIFICATION Spec
CONSTANTS
    a = a
    b = b
    Peers <- MCPeers
    Low = a
    MaxConns = 2
    AudioOut = 3
    AudioIn = 3
    WireCap = 1
    PerInterval = 4
    Intervals = 1
    Burst = 1
    LossPhases <- Seventh
    MaxLost = 1
INVARIANTS PresenceComplete NobodyWaitsInVain
CHECK_DEADLOCK FALSE
