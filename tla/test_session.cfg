SPECIFICATION Spec
CONSTANTS
    a = a
    b = b
    Peers <- MCPeers
    Scripts <- MCScripts
    Echo = FALSE
    Validators <- MCValidators
    Wanted = 1
    PerInterval = 2
    StartBeat <- MCStartBeat
    Spans <- MCSpans
    MaxBeat <- MCMaxBeat
    MaxConns = 2
    AudioOut = 1
    AudioIn = 1
    WireCap = 1
INVARIANTS PresenceExact HelloMutual NoHelloStorm BoundariesReachAll
PROPERTY FramesRise
CHECK_DEADLOCK FALSE
CONSTRAINT FewQueues
