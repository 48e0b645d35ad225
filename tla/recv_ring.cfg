SPECIFICATION Spec
CONSTANTS
    p1 = p1  p2 = p2  i1 = i1  i2 = i2
    PeerIds = {p1, p2}
    Identities = {i1, i2}
    IdentityFor <- Own
    Streams = {0, 1}
    Sources <- MCSources
    MaxSlots = 2
    None = None
    Cap = 2
    EventCap = 1
    FrameCap = 1
    MaxBlocks <- MCBlocks
    BlocksPer = 2
    MaxChanges = 2
    MaxLost = 0
CONSTRAINT Calm
INVARIANTS SlotsExclusive SlotsAgree PremixExact NoDoubleMix SlotAudioInMix
CHECK_DEADLOCK FALSE
