SPECIFICATION Spec
CONSTANTS
    p1 = p1  p2 = p2  p3 = p3
    i1 = i1  i2 = i2
    None = None
    PeerIds = {p1, p2, p3}
    Identities = {i1, i2}
    IdentityOf <- MCIdentityOf
    Streams = {0, 1}
    MaxSlots = 3
INVARIANTS SlotsExclusive NoSlotLeaked RegistrySound
PROPERTY SlotsStay
