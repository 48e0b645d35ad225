SPECIFICATION FairSpec
CONSTANTS
    c1 = c1  c2 = c2  c3 = c3
    p1 = p1  p2 = p2
    n1 = n1
    o1 = o1  o2 = o2  o3 = o3
    none = none  x = x
    Conns = {c1, c2}
    PeerIds = {p1, p2}
    RoomNames = {n1}
    RoomObjs = {o1, o2}
    Passwords = {none, x}
    NoPassword = none
    StreamCounts = {1}
    Capacity = 2
    MaxJoins = 1
    MayRestart = FALSE
    NoConn = NoConn
    NoRoom = NoRoom
    NoRow = NoRow
    NoRequest = NoRequest
    Nobody = Nobody
PROPERTIES EmptyRoomReclaimed EvictedIsClosed
