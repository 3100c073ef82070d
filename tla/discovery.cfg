CONSTANTS
    d1 = d1
    d2 = d2
    p1 = p1
    p2 = p2
    Device = {d1, d2}
    Port = {p1, p2}
    NoAdvert = NoAdvert
    BeaconInterval = 1
    PruneInterval = 2
    PeerTimeout = 5
    MaxDelay = 0
    MaxLost = 4
    Starts <- MCStarts
SPECIFICATION Spec
INVARIANTS TypeOK SightingsExpire StoppedForgets SeenInTime
PROPERTY ListingsFollowPeers
CHECK_DEADLOCK FALSE
SYMMETRY PortSymmetry
