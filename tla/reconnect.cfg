SPECIFICATION FairSpec
CONSTANTS
    Peer = {f1, f2}
    Loop = {l1, l2}
    NoLoop = NoLoop
    Attempts = {1, 4}
    BaseDelay = 2
    CapDelay = 6
INVARIANTS TypeOK OneLoopPerPeer
PROPERTIES PacedUntilCancelled LoopSettles
CHECK_DEADLOCK FALSE
