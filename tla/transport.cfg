SPECIFICATION FairSpec
CONSTANTS
    Conn = {c1, c2}
    NoConn = NoConn
    Fingerprint = {f1, f2, f3}
    Known = {f1, f2}
    Expected = f1
    Limits = {1, 2}
    MaxCalls = 3
INVARIANTS TypeOK WrittenInOrder PeersVetted
PROPERTIES RemovedIffFailed QueueServed
CHECK_DEADLOCK FALSE
