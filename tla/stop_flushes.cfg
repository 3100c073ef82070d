SPECIFICATION Spec
CONSTANTS
    Pid = {p1, p2}
    NoPid = NoPid
    Device = {d}
    NoFile = NoFile
    NoKey = NoKey
    Torn = Torn
    NoCounter = NoCounter
    Kinds = {}
    MaxCounter = 2
    MaxInputs = 2
    MaxFaults = 1
INVARIANT StopFlushes
CHECK_DEADLOCK FALSE
