SPECIFICATION FairSpec
CONSTANTS
    Pid = {p1, p2}
    NoPid = NoPid
    Device = {d}
    NoFile = NoFile
    NoKey = NoKey
    Torn = Torn
    NoCounter = NoCounter
    Kinds = {"forget", "add", "delete"}
    MaxCounter = 2
    MaxInputs = 2
    MaxFaults = 1
INVARIANTS TypeOK NeverTorn SingleInstance ForgottenUnlessOverlapped
PROPERTIES PersistedCounterGrows EventuallyPersisted
CHECK_DEADLOCK FALSE
