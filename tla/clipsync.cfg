SPECIFICATION Spec
CONSTANTS
    Node = {1, 2}
    Text = {a, b}
    NoVersion = NoVersion
    NoText = NoText
    Idle = Idle
    MaxCopies = 2
    MaxEvents = 2
    MaxToggles = 1
    MaxFaults = 1
    MayStop = {2}
INVARIANTS TypeOK VersionsUnique NextCopyWins GateMeansWriting
PROPERTY ImplementsSharedClipboard
CHECK_DEADLOCK FALSE
