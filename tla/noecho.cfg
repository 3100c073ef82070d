SPECIFICATION Spec
CONSTANTS
    Node = {1, 2}
    Text = {a, b}
    NoVersion = NoVersion
    NoText = NoText
    Idle = Idle
    MaxCopies = 2
    MaxEvents = 2
    MaxToggles = 0
    MaxFaults = 0
    MayStop = {}
INVARIANT NoEcho

CHECK_DEADLOCK FALSE
