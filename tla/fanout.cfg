SPECIFICATION FairSpec
CONSTANTS
    Node = {1, 2, 3}
    Text = {a}
    NoVersion = NoVersion
    NoText = NoText
    Idle = Idle
    MaxCopies = 1
    MaxEvents = 1
    MaxToggles = 0
    MaxFaults = 0
    MayStop = {}
INVARIANTS NoCopyLost WinnerEverywhere
PROPERTY Settles
CHECK_DEADLOCK FALSE
