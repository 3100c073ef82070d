SPECIFICATION FairSpec
CONSTANTS
    MaxDevices = 1
    Message <- MCMessage
    NoMessage = NoMessage
    MaxWindows = 2
    MaxQueue = 3
    Fingerprint = {1, 2}
    Windowed = 1
    MaxInputs = 4
INVARIANTS TypeOK AskedAfterCode WindowHeld
PROPERTIES ShellSettles
CHECK_DEADLOCK FALSE
