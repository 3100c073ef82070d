SPECIFICATION FairSpec
CONSTANTS
    Daemon = {1, 2}
    Faulty = {1}
    c1 = c1
    c2 = c2
    Client <- MCClient
    Device = {x}
    None = None
    AdminSock = AdminSock
    NoFile = NoFile
    EmptyFile = EmptyFile
    Typed <- MCTyped
    MaxProcesses = 3
INVARIANT TypeOK
PROPERTIES UpMeansServed OkMeansForgotten ListCoherent CommandsEnd
CHECK_DEADLOCK FALSE
