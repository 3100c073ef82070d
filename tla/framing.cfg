SPECIFICATION FairSpec
CONSTANTS
    Reader = {"FramingReader", "FramingReaderState", "recvBanner", "handleUnixConnection"}
    PrefixLen = 4
    BodyLengths = {4, 6}
    MaxBody = 6
    MaxFrames = 3
INVARIANTS TypeOK InOrder
PROPERTY FirstFrameRead
CHECK_DEADLOCK FALSE
