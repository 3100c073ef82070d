SPECIFICATION Spec
CONSTANTS
    Reader = {"FramingReader"}
    PrefixLen = 4
    BodyLengths = {4, 6}
    MaxBody = 6
    MaxFrames = 2
INVARIANT FramesIntact
CHECK_DEADLOCK FALSE
