SPECIFICATION FairSpec
CONSTANTS
    Streams = {"stdout"}
    StdinCap = 1
    PipeCap = 1
    LinesCap = 1
    LongLines = {}
    FullAt = {}
    MaxCmds = 3
    MaxLines = 2
PROPERTIES
    StopIsForced
CHECK_DEADLOCK FALSE
