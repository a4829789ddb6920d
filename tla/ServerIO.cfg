SPECIFICATION FairSpec
CONSTANTS
    Streams = {"stdout", "stderr"}
    StdinCap = 2
    PipeCap = 1
    LinesCap = 1
    LongLines = {"stderr"}
    FullAt = {2}
    MaxCmds = 1
    MaxLines = 3
INVARIANTS
    TypeOK
    LogHasNoGaps
    DoneComesLast
PROPERTIES
    OutputFlows
    StopIsForced
CHECK_DEADLOCK FALSE
