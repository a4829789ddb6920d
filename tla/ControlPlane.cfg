SPECIFICATION FairSpec
CONSTANTS
    Supervisors = {s1, s2}
    Long = {3}
    QueueCap = 2
    PipeCap = 2
    MaxCmds = 4
    MaxInodes = 2
    MaxEnds = 2
    None = None
    File = File
INVARIANTS
    TypeOK
    Reachable
    NoSilentLoss
    InOrder
PROPERTIES
    Delivered
    ConsoleFreed
CHECK_DEADLOCK FALSE
