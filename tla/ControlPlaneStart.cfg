SPECIFICATION Spec
CONSTANTS
    Supervisors = {s1, s2}
    Long = {3}
    QueueCap = 2
    PipeCap = 2
    MaxCmds = 4
    MaxInodes = 2
    MaxEnds = 2
    None = None
    File = File
INVARIANTS
    StartStaysPossible
CHECK_DEADLOCK FALSE
