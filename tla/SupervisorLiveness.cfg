SPECIFICATION FairSpec
CONSTANTS
    CurrentRetries = 1
    MaxBackups = 1
    Faults = {"spawn", "copy", "write", "rename", "input"}
    MaxVer = 1
    MaxStamp = 2
    NoWorld = NoWorld
INVARIANTS
    WholeBackups
    LiveAlone
PROPERTIES
    KeepsServing
    StopEnds
