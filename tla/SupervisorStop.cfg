SPECIFICATION Spec
CONSTANTS
    CurrentRetries = 1
    MaxBackups = 1
    Faults = {}
    MaxVer = 1
    MaxStamp = 1
    NoWorld = NoWorld
PROPERTIES
    StopIsFinal
