SPECIFICATION Spec
CONSTANTS
    CurrentRetries = 1
    MaxBackups = 1
    Faults = {"copy"}
    MaxVer = 1
    MaxStamp = 2
    NoWorld = NoWorld
PROPERTIES
    BackupFailureKeepsWorld
