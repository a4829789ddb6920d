SPECIFICATION Spec
CONSTANTS
    CurrentRetries = 1
    MaxBackups = 1
    Faults = {"crash", "spawn", "copy", "write", "rename", "remove"}
    MaxVer = 1
    MaxStamp = 2
    NoWorld = NoWorld
INVARIANTS
    TypeOK
    NoWorldLost
    DisplacedAfterRetries
PROPERTIES
    PromotionIsSound
    RestoreIsProbed
    Retention
    ImplementsCustody
