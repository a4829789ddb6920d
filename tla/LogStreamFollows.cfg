SPECIFICATION FairSpec
CONSTANTS
    reader = reader
    Clients = {reader}
    Slow = {}
    SubCap = 2
    BatchMax = 2
    MaxFiles = 2
    MaxLines = 1
PROPERTIES FollowsNewest
