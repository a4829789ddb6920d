SPECIFICATION FairSpec
CONSTANTS
    reader = reader
    idler = idler
    Clients = {reader, idler}
    Slow = {idler}
    SubCap = 1
    BatchMax = 2
    MaxFiles = 2
    MaxLines = 3
INVARIANTS TypeOK StreamInOrder LossIsOverflow
PROPERTIES SlowHarmsNobody Streamed
