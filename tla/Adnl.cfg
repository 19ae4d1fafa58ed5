CONSTANTS
    NumParts = 2
    PartSize = 4
    UbootSize = 3
    DownloadSize = 2
    MaxRequest = 3
    BulkSize = 2
    Addresses = {1, 2}
    MaxFaults = 2
    Setups <- MCSetups
SPECIFICATION FairSpec
CHECK_DEADLOCK FALSE
INVARIANTS
    TypeOK
    BurnedIntact
    TplInPlace
    StageAgrees
PROPERTIES
    AdnlKeepsContract
    BurnCompletes
    StopsOrWaits
