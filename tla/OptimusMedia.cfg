CONSTANTS
    NumParts = 2
    NumBlocks = 2
    ResendTimes = 3
    ShortPatience = 1
    InitPatience = 2
    VerifyPatience = 2
    BlockPatience = 2
    MaxFaults = 3
SPECIFICATION FairSpec
CHECK_DEADLOCK FALSE
INVARIANTS
    IInv
    PassedWritten
    VerifiedIntact
PROPERTIES
    MediaKeepsContract
    BurnCompletes
