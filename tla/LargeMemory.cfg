CONSTANTS
    MaxBlocks = 3
    Lengths <- MCLengths
    BlockLengths <- MCBlockLengths
SPECIFICATION FairSpec
CHECK_DEADLOCK FALSE
INVARIANTS
    PrefixInPlace
    DoneComplete
    RefusedAfterFullChunks
    UnpaddedCountFits
    IInv
PROPERTY Terminates
