CONSTANTS
    MaxBlocks = 3
    Lengths <- MCLengths
    BlockLengths <- MCBlockLengths
SPECIFICATION Spec
CHECK_DEADLOCK FALSE
INVARIANT PaddedIsMultiple
