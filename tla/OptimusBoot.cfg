CONSTANTS
    Setups <- MCSetups
    MaxFaults = 1
SPECIFICATION FairSpec
CHECK_DEADLOCK FALSE
INVARIANTS
    IInv
    RightImageKind
    NeverHangs
    StagesMatch
PROPERTIES
    BootKeepsContract
    BootCompletes
    Ends
