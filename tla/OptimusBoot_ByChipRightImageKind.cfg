CONSTANTS
    Setups <- ByChipSetups
    MaxFaults = 0
SPECIFICATION Spec
CHECK_DEADLOCK FALSE
INVARIANT RightImageKind
