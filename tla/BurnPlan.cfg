CONSTANTS
    Images <- MCImages
    Boards <- MCBoards
    TextLength = 2
    MaxSeek = 3
    FileBlock = 2
    MediaBlock = 4
    DDRSize = 2
SPECIFICATION PlanSpec
CHECK_DEADLOCK FALSE
INVARIANTS
    PassesWhole
    RightSteps
PROPERTIES
    BurnEndsAs
    ItemsAreFiles
