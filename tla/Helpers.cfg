SPECIFICATION Spec
CONSTANTS
    Base = 2
    CommandLimit = 30
    PrefixLength = 16
    ChunkSize = 3
    HalfWord = 4
    PageSize = 8
    Places = {0, 1, 2}
    Bits = {0, 1}
    MaxData = 9
    MaxLines = 7
    GivenLines <- MCGivenLines
    LineKeys <- MCLineKeys
    MaxText = 6
    MaxSpan = 11
INVARIANTS
    ChecksumsAgree
    PlatformSound
    CmdlineSurvives
    TransfersSound
CHECK_DEADLOCK FALSE
