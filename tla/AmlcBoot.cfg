CONSTANTS
    BlockLength = 2
    MaxTransfer = 4
    AmlsBlock = 2
    SeqLimit = 4
    MaxRequest = 10
    BootLength = 10
    ImageLengths <- MCImageLengths
    MaxFaults = 1
SPECIFICATION Spec
CHECK_DEADLOCK FALSE
INVARIANTS
    IInv
    InPlace
    EndComplete
    NoSpuriousFailure
