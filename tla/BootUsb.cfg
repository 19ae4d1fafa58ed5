CONSTANTS
    Setups <- MCSetups
    DDR_LOAD = 18
    BL2_PARAMS = 20
    UBOOT_ADDR = 1
    UBOOT_LOAD = 4
    SCRIPTADDR = 8
    DTBADDR = 10
    IMAGEADDR = 12
    INITRDADDR = 14
    MaxFaults = 1
SPECIFICATION FairSpec
CHECK_DEADLOCK FALSE
PROPERTIES
    UsbKeepsContract
    CallEndsAs
    Stops
