CONSTANTS
    Versions <- MCVersions
    Names <- MCNames
    Imfs = {16, 17}
    Asks = {}
    MaxArgs = 2

SPECIFICATION Spec

INVARIANTS
    UsbModeIsAlone

CHECK_DEADLOCK FALSE
