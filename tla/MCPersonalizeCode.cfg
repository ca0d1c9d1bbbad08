CONSTANTS
    None = None
    Versions <- MCVersions
    Names <- MCNames
    Imfs = {16}
    Asks = {"access"}
    MaxArgs = 2
    Files <- MCFiles

SPECIFICATION MainSpec

INVARIANTS
    NdefCodeIsWritten

CHECK_DEADLOCK FALSE
