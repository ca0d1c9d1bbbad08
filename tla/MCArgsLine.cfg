CONSTANTS
    Versions <- MCVersions
    Names <- MCNames
    Imfs = {16, 17}
    Asks = {"uid", "fixed"}
    MaxArgs = 7

SPECIFICATION Spec

INVARIANTS
    ModeDropsDefaults
    UidIsNoKey
    CommandIsKept

CHECK_DEADLOCK FALSE
