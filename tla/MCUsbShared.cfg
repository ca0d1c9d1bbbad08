CONSTANTS
    Procs = {p1, p2}
    Devices = {1, 2}
    Yubico = {1}
    Indices = {0, 1}
    None = none
    MaxOpens = 3
    MaxTransfers = 2
    MaxFaults = 2

SPECIFICATION Spec

SYMMETRY MCSymmetry

INVARIANTS
    TypeOK
    DriverComesBack
    HandleIsUsable
    TransfersAreExclusive
    NullIsTold

CHECK_DEADLOCK FALSE
