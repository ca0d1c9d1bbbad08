CONSTANTS
    Threads = {t1, t2}
    Values = {1, 2}
    Load = load
    Nothread = nothread_errno
    Null = null
    Warm = FALSE
    MaxCalls = 2
    MaxFaults = 0

SPECIFICATION Spec

SYMMETRY MCSymmetry

INVARIANT NeverNull

CHECK_DEADLOCK FALSE
