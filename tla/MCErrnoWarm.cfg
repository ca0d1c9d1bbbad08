CONSTANTS
    Threads = {t1, t2}
    Values = {1, 2}
    Load = load
    Nothread = nothread_errno
    Null = null
    Warm = TRUE
    MaxCalls = 5
    MaxFaults = 2

SPECIFICATION Spec

SYMMETRY MCSymmetry

INVARIANTS
    NullOnlyIfUnset
    ErrnoIsOwn

CHECK_DEADLOCK FALSE
