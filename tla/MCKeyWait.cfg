CONSTANTS
    Calls <- MCCalls
    Flags <- MCFlags
    WaitFlag = "wait"
    SleepCap = 500
    Extension = 256000

SPECIFICATION FairSpec

INVARIANTS
    TypeOK
    SleepBounded
    Truthful
    UserGetsTheExtension

PROPERTIES
    Returns
    ImplementsContract

CHECK_DEADLOCK FALSE
