CONSTANTS
    None = None
    Versions <- MCVersions
    Names <- MCNames
    Imfs = {16}
    Asks = {"in", "out", "ycfg", "access", "oath_id", "yes", "dry_run"}
    MaxArgs = 5
    Files <- MCFiles

SPECIFICATION MainSpec

INVARIANTS
    WrittenWithConsent
    ShownIsWritten
    OutcomeIsTold
    FileReplacesTheLine
    ChecksHoldWithoutFile

CHECK_DEADLOCK FALSE
