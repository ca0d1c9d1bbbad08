CONSTANTS
    Clients = {c1, c2}
    Kinds = {"challenge", "serial"}
    Payloads <- MCOneBody
    LastPart = 1
    ChunksOf <- MCChunksOf
    BufChunks <- MCBufChunks
    MaxPolls = 1
    BlockPolls = 1
    SeqMod = 2
    MaxOps = 2
    MaxFaults = 1

SPECIFICATION FairSpec

INVARIANTS
    AcceptedIsWhole

PROPERTIES
    CallsReturn

CHECK_DEADLOCK FALSE
