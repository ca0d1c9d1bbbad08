CONSTANTS
    Clients = {c1}
    Kinds = {"config", "challenge", "capabilities", "serial", "status"}
    Payloads <- MCBodies
    LastPart = 2
    ChunksOf <- MCChunksOf
    BufChunks <- MCBufChunks
    MaxPolls = 2
    BlockPolls = 1
    SeqMod = 3
    MaxOps = 3
    MaxFaults = 1

SPECIFICATION Spec

INVARIANTS
    TypeOK
    AcceptedIsOwn
    SentIsAccepted
    WriteIsTold
    ReadModeIsReset

CHECK_DEADLOCK FALSE
