CONSTANTS
    DataSize = 3
    CodeSize = 1
    MaxBuffer = 6
    Identifiers <- MCIdentifiers
    Texts <- MCTexts
    Langs <- MCLangs
    Codes <- MCCodes
    OutputSize = 2
    ArraySize = 3
    NumberSize = 1
    SaltLimit = 3
    MaxSalt = 4
    MaxLength = 5
    MaxIterations = 4
    Versions <- MCVersions
    FixedSize = 3
    OathIdSize = 2
    UidSize = 3
    KeySize = 2
    TailSize = 1
    AccCodeSize = 1
    Firmwares <- MCFirmwares
    ModeNames <- MCModeNames
    Inputs <- MCInputs
    Keys <- MCKeys
    Factors <- MCFactors
    BlockSize = 2
    SerialLimit = 32768
    MaxOptions = 4
    Contents <- MCContents
    Arguments <- MCArguments
    TimeText <- MCTimeText
    Infos <- MCInfos
    Serials <- MCSerials
SPECIFICATION LibrarySpec
INVARIANTS
    ReadBack
    CodeIsKept
    DerivedIsStandard
    ReleasesByNumber
    FieldsKeepApart
    ListingIsWhole
    ChallengeIsWhole
    ExitCodeTells
    SerialIsShown
CHECK_DEADLOCK FALSE
