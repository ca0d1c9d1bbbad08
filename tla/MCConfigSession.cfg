CONSTANTS
    Versions <- MCVersions
    Targets <- MCTargets
    Names <- MCNames
    Imfs <- MCImfs
    Files <- MCFiles

SPECIFICATION Spec

INVARIANTS
    KeyFitsMode
    ListedOnce
    SavedIsLoaded
