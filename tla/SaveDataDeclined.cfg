\* Expected violation: the SAVE.INI of a declined launch.
SPECIFICATION Spec
CONSTANTS
    gameA = gameA
    gameB = gameB
    gameN = gameN
    gameF = gameF
    None = None
    Nobody = Nobody
    Other = Other
    Games <- SramAndNone
    Needs <- SramNoneNeeds
    Chunks = 2
    MaxVer = 0
    Faults = {}
INVARIANTS
    FilesHoldOwnSaves
