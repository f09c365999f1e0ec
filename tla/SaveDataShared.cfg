\* Two games share SRAM; the battery may die.
SPECIFICATION Spec
CONSTANTS
    gameA = gameA
    gameB = gameB
    gameN = gameN
    gameF = gameF
    None = None
    Nobody = Nobody
    Other = Other
    Games <- TwoGames
    Needs <- SharedNeeds
    Chunks = 2
    MaxVer = 0
    Faults = {"battery", "mcu"}
CONSTRAINT
    Unbroken
INVARIANTS
    FilesOwn
PROPERTIES
    RestoreKeepsFiles
