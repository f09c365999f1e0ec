\* A FreyaOS image: flash in PSRAM, and SRAM.
SPECIFICATION Spec
CONSTANTS
    gameA = gameA
    gameB = gameB
    gameN = gameN
    gameF = gameF
    None = None
    Nobody = Nobody
    Other = Other
    Games <- FreyaGames
    Needs <- FreyaNeeds
    Chunks = 2
    MaxVer = 0
    Faults = {"battery", "mcu", "close"}
CONSTRAINT
    Unbroken
INVARIANTS
    GameSeesItsSave
PROPERTIES
    ImplementsVault
