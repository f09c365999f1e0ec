\* Every fault, one game with SRAM and one without saves.
SPECIFICATION Spec
CONSTANTS
    gameA = gameA
    gameB = gameB
    gameN = gameN
    gameF = gameF
    None = None
    Nobody = Nobody
    Other = Other
    Games <- SramAndNone
    Needs <- SramNoneNeeds
    Chunks = 2
    MaxVer = 1
    Faults = {"battery", "mcu", "card", "close"}
CONSTRAINT
    Unbroken
INVARIANTS
    TypeOK
    NoSilentLoss
    SaveIdVouches
PROPERTIES
    ImplementsVault
