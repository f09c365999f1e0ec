\* Expected violation: a remote launch fails inside another launch.
SPECIFICATION Spec
CONSTANTS
    gameA = gameA
    gameB = gameB
    gameN = gameN
    gameF = gameF
    None = None
    Nobody = Nobody
    Other = Other
    Games <- TwoGames
    Needs <- SharedNeeds
    Chunks = 2
    MaxVer = 0
    Faults = {"card"}
INVARIANTS
    GamesGetTheirSaves
