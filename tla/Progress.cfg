\* One game with an EEPROM, whose card and MCU may fail; the other parts' instances are in
\* MCProgress.
SPECIFICATION ProgressSpec
CONSTANTS
    gameA = gameA
    gameB = gameB
    gameN = gameN
    gameF = gameF
    None = None
    Nobody = Nobody
    Other = Other
    Games <- OneGame
    Needs <- OneEeprom
    Chunks = 1
    MaxVer = 0
    Faults = {"card", "mcu"}
CHECK_DEADLOCK FALSE
PROPERTIES
    SaveRests
    Completes
    HeldKeyHeard
    RemovalIsNoticed
    SongEnds
