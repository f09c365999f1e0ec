\* Two programs; two faults of the card or the battery, or one of the MCU.  Power may be lost
\* at every step of the files' life but the two between which the save ID vouches for the
\* previous contents.
SPECIFICATION CartridgeSpec
CONSTANTS
    Progs = {p, q}
    Names = {f, g}
    MaxVer = 1
    Faults = {"card", "battery"}
    MaxFaults = 2
    CutAt = {"boot", "entry", "files", "write", "unlink", "clear", "list", "menu",
             "create", "close", "stub", "run"}
    None = None
    Cut = Cut
    CommandsOf <- TheCommands
    RomOf <- TheRom
    McuOf <- TheMcu
    StubOf <- TheStub
    CartOf <- TheCart
CHECK_DEADLOCK FALSE
INVARIANTS
    TypesOK
    FilesOwn
    NoSilentLoss
    FilesIntact
    ImageInPlace
    JumpsIntoFirmware
PROPERTY
    TurnsUpSteady
