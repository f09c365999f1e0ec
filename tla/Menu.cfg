\* A flag, a choice and a list of different categories, with faults; the other parts' instances
\* are in MCMenu.
SPECIFICATION MenuSpec
CONSTANTS
    Rows = 4
    Edited = {"file_hide_icons", "file_view", "repeat_delay"}
    Picked <- LastOf
    CanFail = TRUE
    KeypadOf <- TheKeypad
    WordsOf <- TheWords
    WavOf <- TheWav
    VgmOf <- TheVgm
    CalendarOf <- Century
    ReadingsOf <- LeapYear
    ClockOf <- TheClock
CHECK_DEADLOCK FALSE
INVARIANTS
    TypesOK
    CommandGetsWords
    NothingPlayedTwice
    TunesInPlace
    TimesFit
PROPERTIES
    KeysHeardInTime
    SettingsReturn
    CutSaveOnlyLoses
    SetIsTold
