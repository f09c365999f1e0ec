\* A cd while the menu asks whether to delete a file.
SPECIFICATION Spec
CONSTANTS
    Kind <- SmallKind
    Order <- SmallOrder
    StartCard <- SmallCard
    MaxDepth = 2
    Memory = 3
    Rows = 3
    CanFail = FALSE
    ShowSaves = TRUE
    ShellAt = {"delete"}
    Commands = {"cd"}
PROPERTY
    DeletesWhatWasAsked
