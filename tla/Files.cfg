\* The menu by itself on a card with directories in a directory, where calls to the card may
\* fail; the other parts' instances are in MCFiles.
SPECIFICATION FilesSpec
CONSTANTS
    Kind <- MCKind
    Order <- MCOrder
    StartCard <- TreeCard
    MaxDepth = 2
    Memory = 3
    Rows = 3
    CanFail = TRUE
    ShowSaves = FALSE
    ShellAt <- NoCommand
    Commands <- NoCommand
    ShellOf <- TheShell
    RemoteOf <- TheRemote
    SortOf <- TheSort
    ImageOf <- TheImage
    ExtractOf <- TheExtract
CHECK_DEADLOCK FALSE
INVARIANTS
    
    
    ListSorted
    
    

    
    
