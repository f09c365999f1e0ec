-------------------------------- MODULE Files --------------------------------
(*****************************************************************************)
(* What the user does with the files of the card, one part at a time: the    *)
(* file selector by itself, with the remote shell while the list is shown    *)
(* and with it at any time; the sort of the list; the WonderWitch tools      *)
(* that write and read images. Each tool runs to its end before the menu     *)
(* goes on.                                                                  *)
(* The file selector is taken from the module that holds its theorems.       *)
(*****************************************************************************)
EXTENDS FileBrowserProofs

(* The parameters of each part but the first, as a record.                   *)
CONSTANTS ShellOf, RemoteOf, SortOf, ImageOf, ExtractOf

VARIABLES
    on,  \* the part that runs
    \* QSort
    mode, dir, a, base, limit, i, j, stack, at,
    \* WwImage
    imageAt, op, osChosen, part, image, flash, target, size, imagePos, ram,
    free, said, result,
    \* WwExtract
    extractAt, extractPart, os, entry, extractPos, context, found, out,
    extractLeft, fbin, extractFree, extractResult

Shell == INSTANCE FileBrowserProofs WITH
    Kind <- ShellOf.Kind, Order <- ShellOf.Order,
    StartCard <- ShellOf.StartCard, Memory <- ShellOf.Memory,
    CanFail <- ShellOf.CanFail, ShowSaves <- ShellOf.ShowSaves,
    ShellAt <- ShellOf.ShellAt, Commands <- ShellOf.Commands
Remote == INSTANCE FileBrowserProofs WITH
    Kind <- RemoteOf.Kind, Order <- RemoteOf.Order,
    StartCard <- RemoteOf.StartCard, Memory <- RemoteOf.Memory,
    CanFail <- RemoteOf.CanFail, ShowSaves <- RemoteOf.ShowSaves,
    ShellAt <- RemoteOf.ShellAt, Commands <- RemoteOf.Commands
Sort == INSTANCE QSort WITH
    Directories <- SortOf.Directories, Modes <- SortOf.Modes,
    Threshold <- SortOf.Threshold, Ranges <- SortOf.Ranges
Image == INSTANCE WwImage WITH
    at <- imageAt, pos <- imagePos, Bank <- ImageOf.Bank,
    NewSize <- ImageOf.NewSize, Images <- ImageOf.Images,
    Flashes <- ImageOf.Flashes, Offered <- ImageOf.Offered,
    Free <- ImageOf.Free, CanFail <- ImageOf.CanFail
Extract == INSTANCE WwExtract WITH
    at <- extractAt, part <- extractPart, pos <- extractPos,
    left <- extractLeft, free <- extractFree, result <- extractResult,
    Bank <- ExtractOf.Bank, Table <- ExtractOf.Table,
    BiosTable <- ExtractOf.BiosTable, Contents <- ExtractOf.Contents,
    BiosBank <- ExtractOf.BiosBank, Short <- ExtractOf.Short,
    Free <- ExtractOf.Free, CanFail <- ExtractOf.CanFail

sortVars == <<mode, dir, a, base, limit, i, j, stack, at>>
imageVars == <<imageAt, op, osChosen, part, image, flash, target, size,
               imagePos, ram, free, said, result>>
extractVars == <<extractAt, extractPart, os, entry, extractPos, context,
                 found, out, extractLeft, fbin, extractFree, extractResult>>

all == <<on, vars, sortVars, imageVars, extractVars>>

(* What does not run keeps its state.                                        *)
Rest ==
    /\ UNCHANGED on
    /\ IF on \in {"menu", "shell", "remote"} THEN TRUE ELSE UNCHANGED vars
    /\ IF on = "sort" THEN TRUE ELSE UNCHANGED sortVars
    /\ IF on = "image" THEN TRUE ELSE UNCHANGED imageVars
    /\ IF on = "extract" THEN TRUE ELSE UNCHANGED extractVars

Parts == {"menu", "shell", "remote", "sort", "image", "extract"}

SortRests ==
    /\ mode = 0 /\ dir = 0 /\ a = 0 /\ base = 0 /\ limit = 0
    /\ i = 0 /\ j = 0 /\ stack = 0 /\ at = 0

ImageRests ==
    /\ imageAt = 0 /\ op = 0 /\ osChosen = 0 /\ part = 0 /\ image = 0
    /\ flash = 0 /\ target = 0 /\ size = 0 /\ imagePos = 0 /\ ram = 0
    /\ free = 0 /\ said = 0 /\ result = 0

ExtractRests ==
    /\ extractAt = 0 /\ extractPart = 0 /\ os = 0 /\ entry = 0 /\ extractPos = 0
    /\ context = 0 /\ found = 0 /\ out = 0 /\ extractLeft = 0 /\ fbin = 0
    /\ extractFree = 0 /\ extractResult = 0

FilesInit ==
    /\ on \in Parts
    /\ CASE on = "shell" -> Shell!Init [] on = "remote" -> Remote!Init [] OTHER -> Init
    /\ IF on = "sort" THEN Sort!Init ELSE SortRests
    /\ IF on = "image" THEN Image!Init ELSE ImageRests
    /\ IF on = "extract" THEN Extract!Init ELSE ExtractRests

MenuStep == on = "menu" /\ Next /\ Rest
ShellStep == on = "shell" /\ Shell!Next /\ Rest
RemoteStep == on = "remote" /\ Remote!Next /\ Rest
SortStep == on = "sort" /\ Sort!Next /\ Rest
ImageStep == on = "image" /\ Image!Next /\ Rest
ExtractStep == on = "extract" /\ Extract!Next /\ Rest

FilesNext ==
    \/ MenuStep \/ ShellStep \/ RemoteStep \/ SortStep \/ ImageStep
    \/ ExtractStep

FilesSpec == FilesInit /\ [][FilesNext]_all

-----------------------------------------------------------------------------
(* The parts' assumptions on their parameters.                               *)
ASSUME PartsAssumption ==
    /\ Shell!BrowserAssumption /\ Remote!BrowserAssumption
    /\ Sort!QSortAssumption /\ Image!WwAssumption /\ Extract!TablesAreSorted /\ Extract!BanksAreWhole

(* The orders whose comparators are orders: not those by date.               *)
Ordered == {"name_asc", "name_desc", "size_asc", "size_desc", "filesystem"}

(* The variables of all parts keep to their types; with any command at any   *)
(* time, path_depth is still written within its bounds (ui_file_selector.c). *)
TypesOK ==
    CASE on = "menu" -> TypeOK
      [] on = "shell" -> Shell!TypeOK
      [] on = "remote" -> Remote!MemoryInBounds
      [] on = "sort" -> Sort!TypeOK
      [] on = "image" -> Image!TypeOK
      [] OTHER -> Extract!TypeOK

(* introduction.md:16: the list on the screen is that of the current         *)
(* directory, as it is now, though the shell changes both meanwhile.         *)
ListIsCurrent ==
    /\ on = "menu" => ListShowsDirectory
    /\ on = "shell" => Shell!ListShowsDirectory

(* Nothing on the card is changed but what was meant: the menu deletes what  *)
(* it asked about, in the directory its list was read from, also when the    *)
(* shell gets its commands while the list is shown; of an image, only the    *)
(* component's bank is written.                                              *)
ChangesOnlyMeant ==
    [][/\ on = "menu" => AskedStep
       /\ on = "shell" => Shell!AskedStep
       /\ on = "image" => Image!KeptStep]_all

(* Leaving a directory puts the cursor on it, however deep the menu went.    *)
CursorReturns == [][on = "menu" => CursorOnLeft]_all

(* A sorted list is in the order of its comparator, directories first; what  *)
(* is in no range still to be sorted is in order before.  No scan leaves its *)
(* range, whatever the comparator answers (ui_file_selector_qsort.c:47), and *)
(* the stack of ranges to be sorted holds them.                              *)
ListSorted ==
    on = "sort" => /\ Sort!StaysInRange /\ Sort!StackHolds
                   /\ mode \in Ordered => (Sort!Sorted /\ Sort!PartsInOrder)

(* A BIOS or an OS that was written is where programs look for it, in the    *)
(* image and in the .flash file launched in its stead, and its footer true.  *)
ComponentInPlace == on = "image" => (Image!ComponentInPlace /\ Image!FootTellsLength)

(* A known OS or BIOS is found whatever was compared before, and when all    *)
(* went well, /fbin holds all of it.                                         *)
ExtractedIsWhole == on = "extract" => (Extract!KnownIsFound /\ Extract!ExtractedIsWhole)
=============================================================================
