----------------------------- MODULE FileBrowser -----------------------------
(***************************************************************************)
(* The file selector, its menus and dialogs, and the remote shell that     *)
(* works on the same card and the same current directory: the shell's task *)
(* runs for a moment in every frame in which a screen of the menu idles.   *)
(*                                                                         *)
(* Faults: any call to the card may fail.                                  *)
(*                                                                         *)
(* Abstracted: the order of a list, which is fixed (see FileOrder); what a *)
(* program, a viewer or a launch does; the tools, which end in a rescan.   *)
(***************************************************************************)
EXTENDS Selector, Sequences, FiniteSets, SequencesExt

CONSTANTS
    Kind,       \* a function from the names of files to what they are
    Order,      \* the names in their order
    StartCard,  \* paths: sequences of names
    MaxDepth,   \* the length of a path
    Memory,     \* CONFIG_FILESELECT_PATH_MEMORY_DEPTH
    Rows,       \* entries on a page
    CanFail,
    ShowSaves,  \* SETTING_FILE_SHOW_SAVES
    ShellAt,    \* the screens during which the shell gets commands
    Commands    \* and which: "cd", "change", "upload", "launch", "ask"

VARIABLES
    card,       \* the paths there are
    cwd,        \* the current directory
    screen,     \* what is on the screen; "scan" stands for rescan_directory
    dirs,       \* reinit_dirs
    list,       \* the scanned directory, and the names in the cartridge's PSRAM
    offset,     \* the cursor
    memory,     \* path_depth
    pos,        \* path_depth_pos
    picked,     \* the name a menu or a dialog is about
    left,       \* the directory that was just left, or Nothing
    outside,    \* path_depth was written outside its bounds
    reentered   \* the shell's task was resumed from inside

vars == <<card, cwd, screen, dirs, list, offset, memory, pos, picked, left, outside, reentered>>

Nothing  == "nothing"
Junk     == "junk"     \* a name overwritten by a transfer
Screens  == {"scan", "list", "unreadable", "open", "options", "delete", "erase", "task", "crashed"}
Extended == [n \in DOMAIN Kind \cup {Junk} |-> IF n \in DOMAIN Kind THEN Kind[n] ELSE "text"]
IsDir(n) == Extended[n] = "dir"
Saves(n) == IF Extended[n] = "rom" THEN <<"game.sram", "game.rtc">> ELSE <<>>

ASSUME BrowserAssumption ==
    /\ {Order[i] : i \in DOMAIN Order} = DOMAIN Kind
    /\ MaxDepth \in Nat /\ \A p \in StartCard : p \in Seq(DOMAIN Kind) /\ Len(p) <= MaxDepth
    /\ Memory \in Nat \ {0} /\ Rows \in Nat \ {0} /\ {CanFail, ShowSaves} \subseteq BOOLEAN /\ ShellAt \subseteq Screens
    /\ Commands \subseteq {"cd", "change", "upload", "launch", "ask"}

Up(p)         == IF p = <<>> THEN p ELSE Front(p)
Directories   == {p \in card \cup {<<>>} : p = <<>> \/ IsDir(Last(p))}
Shown(n)      == ShowSaves \/ Extended[n] # "save"
InOrder(S)    == SelectSeq(Order, LAMBDA n : n \in S)
Names(p)      == InOrder({n \in DOMAIN Kind : Append(p, n) \in card /\ Shown(n)})
Cursor        == Bounded(offset, Len(list.names))
Here          == list.names[Cursor + 1]
InPopup       == screen = "options"
InDialog      == screen \in {"delete", "erase"}
InError       == screen = "unreadable"
Listed        == screen = "list" /\ list.names # <<>>

(* Mutant: the slashes of the path, and one more.                           *)
DepthMore(p) == Len(p) + 1

(* "/" has depth 0, "/a" depth 1, "/a/b" depth 2.                           *)
Depth(p) == Len(p)

(* f_chdir, whose result no caller in the selector looks at.                *)
ChDir(p) == cwd' \in (IF p \in Directories THEN {p} ELSE {cwd}) \cup (IF CanFail THEN {cwd} ELSE {})

(* path_depth[pos] = offset.                                                *)
Remember(o) ==
    /\ memory' = IF pos < Memory THEN [memory EXCEPT ![pos] = o] ELSE memory
    /\ outside' = (outside \/ pos >= Memory)

-----------------------------------------------------------------------------
(* rescan_directory: the depth comes from the current directory's path; a   *)
(* directory that cannot be read is left.                                   *)
Scan ==
    /\ screen = "scan"
    /\ pos' = Depth(cwd)
    /\ \/ ~dirs /\ screen' = "list" /\ UNCHANGED <<dirs, list, offset>>
       \/ /\ dirs /\ screen' = "list" /\ dirs' = FALSE
          /\ list' = [dir |-> cwd, names |-> Names(cwd)]
          /\ offset' = IF pos' >= Memory THEN 0 ELSE memory[pos']
       \/ dirs /\ CanFail /\ screen' = "unreadable" /\ UNCHANGED <<dirs, list, offset>>
    /\ UNCHANGED <<card, cwd, memory, picked, left, outside, reentered>>

LeaveUnreadable ==
    /\ InError /\ screen' = "scan"
    /\ ChDir(Up(cwd))
    /\ left' = IF cwd' # cwd THEN Last(cwd) ELSE Nothing
    /\ UNCHANGED <<card, dirs, list, offset, memory, pos, picked, outside, reentered>>

Move ==
    /\ Listed
    /\ \E o \in Moved(offset, Len(list.names), Rows) : offset' = o
    /\ left' = Nothing
    /\ UNCHANGED <<card, cwd, screen, dirs, list, memory, pos, picked, outside, reentered>>

(* Mutant: the cursor is not kept on the way down.                          *)
EnterForgets ==
    /\ Listed /\ IsDir(Here)
    /\ UNCHANGED <<memory, outside>>
    /\ ChDir(Append(cwd, Here))
    /\ screen' = "scan" /\ dirs' = TRUE /\ pos' = pos + 1 /\ left' = Nothing
    /\ UNCHANGED <<card, list, offset, picked, reentered>>

(* A on a directory: path_depth gets the cursor, and a 0 one level below.   *)
Enter ==
    /\ Listed /\ IsDir(Here)
    /\ memory' = [d \in DOMAIN memory |-> IF d = pos THEN Cursor ELSE IF d = pos + 1 THEN 0 ELSE memory[d]]
    /\ outside' = (outside \/ pos + 1 >= Memory)
    /\ ChDir(Append(cwd, Here))
    /\ screen' = "scan" /\ dirs' = TRUE /\ pos' = pos + 1 /\ left' = Nothing
    /\ UNCHANGED <<card, list, offset, picked, reentered>>

Back ==
    /\ screen = "list"
    /\ ChDir(Up(cwd))
    /\ left' = IF cwd' # cwd THEN Last(cwd) ELSE Nothing
    /\ screen' = "scan" /\ dirs' = TRUE
    /\ UNCHANGED <<card, list, offset, memory, pos, picked, outside, reentered>>

(* A on a file.  A ROM's failed launch rescans unless its header could not  *)
(* be read; that of a .fx program leaves the directory it found its saves   *)
(* in; a bitmap's viewer rescans, the others do not.                        *)
Open ==
    /\ Listed /\ ~IsDir(Here)
    /\ Remember(Cursor)
    /\ picked' = Here /\ screen' = "open" /\ left' = Nothing
    /\ \/ Extended[Here] = "rom" /\ dirs' \in {TRUE, FALSE} /\ UNCHANGED cwd
       \/ Extended[Here] = "fx" /\ dirs' = FALSE /\ ChDir(Append(cwd, "ram0"))
       \/ Extended[Here] = "bmp" /\ dirs' = TRUE /\ UNCHANGED cwd
       \/ Extended[Here] \notin {"rom", "fx", "bmp"} /\ dirs' = FALSE /\ UNCHANGED cwd
    /\ offset' = Cursor
    /\ UNCHANGED <<card, list, pos, reentered>>

Close ==
    /\ screen = "open" /\ screen' = "scan"
    /\ UNCHANGED <<card, cwd, dirs, list, offset, memory, pos, picked, left, outside, reentered>>

(* START: the menu of a file, ui_file_selector_options.                     *)
Start ==
    /\ Listed
    /\ Remember(Cursor)
    /\ picked' = Here /\ screen' = "options" /\ offset' = Cursor /\ left' = Nothing
    /\ UNCHANGED <<card, cwd, dirs, list, pos, reentered>>

(* B or START leave it as it was; the settings and the tools rescan.        *)
Choose ==
    /\ InPopup
    /\ \/ screen' = "scan" /\ dirs' \in {TRUE, FALSE}
       \/ ~IsDir(picked) /\ screen' = "delete" /\ UNCHANGED dirs
       \/ Extended[picked] = "rom" /\ screen' = "erase" /\ UNCHANGED dirs
    /\ UNCHANGED <<card, cwd, list, offset, memory, pos, picked, left, outside, reentered>>

No ==
    /\ InDialog /\ screen' = "scan" /\ dirs' = TRUE
    /\ UNCHANGED <<card, cwd, list, offset, memory, pos, picked, left, outside, reentered>>

(* fileops_delete_file_maybe_savedata, on the name the list holds by then.  *)
Delete ==
    /\ InDialog /\ screen = "delete" /\ screen' = "scan" /\ dirs' = TRUE
    /\ \/ card' = card \ {Append(cwd, picked)}
       \/ CanFail /\ card' = card
    /\ UNCHANGED <<cwd, list, offset, memory, pos, picked, left, outside, reentered>>

(* Mutant: the file goes with its saves.                                    *)
EraseAll ==
    /\ InDialog /\ screen = "erase" /\ screen' = "scan" /\ dirs' = TRUE
    /\ card' = card \ ({Append(cwd, picked)} \cup {Append(cwd, s) : s \in ToSet(Saves(picked))})
    /\ UNCHANGED <<cwd, list, offset, memory, pos, picked, left, outside, reentered>>

(* The first save that cannot be removed ends it.                           *)
Erase ==
    /\ InDialog /\ screen = "erase" /\ screen' = "scan" /\ dirs' = TRUE
    /\ \E n \in (IF CanFail THEN 0..Len(Saves(picked)) ELSE {Len(Saves(picked))}) :
         card' = card \ {Append(cwd, Saves(picked)[i]) : i \in 1..n}
    /\ UNCHANGED <<cwd, list, offset, memory, pos, picked, left, outside, reentered>>

-----------------------------------------------------------------------------
(* Mutant: the list is drawn again and not read again.                      *)
RefreshDraws ==
    IF screen = "list"
    THEN screen' = "scan" /\ dirs' = FALSE /\ Remember(offset)
    ELSE UNCHANGED <<screen, dirs, memory, outside>>

(* A command that asks for SHELL_RET_REFRESH_UI.  ui_selector returns it as *)
(* UI_SELECTOR_RELOAD_REQUESTED; every other screen drops it.               *)
Refresh ==
    IF screen = "list"
    THEN screen' = "scan" /\ dirs' = TRUE /\ Remember(offset)
    ELSE UNCHANGED <<screen, dirs, memory, outside>>

Given(command) == screen \in ShellAt /\ command \in Commands

Overwrite == list' = [list EXCEPT !.names = [i \in DOMAIN @ |-> Junk]]

ShellCd ==
    /\ Given("cd")
    /\ cwd' \in Directories
    /\ Refresh /\ left' = Nothing
    /\ UNCHANGED <<card, list, offset, pos, picked, reentered>>

(* rm and rmdir.                                                            *)
ShellRemove ==
    /\ Given("change")
    /\ \E p \in card : /\ ~\E q \in card : Len(q) > Len(p) /\ SubSeq(q, 1, Len(p)) = p
                       /\ p # cwd
                       /\ card' = card \ {p}
    /\ Refresh /\ left' = Nothing
    /\ UNCHANGED <<cwd, list, offset, pos, picked, reentered>>

ShellMakeDir ==
    /\ Given("change")
    /\ \E n \in DOMAIN Kind : Kind[n] = "dir" /\ Len(cwd) < MaxDepth /\ card' = card \cup {Append(cwd, n)}
    /\ Refresh /\ left' = Nothing
    /\ UNCHANGED <<cwd, list, offset, pos, picked, reentered>>

(* upload: the file passes through the memory the list is in.               *)
ShellUpload ==
    /\ Given("upload")
    /\ \E n \in DOMAIN Kind : Kind[n] # "dir" /\ Len(cwd) < MaxDepth /\ card' = card \cup {Append(cwd, n)}
    /\ Overwrite
    /\ picked' = IF screen = "list" THEN picked ELSE Junk
    /\ Refresh /\ left' = Nothing
    /\ UNCHANGED <<cwd, offset, pos, reentered>>

(* launch without a path, when the transfer ends early: nothing is asked to *)
(* be drawn again.                                                          *)
ShellLaunchCut ==
    /\ Given("launch")
    /\ Overwrite
    /\ picked' = IF screen = "list" THEN picked ELSE Junk
    /\ left' = Nothing
    /\ UNCHANGED <<card, cwd, screen, dirs, offset, memory, pos, outside, reentered>>

(* launch with a path opens a dialog (an overdumped save, the progress of a *)
(* launch) inside the task; its idle loop resumes the task it runs in.      *)
ShellLaunchAsks ==
    /\ screen = "list" /\ Given("ask")
    /\ screen' = "task" /\ left' = Nothing
    /\ UNCHANGED <<card, cwd, dirs, list, offset, memory, pos, picked, outside, reentered>>

TaskDialog ==
    /\ screen = "task"
    /\ \/ screen' = "crashed" /\ reentered' = TRUE /\ UNCHANGED <<dirs, memory, outside>>
       \/ screen' = "scan" /\ dirs' = TRUE /\ Remember(offset) /\ UNCHANGED reentered  \* answered in the only frames without the shell
    /\ UNCHANGED <<card, cwd, list, offset, pos, picked, left>>

Restart ==
    /\ screen = "crashed"
    /\ cwd' = <<>> /\ screen' = "scan" /\ dirs' = TRUE
    /\ list' = [dir |-> <<>>, names |-> <<>>] /\ offset' = 0
    /\ memory' = [d \in 0..Memory-1 |-> 0] /\ pos' = 255
    /\ picked' = Nothing /\ left' = Nothing /\ reentered' = FALSE /\ outside' = FALSE
    /\ UNCHANGED card

Init ==
    /\ card = StartCard /\ cwd = <<>> /\ screen = "scan" /\ dirs = TRUE
    /\ list = [dir |-> <<>>, names |-> <<>>] /\ offset = 0
    /\ memory = [d \in 0..Memory-1 |-> 0] /\ pos = 255
    /\ picked = Nothing /\ left = Nothing /\ outside = FALSE /\ reentered = FALSE

Next ==
    \/ Scan \/ LeaveUnreadable \/ Move \/ Enter \/ Back \/ Open \/ Close
    \/ Start \/ Choose \/ No \/ Delete \/ Erase
    \/ ShellCd \/ ShellRemove \/ ShellMakeDir \/ ShellUpload \/ ShellLaunchCut
    \/ ShellLaunchAsks \/ TaskDialog \/ Restart

Spec == Init /\ [][Next]_vars

-----------------------------------------------------------------------------
TypeOK ==
    /\ screen \in Screens
    /\ cwd \in Seq(DOMAIN Kind) /\ Len(cwd) <= MaxDepth
    /\ screen = "list" => pos = Len(cwd)
    /\ offset \in Nat /\ \A d \in DOMAIN memory : memory[d] \in Nat
    /\ dirs \in BOOLEAN /\ reentered \in BOOLEAN

(* introduction.md:16: the list on the screen is that of the current        *)
(* directory, as it is now.                                                 *)
ListShowsDirectory ==
    screen = "list" => list = [dir |-> cwd, names |-> Names(cwd)]

(* introduction.md:16, of a list a cancelled transfer ran over.             *)
ListIntact == screen = "list" => Junk \notin ToSet(list.names)

Asked ==
    IF screen = "delete" THEN {Append(list.dir, picked)}
    ELSE {Append(list.dir, Saves(picked)[i]) : i \in DOMAIN Saves(picked)}

(* What the menu deletes is the file it asked about, in the directory the   *)
(* list was read from, or the saves of that file.                           *)
AskedStep == (InDialog /\ screen' = "scan") => (card \ card') \subseteq Asked

DeletesWhatWasAsked == [][AskedStep]_vars

(* Leaving a directory puts the cursor on it.                               *)
CursorOnLeft ==
    screen = "scan" /\ screen' = "list" /\ left # Nothing /\ pos' < Memory =>
        list'.names[offset' + 1] = left

(* ui_file_selector.c:286 looks whether the depth is within path_depth      *)
(* before it is read; no write may be outside either.                       *)
MemoryInBounds == ~outside

(* task.h:71: resuming a task runs it until it yields; it is not resumed    *)
(* while it runs.                                                           *)
TaskNotReentered == ~reentered
=============================================================================
