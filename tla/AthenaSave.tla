----------------------------- MODULE AthenaSave -----------------------------
(***************************************************************************)
(* The life of the /ram0 files of a program that AthenaOS runs:            *)
(* launch_athena_boot_curdir_as_rom_wip builds an image with the program's *)
(* ram0 directory in it, writes SAVE.INI, sets the save ID and clears the  *)
(* OS version in SRAM; AthenaOS copies the directory into SRAM and sets    *)
(* the version; launch_backup_save_data, at the next boot, gives the files *)
(* to launch_athena_restore_ram0, if ID and version vouch for them.        *)
(*                                                                         *)
(* Covered: every step of these, loss of power between any two, failing    *)
(* card and MCU operations, a dead battery, and the file selector's        *)
(* directory listing, which lies in the SRAM bank of the files' contents.  *)
(*                                                                         *)
(* Abstracted: contents are who wrote them and their version; a file's     *)
(* name on the card is its name in AthenaOS; a listing is short enough to  *)
(* leave SRAM bank 3, with the ram0 directory, alone.                      *)
(***************************************************************************)
EXTENDS Naturals

CONSTANTS
    Progs,     \* the programs, each in a directory of its own
    Names,     \* names of ram0 files
    MaxVer,    \* bound: how often a program writes a file
    Faults,    \* which of FaultKinds may happen
    MaxFaults, \* bound: how many of them do
    CutAt,     \* the steps at which power may be lost
    None,      \* SAVE_ID_NONE, no SAVE.INI, no program
    Cut        \* a SAVE.INI without entries

(* "open": SAVE.INI cannot be opened at boot.  "card": any other FatFs call *)
(* fails.  "mcu": an MCU command fails.  "battery": SRAM and MCU lose power. *)
FaultKinds == {"open", "card", "mcu", "battery"}
Steps == {"boot", "entry", "files", "write", "unlink", "clear", "list", "menu",
          "create", "close", "id", "jump", "stub", "run"}

ASSUME ProgAssumption  == None \notin Progs /\ Cut \notin Progs /\ None # Cut
ASSUME FaultAssumption == Faults \subseteq FaultKinds /\ CutAt \subseteq Steps
ASSUME BoundAssumption == MaxVer \in Nat /\ MaxFaults \in Nat

VARIABLES
    pc,      \* where the CPU is
    prog,    \* the program being launched or run
    file,    \* the ram0 file being stored
    todo,    \* the directory entries still to store
    ini,     \* SAVE.INI: whose ram0 directory it names
    mcu,     \* the save ID in the MCU
    version, \* whether the OS version in SRAM is set
    dir,     \* the ram0 directory in SRAM
    data,    \* what lies at each file's place in SRAM
    ram0,    \* ram0[p]: the files of p on the card
    left,    \* what the last program to run left, if the user may expect it back
    faults   \* bound: faults so far

vars == <<pc, prog, file, todo, ini, mcu, version, dir, data, ram0, left, faults>>

Empty   == [by |-> None, ver |-> 0]        \* no file, or one cut short
Listing == [by |-> Cut, ver |-> 0]         \* entries of the file selector
Content == [by : Progs \cup {None, Cut}, ver : 0..MaxVer]

Goto(l)   == pc' = l
Fault(k)  == k \in Faults /\ faults < MaxFaults /\ faults' = faults + 1
NoFault   == UNCHANGED faults
Tell      == left' = [by |-> None, data |-> data]   \* an error dialog
Quiet     == UNCHANGED left

-----------------------------------------------------------------------------
(* launch_backup_save_data *)

Boot ==
    /\ pc = "boot"
    /\ \/ ini = None /\ Goto("list") /\ NoFault /\ Quiet
       \/ ini # None /\ Goto("entry") /\ NoFault /\ Quiet
       \/ Fault("open") /\ Goto("list") /\ Tell
    /\ UNCHANGED <<prog, file, todo, ini, mcu, version, dir, data, ram0>>

(* The freya_ram0 entry, up to the loop of launch_athena_restore_ram0.      *)
BackupEntry ==
    /\ pc = "entry"
    /\ \/ ini = Cut /\ Goto("unlink") /\ Quiet /\ UNCHANGED todo
       \/ /\ ini # Cut /\ (ini # mcu \/ ~version)
          /\ Goto("unlink") /\ Tell /\ UNCHANGED todo
       \/ /\ ini = mcu /\ version
          /\ todo' = dir
          /\ Goto("files") /\ Quiet
    /\ UNCHANGED <<prog, file, ini, mcu, version, dir, data, ram0, faults>>

(* Mutant: an error on one file ends the loop as its last file does.        *)
BackupOpenOneFile ==
    /\ pc = "files"
    /\ \/ Goto("unlink") /\ UNCHANGED <<file, todo, ram0>>
       \/ \E f \in todo :
            /\ file' = f
            /\ todo' = todo \ {f}
            /\ ram0' = [ram0 EXCEPT ![ini][f] = Empty]
            /\ Goto("write")
    /\ Quiet /\ NoFault
    /\ UNCHANGED <<prog, ini, mcu, version, dir, data>>

(* f_open with FA_CREATE_ALWAYS empties the file.                           *)
BackupOpenFile ==
    /\ pc = "files"
    /\ \/ todo = {} /\ Goto("unlink") /\ Quiet /\ NoFault /\ UNCHANGED <<file, todo, ram0>>
       \/ \E f \in todo :
            /\ file' = f
            /\ todo' = todo \ {f}
            /\ ram0' = [ram0 EXCEPT ![ini][f] = Empty]
            /\ Goto("write") /\ Quiet /\ NoFault
       \/ /\ todo # {} /\ Fault("card")
          /\ Goto("unlink") /\ Tell /\ UNCHANGED <<file, todo, ram0>>
    /\ UNCHANGED <<prog, ini, mcu, version, dir, data>>

BackupStoreFile ==
    /\ pc = "write"
    /\ \/ /\ ram0' = [ram0 EXCEPT ![ini][file] = data[file]]
          /\ Goto("files") /\ Quiet /\ NoFault
       \/ Fault("card") /\ Goto("unlink") /\ Tell /\ UNCHANGED ram0
    /\ UNCHANGED <<prog, file, todo, ini, mcu, version, dir, data>>

BackupUnlinkIni ==
    /\ pc = "unlink"
    /\ \/ ini' = None /\ NoFault
       \/ Fault("card") /\ UNCHANGED ini
    /\ Goto("clear") /\ Quiet
    /\ UNCHANGED <<prog, file, todo, mcu, version, dir, data, ram0>>

BackupClearId ==
    /\ pc = "clear"
    /\ \/ mcu' = None /\ NoFault
       \/ Fault("mcu") /\ UNCHANGED mcu
    /\ Goto("list") /\ Quiet
    /\ UNCHANGED <<prog, file, todo, ini, version, dir, data, ram0>>

(* The file selector keeps its listing in cartridge RAM from bank 0 on.     *)
ListDirectory ==
    /\ pc = "list"
    /\ data' = [f \in Names |-> Listing]
    /\ Goto("menu") /\ Quiet
    /\ UNCHANGED <<prog, file, todo, ini, mcu, version, dir, ram0, faults>>

-----------------------------------------------------------------------------
(* launch_athena_boot_curdir_as_rom_wip *)

LaunchFails == Goto("list") /\ Tell

(* Whatever fails while the image is built leaves the rest alone.           *)
BuildImage ==
    /\ pc = "menu"
    /\ \E p \in Progs : prog' = p
    /\ \/ Goto("create") /\ Quiet /\ NoFault
       \/ Fault("card") /\ LaunchFails
    /\ UNCHANGED <<file, todo, ini, mcu, version, dir, data, ram0>>

CreateSaveIni ==
    /\ pc = "create"
    /\ \/ ini' = Cut /\ Goto("close") /\ Quiet /\ NoFault
       \/ Fault("card") /\ LaunchFails /\ UNCHANGED ini
    /\ UNCHANGED <<prog, file, todo, mcu, version, dir, data, ram0>>

CloseSaveIni ==
    /\ pc = "close"
    /\ \/ ini' = prog /\ Goto("id") /\ Quiet /\ NoFault
       \/ Fault("card") /\ LaunchFails /\ UNCHANGED ini
    /\ UNCHANGED <<prog, file, todo, mcu, version, dir, data, ram0>>

SetSaveId ==
    /\ pc = "id"
    /\ \/ mcu' = prog /\ Goto("jump") /\ Quiet /\ NoFault
       \/ Fault("mcu") /\ LaunchFails /\ UNCHANGED mcu
    /\ UNCHANGED <<prog, file, todo, ini, version, dir, data, ram0>>

(* Mutant: the OS version stays set.                                        *)
ClearVersionForgotten ==
    /\ pc = "jump"
    /\ Goto("stub") /\ Quiet
    /\ UNCHANGED <<prog, file, todo, ini, mcu, version, dir, data, ram0, faults>>

ClearVersion ==
    /\ pc = "jump"
    /\ version' = FALSE
    /\ Goto("stub") /\ Quiet
    /\ UNCHANGED <<prog, file, todo, ini, mcu, dir, data, ram0, faults>>

Bootstub ==
    /\ pc = "stub"
    /\ \/ Goto("run") /\ Quiet /\ NoFault
       \/ Fault("card") /\ LaunchFails
    /\ UNCHANGED <<prog, file, todo, ini, mcu, version, dir, data, ram0>>

-----------------------------------------------------------------------------
(* AthenaOS, the program and the console *)

Present(p) == {f \in Names : ram0[p][f] # Empty}

(* AthenaOS copies the image's ram0 files to SRAM and sets its version.     *)
OsStart ==
    /\ pc = "run" /\ ~version
    /\ version' = TRUE
    /\ dir' = Present(prog)
    /\ data' = ram0[prog]
    /\ left' = [by |-> prog, data |-> ram0[prog]]
    /\ UNCHANGED <<pc, prog, file, todo, ini, mcu, ram0, faults>>

ProgramWrites ==
    /\ pc = "run" /\ version
    /\ \E f \in Names :
         /\ data[f].ver < MaxVer
         /\ data' = [data EXCEPT ![f] = [by |-> prog, ver |-> data[f].ver + 1]]
         /\ dir' = dir \cup {f}
    /\ left' = [by |-> prog, data |-> data']
    /\ UNCHANGED <<pc, prog, file, todo, ini, mcu, version, ram0, faults>>

PowerCycle ==
    /\ pc \in CutAt
    /\ Goto("boot")
    /\ \/ NoFault /\ Quiet /\ UNCHANGED <<mcu, version, dir, data>>
       \/ /\ Fault("battery")
          /\ mcu' = None
          /\ \E v \in BOOLEAN : version' = v
          /\ data' = [f \in Names |-> Listing]
          /\ IF ini = prog /\ pc = "run" THEN Quiet ELSE Tell
          /\ UNCHANGED dir
    /\ UNCHANGED <<prog, file, todo, ini, ram0>>

Init ==
    /\ pc = "boot" /\ todo = {} /\ ini = None /\ mcu = None /\ faults = 0
    /\ prog \in Progs /\ file \in Names
    /\ version \in BOOLEAN /\ dir = Names
    /\ data = [f \in Names |-> Listing]
    /\ ram0 = [p \in Progs |-> [f \in Names |-> Empty]]
    /\ left = [by |-> None, data |-> data]

Firmware ==
    \/ Boot \/ BackupEntry \/ BackupOpenFile \/ BackupStoreFile \/ BackupUnlinkIni
    \/ BackupClearId \/ ListDirectory \/ CreateSaveIni \/ CloseSaveIni \/ SetSaveId
    \/ ClearVersion \/ Bootstub \/ OsStart

Next == Firmware \/ BuildImage \/ ProgramWrites \/ PowerCycle

Spec == Init /\ [][Next]_vars

-----------------------------------------------------------------------------
TypeOK ==
    /\ pc \in Steps /\ prog \in Progs /\ file \in Names /\ todo \subseteq Names
    /\ ini \in Progs \cup {None, Cut} /\ mcu \in Progs \cup {None}
    /\ version \in BOOLEAN /\ dir \subseteq Names
    /\ data \in [Names -> Content]
    /\ ram0 \in [Progs -> [Names -> Content]]
    /\ left \in [by : Progs \cup {None}, data : [Names -> Content]]
    /\ faults \in 0..MaxFaults

(* What FilesOwn takes for granted: SAVE.INI opens, and the two steps from  *)
(* the new SAVE.INI to the cleared version are not cut; and the MCU answers, *)
(* but for one command when nothing else fails and an ID is not left behind *)
(* its SAVE.INI by a cut.                                                   *)
Guarded ==
    /\ "open" \notin Faults /\ CutAt \cap {"id", "jump"} = {}
    /\ "mcu" \in Faults => MaxFaults <= 1 /\ "clear" \notin CutAt

(* launch_athena.c:188: "If OS version is not set, assume ram0 was not      *)
(* initialized".  The version is to vouch for ram0: what is stored for a    *)
(* program is what that program left there, never another program's files   *)
(* and never the directory listing.                                         *)
FilesOwn ==
    \A p \in Progs : \A f \in Names : ram0[p][f].by \in {p, None}

(* changelog.md:102: "Saving /ram0 contents when loading .fx programs       *)
(* directly".  In the menu, the files the last program left are on the      *)
(* card, unless an error was shown.                                         *)
NoSilentLoss ==
    pc = "menu" /\ left.by # None =>
        \A f \in Names : left.data[f] # Empty => ram0[left.by][f] = left.data[f]

=============================================================================
