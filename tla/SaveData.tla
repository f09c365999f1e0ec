------------------------------ MODULE SaveData ------------------------------
(***************************************************************************)
(* The life of save data: launch_restore_save_data copies a game's save    *)
(* files into the cartridge's media and records that in SAVE.INI and in a  *)
(* save ID; the game runs; launch_backup_save_data, at the next boot,      *)
(* copies the media back into the files SAVE.INI names, if the save ID     *)
(* still vouches for the media's contents.                                 *)
(*                                                                         *)
(* Covered: every step of both functions and of their callers (main.c, the *)
(* file selector, the shell), loss of power between any two steps, a dead  *)
(* battery, soft resets, failing card and MCU operations, the user's       *)
(* answers to the dialogs, programs launched without save data, and the    *)
(* directory listing the file selector keeps in cartridge SRAM.            *)
(*                                                                         *)
(* Abstracted: a medium and a save file are Chunks chunks, a chunk is who  *)
(* wrote it and its version; paths are the game's name; the card never     *)
(* fills up; a file is never longer than its medium.  AthenaOS programs,   *)
(* which write their own SAVE.INI, are not here.                           *)
(***************************************************************************)
EXTENDS Integers

CONSTANTS
    Games,      \* ROM files, named by the save ID of launch_get_rom_metadata
    Needs,      \* Needs[g]: the media the ROM footer of g asks for
    Chunks,     \* the number of pieces a copy moves, one after the other
    MaxVer,     \* bound: how many times a game rewrites one chunk
    Faults,     \* which of FaultKinds may happen
    None,       \* SAVE_ID_NONE: no game
    Nobody,     \* the writer of fill bytes and of the image in a ROM file
    Other       \* the writer of anything that is no game's save data

Media == {"SRAM", "EEPROM", "FLASH"}

(* "card": a FatFs call returns an error.  "close": f_close does, in a      *)
(* backup, where its result is dropped.  "mcu": an MCU command fails.       *)
(* "battery": the media lose their contents with the console's power.       *)
FaultKinds == {"card", "close", "mcu", "battery"}

ASSUME GamesAssumption  == None \notin Games /\ Nobody \notin Games /\ Other \notin Games
ASSUME NamesAssumption  == Nobody # Other
ASSUME NeedsAssumption  == Needs \in [Games -> SUBSET Media]
ASSUME BoundsAssumption == Chunks \in Nat \ {0} /\ MaxVer \in Nat
ASSUME FaultsAssumption == Faults \subseteq FaultKinds

Chunk   == 1..Chunks
Content == [by : Games \cup {Nobody, Other}, ver : 0..MaxVer]
Fill    == [by |-> Nobody, ver |-> 0]
Junk    == [by |-> Other, ver |-> 0]
Absent  == -1                          \* the size of a file that is not there

VARIABLES
    pc,      \* where the CPU is
    cur,     \* the game being backed up, restored or run
    todo,    \* the media the current function has still to handle
    chunk,   \* the chunk it copies next
    outer,   \* the launch whose dialog a launch by the remote shell interrupts
    result,  \* its int16_t result: "ok", "mcu" (ERR_MCU_COMM_FAILED) or "err"
    ini,     \* /NILESWAN/SAVE.INI on the card
    size,    \* size[g][m]: length of the save file of g for m, or Absent
    data,    \* data[g][m][c]: its chunks, those beyond its length included
    mcu,     \* the save ID the MCU keeps, and the media it was set for
    ipc,     \* the save ID kept in the IPC area, for flash
    store,   \* store[m][c]: what the cartridge's media hold
    latest,  \* history: the save data of g as g last left it
    told,    \* history: the <<g, m>> whose loss the user was warned of
    holes    \* history: events after which the code no longer protects saves

card  == <<ini, size, data>>
cart  == <<mcu, ipc, store>>
cpu   == <<cur, todo, chunk, result>>
ghost == <<latest, told, holes>>
rest  == <<outer, ghost>>
vars  == <<pc, cpu, card, cart, rest>>

NoLaunch == [cur |-> None, result |-> "ok"]

Steps == {"boot", "entry", "store", "close", "unlink", "clear",       \* backup
          "menu",
          "setid", "prepare", "load", "closefile", "ini", "write",    \* restore
          "confirm", "bootstub", "game", "foreign", "halted"}

-----------------------------------------------------------------------------
(* SAVE.INI, the save IDs and the files *)

NoIni    == [id |-> None, has |-> {}, there |-> FALSE]
EmptyIni == [id |-> None, has |-> {}, there |-> TRUE]
IniOf(g) == [id |-> g, has |-> Needs[g], there |-> TRUE]
LiveIni(i) == i.has # {}

NoId == [id |-> None, target |-> {}]
IdOf(g) == [id |-> g, target |-> Needs[g] \ {"FLASH"}]

(* Mutant: the ID of flash is asked of the MCU too. *)
SaveIdOfMcu(m) == IF mcu.id # None /\ m \in Needs[mcu.id] THEN mcu.id ELSE None

(* launch_get_save_id, when the MCU answers. *)
SaveId(m) == IF m = "FLASH" THEN ipc
             ELSE IF m \in mcu.target THEN mcu.id ELSE None

(* SAVE.INI lists flash first, launch_restore_save_data prepares it last. *)
NextEntry(S)  == IF "FLASH" \in S THEN "FLASH" ELSE IF "SRAM" \in S THEN "SRAM" ELSE "EEPROM"
NextMedium(S) == IF "SRAM" \in S THEN "SRAM" ELSE IF "EEPROM" \in S THEN "EEPROM" ELSE "FLASH"

(* What preallocate_file leaves: a file of the full size is not touched, a  *)
(* shorter one is filled up, flash is copied from the ROM.                  *)
Prepared(g, m) ==
    [c \in Chunk |-> IF \/ c <= size[g][m] /\ m # "FLASH"
                        \/ size[g][m] = Chunks
                     THEN data[g][m][c] ELSE Fill]

(* The file selector's directory entries start one bank into SRAM. *)
Listed(s) == [s EXCEPT !["SRAM"] = [c \in Chunk |-> IF c = 1 THEN @[c] ELSE Junk]]

(* What is left of the media without power; SRAM, the emulated EEPROM and   *)
(* the MCU's save ID are kept by the battery, PSRAM and the IPC area not.   *)
Unpowered(s, hold) ==
    [m \in Media |-> IF m # "FLASH" /\ hold THEN s[m] ELSE [c \in Chunk |-> Junk]]

Goto(p) == pc' = p
Fault(k) == k \in Faults
Idle == cur' = None /\ todo' = {} /\ chunk' = 1 /\ result' = "ok"

(* Back in the file selector, which lists the directory.  ini' is given.    *)
EnterMenu ==
    /\ Goto("menu")
    /\ Idle
    /\ store' = Listed(store)
    /\ holes' = IF LiveIni(ini') THEN holes \cup {"lingering"} ELSE holes

-----------------------------------------------------------------------------
(* launch_backup_save_data *)

BackupOpenIni ==
    /\ pc = "boot"
    /\ \/ /\ ~ini.there \/ Fault("card")
          /\ UNCHANGED ini
          /\ EnterMenu
       \/ /\ ini.there
          /\ Goto("entry")
          /\ cur' = ini.id
          /\ todo' = ini.has
          /\ UNCHANGED <<chunk, result, ini, store, holes>>
    /\ UNCHANGED <<size, data, mcu, ipc, latest, told, outer>>

BackupFails ==
    /\ Goto("unlink")
    /\ result' = "err"
    /\ UNCHANGED <<cur, todo, chunk, card, cart, rest>>

(* Mutant: the save ID is not compared. *)
BackupEntryUnchecked ==
    /\ pc = "entry"
    /\ IF todo = {} THEN Goto("unlink") /\ UNCHANGED chunk
       ELSE /\ size[cur][NextEntry(todo)] # Absent
            /\ Goto("store")
            /\ chunk' = 1
    /\ UNCHANGED <<cur, todo, result, card, cart, rest>>

(* One turn of the loop over SAVE.INI, up to the copy. *)
BackupEntry ==
    LET m == NextEntry(todo) IN
    /\ pc = "entry"
    /\ \/ /\ todo = {}
          /\ Goto("unlink")
          /\ UNCHANGED <<cpu, card, cart, rest>>
       \/ /\ Fault("card")              \* reading SAVE.INI or opening the file
          /\ BackupFails
       \/ /\ todo # {}
          /\ \/ SaveId(m) # cur
             \/ m # "FLASH" /\ Fault("mcu")
             \/ size[cur][m] = Absent
             \/ m = "FLASH" /\ store[m][Chunks].by = Other    \* not bootable
          /\ BackupFails
       \/ /\ todo # {}
          /\ SaveId(m) = cur
          /\ size[cur][m] # Absent
          /\ Goto("store")
          /\ chunk' = 1
          /\ UNCHANGED <<cur, todo, result, card, cart, rest>>

(* Mutants: one chunk too many; the same chunk over and over. *)
BackupStoreTooMuch ==
    LET m == NextEntry(todo) IN
    /\ pc = "store"
    /\ IF chunk <= size[cur][m]
       THEN /\ data' = [data EXCEPT ![cur][m][chunk] = store[m][chunk]]
            /\ chunk' = chunk + 1
            /\ UNCHANGED pc
       ELSE Goto("close") /\ UNCHANGED <<chunk, data>>
    /\ UNCHANGED <<cur, todo, result, ini, size, cart, rest>>

BackupStoreSameChunk ==
    LET m == NextEntry(todo) IN
    /\ pc = "store"
    /\ data' = [data EXCEPT ![cur][m][chunk] = store[m][chunk]]
    /\ UNCHANGED <<pc, cpu, ini, size, cart, rest>>

(* The copy goes as far as the file does.  The file's tail stays in FatFs's *)
(* buffer until f_close.                                                    *)
BackupStoreChunk ==
    LET m == NextEntry(todo) IN
    /\ pc = "store"
    /\ \/ /\ chunk < size[cur][m]
          /\ data' = [data EXCEPT ![cur][m][chunk] = store[m][chunk]]
          /\ chunk' = chunk + 1
          /\ UNCHANGED <<pc, cur, todo, result, ini, size, cart, rest>>
       \/ /\ chunk >= size[cur][m]
          /\ Goto("close")
          /\ UNCHANGED <<cpu, card, cart, rest>>
       \/ /\ Fault("card") \/ (m = "EEPROM" /\ Fault("mcu"))
          /\ BackupFails

(* Mutant: the buffered tail is lost. *)
BackupCloseLosesTail ==
    /\ pc = "close"
    /\ Goto("entry")
    /\ todo' = todo \ {NextEntry(todo)}
    /\ UNCHANGED <<cur, chunk, result, card, cart, rest>>

BackupCloseFile ==
    LET m == NextEntry(todo) IN
    /\ pc = "close"
    /\ Goto("entry")
    /\ todo' = todo \ {m}
    /\ \/ /\ data' = IF size[cur][m] \in Chunk
                     THEN [data EXCEPT ![cur][m][size[cur][m]] = store[m][size[cur][m]]]
                     ELSE data
          /\ UNCHANGED holes
       \/ /\ Fault("close")
          /\ holes' = holes \cup {"close"}
          /\ UNCHANGED data
    /\ UNCHANGED <<cur, chunk, result, ini, size, cart, latest, told, outer>>

(* The exit all paths share: SAVE.INI goes, then the save ID, and main.c    *)
(* shows an error.                                                          *)
BackupUnlinkIni ==
    /\ pc = "unlink"
    /\ Goto("clear")
    /\ \/ ini' = NoIni
       \/ Fault("card") /\ UNCHANGED ini
    /\ UNCHANGED <<cpu, size, data, cart, rest>>

BackupClearSaveId ==
    /\ pc = "clear"
    /\ UNCHANGED card
    /\ EnterMenu
    /\ ipc' = None
    /\ mcu' = NoId \/ (Fault("mcu") /\ UNCHANGED mcu)
    /\ told' = IF result = "ok" THEN told ELSE told \cup ({cur} \X todo)
    /\ UNCHANGED <<latest, outer>>

-----------------------------------------------------------------------------
(* launch_restore_save_data, called by the file selector and the shell *)

LaunchRom ==
    /\ pc = "menu"
    /\ Goto("setid")
    /\ \E g \in Games : cur' = g /\ todo' = Needs[g]
    /\ UNCHANGED <<chunk, result, card, cart, rest>>

(* Mutant: SAVE.INI is written before the media are. *)
RestoreSetSaveIdAndIni ==
    /\ pc = "setid"
    /\ Goto("prepare")
    /\ ini' = IF Needs[cur] = {} THEN NoIni ELSE IniOf(cur)
    /\ ipc' = IF "FLASH" \in Needs[cur] THEN cur ELSE None
    /\ mcu' = IdOf(cur)
    /\ UNCHANGED <<cpu, size, data, store, rest>>

(* The IPC copy is written even if the MCU fails; whether the MCU took the  *)
(* command is then unknown.                                                 *)
RestoreSetSaveId ==
    /\ pc = "setid"
    /\ ipc' = IF "FLASH" \in Needs[cur] THEN cur ELSE None
    /\ \/ /\ mcu' = IdOf(cur)
          /\ Goto("prepare")
          /\ UNCHANGED result
       \/ /\ Fault("mcu")
          /\ mcu' \in {mcu, IdOf(cur)}
          /\ IF Needs[cur] # {} THEN result' = "mcu" /\ Goto("confirm")
                                ELSE Goto("prepare") /\ UNCHANGED result
    /\ UNCHANGED <<cur, todo, chunk, card, store, rest>>

RestoreFails(r) ==
    /\ Goto("confirm")
    /\ result' = r
    /\ UNCHANGED <<cur, todo, chunk, cart, rest>>

(* preallocate_file opens or creates the file; a new directory entry may    *)
(* reach the card before the file has any length.  An overdumped file the   *)
(* user rejects ends like a card error.                                     *)
PreallocateFile ==
    LET m == NextMedium(todo) IN
    /\ pc = "prepare"
    /\ \/ /\ todo = {}
          /\ Goto("ini")
          /\ UNCHANGED <<cpu, card, cart, rest>>
       \/ /\ todo # {}
          /\ Goto(IF m = "FLASH" THEN "closefile" ELSE "load")
          /\ chunk' = 1
          /\ size' \in {size, [size EXCEPT ![cur][m] = IF @ = Absent THEN 0 ELSE @]}
          /\ UNCHANGED <<cur, todo, result, ini, data, cart, rest>>
       \/ /\ todo # {}
          /\ \/ Fault("card") /\ RestoreFails("err")
             \/ Fault("mcu") /\ m = "EEPROM" /\ RestoreFails("mcu")
          /\ UNCHANGED card                  \* an unclosed file keeps its length

(* Mutant: a file of the right size is filled too. *)
OverwriteFile(g, m) ==
    /\ size' = [size EXCEPT ![g][m] = Chunks]
    /\ data' = [data EXCEPT ![g][m] = [c \in Chunk |-> Fill]]

(* f_close makes the new length and what was filled in permanent. *)
GrowFile(g, m) ==
    /\ size' = [size EXCEPT ![g][m] = Chunks]
    /\ data' = [data EXCEPT ![g][m] = Prepared(g, m)]

(* f_read_sram_banked and launch_read_eeprom. *)
RestoreLoadChunk ==
    LET m == NextMedium(todo) IN
    /\ pc = "load"
    /\ \/ /\ store' = [store EXCEPT ![m][chunk] = Prepared(cur, m)[chunk]]
          /\ IF chunk = Chunks THEN Goto("closefile") /\ UNCHANGED chunk
                               ELSE chunk' = chunk + 1 /\ UNCHANGED pc
          /\ UNCHANGED <<cur, todo, result, card, mcu, ipc, rest>>
       \/ /\ \/ Fault("card") /\ RestoreFails("err")
             \/ Fault("mcu") /\ m = "EEPROM" /\ RestoreFails("mcu")
          /\ GrowFile(cur, m) \/ UNCHANGED <<size, data>>
          /\ UNCHANGED ini

RestoreCloseFile ==
    LET m == NextMedium(todo) IN
    /\ pc = "closefile"
    /\ \/ /\ GrowFile(cur, m)
          /\ todo' = todo \ {m}
          /\ Goto("prepare")
          /\ UNCHANGED <<cur, chunk, result, ini, cart, rest>>
       \/ /\ Fault("card") /\ RestoreFails("err")
          /\ UNCHANGED card

(* A game without save data removes SAVE.INI, another one creates it anew;  *)
(* the empty file may be on the card before its text is.                    *)
RestoreOpenIni ==
    /\ pc = "ini"
    /\ \/ /\ Needs[cur] = {}
          /\ ini' = NoIni
          /\ Goto("confirm")
          /\ UNCHANGED <<cpu, cart, rest>>
       \/ /\ Needs[cur] # {}
          /\ ini' \in {ini, EmptyIni}
          /\ Goto("write")
          /\ UNCHANGED <<cpu, cart, rest>>
       \/ /\ Fault("card") /\ RestoreFails("err")
          /\ UNCHANGED ini
    /\ UNCHANGED <<size, data>>

RestoreWriteIni ==
    /\ pc = "write"
    /\ \/ /\ ini' = IniOf(cur)
          /\ Goto("confirm")
          /\ UNCHANGED <<cpu, cart, rest>>
       \/ /\ Fault("card") /\ RestoreFails("err")
          /\ ini' \in {ini, IniOf(cur)}
    /\ UNCHANGED <<size, data>>

-----------------------------------------------------------------------------
(* After launch_restore_save_data: dialogs, launch_rom_via_bootstub *)

BatteryRequired(g) ==
    \/ "EEPROM" \in Needs[g]
    \/ "SRAM" \in Needs[g] /\ "FLASH" \notin Needs[g]

(* The dialogs the file selector may show; the shell prints and goes on.    *)
McuDialog     == result = "mcu"
BatteryDialog == result # "mcu" /\ BatteryRequired(cur)
Waiting == pc = "confirm" /\ (result = "err" \/ McuDialog \/ BatteryDialog)

AbortLaunch ==
    /\ pc = "confirm"
    /\ outer = NoLaunch
    /\ \/ result = "err"                       \* ui_dialog_error_check
       \/ McuDialog \/ BatteryDialog           \* answered No
       \/ Fault("card")                        \* f_stat
    /\ UNCHANGED ini
    /\ EnterMenu
    /\ UNCHANGED <<size, data, mcu, ipc, latest, told, outer>>

(* The game starts from its files; a warned user continues at a risk. *)
AcceptLaunch ==
    /\ pc = "confirm"
    /\ result # "err"
    /\ Goto("bootstub")
    /\ chunk' = 1
    /\ latest' = [latest EXCEPT ![cur] = [m \in Media |-> Prepared(cur, m)]]
    /\ told' \in (IF McuDialog THEN {} ELSE {told \ ({cur} \X Media)})
                 \cup (IF McuDialog \/ BatteryDialog
                       THEN {told \cup ({cur} \X Needs[cur])} ELSE {})
    /\ outer' = NoLaunch
    /\ holes' = IF McuDialog /\ LiveIni(ini) THEN holes \cup {"remote"} ELSE holes
    /\ UNCHANGED <<cur, todo, result, card, cart>>

(* While a dialog waits, idle_until_vblank runs the remote shell, whose     *)
(* launch command calls launch_restore_save_data too and asks nothing.  If  *)
(* it fails, the dialog is still there, and so is the launch it belongs to. *)
RemoteLaunch ==
    /\ Waiting
    /\ outer = NoLaunch
    /\ outer' = [cur |-> cur, result |-> result]
    /\ \E g \in Games : cur' = g /\ todo' = Needs[g]
    /\ chunk' = 1
    /\ result' = "ok"
    /\ Goto("setid")
    /\ UNCHANGED <<card, cart, ghost>>

RemoteReturns ==
    /\ pc = "confirm"
    /\ outer # NoLaunch
    /\ result = "err" \/ Fault("card")
    /\ cur' = outer.cur
    /\ result' = outer.result
    /\ todo' = {}
    /\ outer' = NoLaunch
    /\ holes' = holes \cup {"remote"}
    /\ UNCHANGED <<pc, chunk, card, cart, latest, told>>

(* Mutant: the ROM file is booted although the flash file exists. *)
BootstubLoadRom ==
    /\ pc = "bootstub"
    /\ store' = [store EXCEPT !["FLASH"] = [c \in Chunk |-> Fill]]
    /\ Goto("game")
    /\ UNCHANGED <<cpu, card, mcu, ipc, rest>>

(* The bootstub copies the ROM, or the flash file in its place, to PSRAM.   *)
BootstubLoad ==
    /\ pc = "bootstub"
    /\ \/ /\ store' = [store EXCEPT !["FLASH"][chunk] =
                          IF "FLASH" \notin Needs[cur] THEN Junk
                          ELSE IF result = "ok" THEN data[cur]["FLASH"][chunk] ELSE Fill]
          /\ IF chunk = Chunks THEN Goto("game") /\ UNCHANGED chunk
                               ELSE chunk' = chunk + 1 /\ UNCHANGED pc
       \/ /\ Fault("card")
          /\ Goto("halted")                    \* report_fatfs_error
          /\ UNCHANGED <<chunk, store>>
    /\ UNCHANGED <<cur, todo, result, card, mcu, ipc, rest>>

-----------------------------------------------------------------------------
(* What is not the shell: the game, other programs, the user, the hardware *)

GameWrite ==
    /\ pc = "game"
    /\ \E m \in Needs[cur], c \in Chunk, v \in 0..MaxVer :
         LET b == [by |-> cur, ver |-> v] IN
         /\ store' = [store EXCEPT ![m][c] = b]
         /\ latest' = [latest EXCEPT ![cur][m][c] = b]
    /\ UNCHANGED <<pc, cpu, card, mcu, ipc, told, holes, outer>>

(* launch_in_psram, launch_com, launch_bfb and launch_plugin_via_ipc start  *)
(* programs with no save ID and no SAVE.INI of their own.                   *)
LaunchOther ==
    /\ pc = "menu"
    /\ Goto("foreign")
    /\ UNCHANGED <<cpu, card, cart, rest>>

OtherWrite ==
    /\ pc = "foreign"
    /\ \E m \in {"SRAM", "FLASH"}, c \in Chunk : store' = [store EXCEPT ![m][c] = Junk]
    /\ UNCHANGED <<pc, cpu, card, mcu, ipc, rest>>

(* fileops_delete_file_maybe_savedata, one file of it. *)
EraseSave ==
    /\ pc = "menu"
    /\ \E g \in Games : \E m \in Needs[g] :
         /\ size[g][m] # Absent
         /\ size' = [size EXCEPT ![g][m] = Absent]
         /\ latest' = [latest EXCEPT ![g][m] = [c \in Chunk |-> Fill]]
    /\ UNCHANGED <<pc, cpu, ini, data, cart, told, holes, outer>>

(* Also the answer to a removed storage card, in any dialog.                *)
SoftReset ==
    /\ \/ pc \in {"menu", "game", "foreign"}
       \/ Waiting /\ outer = NoLaunch
    /\ Goto("boot")
    /\ Idle
    /\ holes' = IF pc = "confirm" /\ "FLASH" \in ini.has THEN holes \cup {"lingering"} ELSE holes
    /\ UNCHANGED <<card, cart, latest, told, outer>>

(* factory_reset, from the settings. *)
FactoryReset ==
    /\ pc = "menu"
    /\ Goto("boot")
    /\ Idle
    /\ ini' = NoIni \/ (Fault("card") /\ UNCHANGED ini)
    /\ UNCHANGED <<size, data, cart, rest>>

(* The power switch, at any time.  That flash is lost is documented.        *)
PowerCycle ==
    /\ Goto("boot")
    /\ Idle
    /\ \E hold \in BOOLEAN :
         /\ hold \/ Fault("battery")
         /\ store' = Unpowered(store, hold)
         /\ mcu' = IF hold THEN mcu ELSE NoId
    /\ ipc' = None
    /\ told' = told \cup {s \in Games \X {"FLASH"} : latest[s[1]]["FLASH"] # Prepared(s[1], "FLASH")}
    /\ holes' = IF pc = "clear" /\ result = "err" THEN holes \cup {"cut"} ELSE holes
    /\ outer' = NoLaunch
    /\ UNCHANGED <<card, latest>>

-----------------------------------------------------------------------------
Init ==
    /\ pc = "boot" /\ cur = None /\ todo = {} /\ chunk = 1 /\ result = "ok"
    /\ ini = NoIni
    /\ size \in [Games -> [Media -> {Absent, Chunks - 1, Chunks}]]
    /\ \A g \in Games, m \in Media :
          /\ m \notin Needs[g] => size[g][m] = Absent
          /\ m = "FLASH" => size[g][m] # Chunks - 1
    /\ data = [g \in Games |-> [m \in Media |-> [c \in Chunk |->
                 IF c <= size[g][m] THEN [by |-> g, ver |-> 0] ELSE Fill]]]
    /\ mcu = NoId /\ ipc = None
    /\ store = [m \in Media |-> [c \in Chunk |-> Junk]]
    /\ latest = [g \in Games |-> [m \in Media |-> Prepared(g, m)]]
    /\ told = {} /\ holes = {}
    /\ outer = NoLaunch

Backup == BackupOpenIni \/ BackupEntry \/ BackupStoreChunk \/ BackupCloseFile
          \/ BackupUnlinkIni \/ BackupClearSaveId
Restore == RestoreSetSaveId \/ PreallocateFile \/ RestoreLoadChunk \/ RestoreCloseFile
           \/ RestoreOpenIni \/ RestoreWriteIni
Firmware == Backup \/ Restore \/ BootstubLoad
User == LaunchRom \/ AbortLaunch \/ AcceptLaunch \/ LaunchOther \/ EraseSave \/ FactoryReset
        \/ RemoteLaunch \/ RemoteReturns
World == GameWrite \/ OtherWrite \/ SoftReset \/ PowerCycle

Next == Firmware \/ User \/ World

Spec == Init /\ [][Next]_vars

(* Only the firmware must go on: users, games and hardware owe nothing.     *)
LiveSpec == Spec /\ WF_vars(Firmware)

-----------------------------------------------------------------------------
(* Properties *)

(* Every variable has its type.                                             *)
TypeOK ==
    /\ pc \in Steps
    /\ cur \in Games \cup {None}
    /\ todo \in SUBSET Media
    /\ chunk \in Chunk
    /\ result \in {"ok", "mcu", "err"}
    /\ ini \in {NoIni, EmptyIni} \cup {IniOf(g) : g \in Games}
    /\ size \in [Games -> [Media -> {Absent} \cup 0..Chunks]]
    /\ data \in [Games -> [Media -> [Chunk -> Content]]]
    /\ mcu \in {NoId} \cup {IdOf(g) : g \in Games}
    /\ ipc \in Games \cup {None}
    /\ store \in [Media -> [Chunk -> Content]]
    /\ latest \in [Games -> [Media -> [Chunk -> Content]]]
    /\ outer \in [cur : Games \cup {None}, result : {"ok", "mcu", "err"}]
    /\ told \in SUBSET (Games \X Media)
    /\ holes \in SUBSET {"lingering", "close", "cut", "remote"}

Owned(b, g) == b.by \in {g, Nobody}

(* launch_backup_save_data writes into the file of a game nothing that      *)
(* another game, another program or the file selector left in the media:    *)
(* that is what the save ID is compared for.                                *)
FilesHoldOwnSaves ==
    \A g \in Games, m \in Media, c \in Chunk : Owned(data[g][m][c], g)

(* The same, as long as no SAVE.INI outlived a return to the file selector  *)
(* and no launch of the remote shell failed inside another one.             *)
FilesOwn == holes \cap {"lingering", "remote"} = {} => FilesHoldOwnSaves

(* Back in the file selector, every save file holds what its game left,     *)
(* or the user has been told that it does not.                              *)
NoSilentLoss ==
    holes = {} /\ pc = "menu" =>
        \A g \in Games : \A m \in Needs[g] :
            <<g, m>> \in told \/ Prepared(g, m) = latest[g][m]

(* NoSilentLoss with no exception for a failing f_close.                    *)
LossIsReported ==
    holes \subseteq {"close"} /\ pc = "menu" =>
        \A g \in Games : \A m \in Needs[g] :
            <<g, m>> \in told \/ Prepared(g, m) = latest[g][m]

(* SRAM is battery backed: with a good battery, and with no SAVE.INI left   *)
(* behind, what a game left in SRAM comes back to its file.                 *)
SramIsBatteryBacked ==
    holes = {} /\ pc = "menu" =>
        \A g \in Games : "SRAM" \in Needs[g] => Prepared(g, "SRAM") = latest[g]["SRAM"]

(* A game that launch_restore_save_data prepared without an error runs on   *)
(* the save data it last left, in every medium it uses.                     *)
GamesGetTheirSaves ==
    pc = "game" /\ result = "ok" =>
        \A m \in Needs[cur] : store[m] = latest[cur][m]

(* The same, if no launch of the remote shell failed inside another one.    *)
GameSeesItsSave == "remote" \notin holes => GamesGetTheirSaves

(* A save ID that matches SAVE.INI at boot vouches for the whole medium:    *)
(* what launch_backup_save_data is going to copy is what the game left, or, *)
(* if the game never started, what the file already holds.                  *)
SaveIdVouches ==
    holes = {} /\ pc = "boot" /\ ini.there =>
        \A m \in ini.has :
            SaveId(m) = ini.id => store[m] \in {latest[ini.id][m], Prepared(ini.id, m)}

(* launch_restore_save_data, failing or not, never changes what a save file *)
(* holds: "Do not overwrite the file if it already has the right size."     *)
RestoreKeepsFiles ==
    [][(pc \in {"setid", "prepare", "load", "closefile", "ini", "write"}) =>
         \A g \in Games : \A m \in Needs[g] : Prepared(g, m)' = Prepared(g, m)]_vars

Resting == pc \in {"menu", "confirm", "game", "foreign", "halted"}

(* Once the power stays on, the firmware comes to rest: a backup or a       *)
(* restore ends whatever fails, and the console is usable again.            *)
ComesToRest == <>[][~(PowerCycle \/ SoftReset \/ FactoryReset)]_vars => []<>Resting

(* The save data functions keep the promise of SaveVault: the save on the   *)
(* card is what launch_restore_save_data would give the game.               *)
Saves == {s \in Games \X Media : s[2] \in Needs[s[1]]}
SaveOwner(s) == s[1]
Vault == INSTANCE SaveVault WITH
            Slots   <- Saves,
            Owner   <- SaveOwner,
            Blank   <- Fill,
            home    <- [s \in Saves |-> Prepared(s[1], s[2])],
            live    <- [s \in Saves |-> latest[s[1]][s[2]]],
            excused <- told \cap Saves,
            open    <- pc = "menu",
            wild    <- holes # {}

ImplementsVault == Vault!Spec

=============================================================================
