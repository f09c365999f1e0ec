--------------------------- MODULE CartridgeProofs ---------------------------
(*****************************************************************************)
(* Theorems about the firmware's work on the cartridge: AthenaOS's files in  *)
(* SRAM, the update of the MCU, the status that is polled; and, with those of*)
(* AthenaRomProofs and BootstubProofs, about all of it in Cartridge.         *)
(*****************************************************************************)
EXTENDS Cartridge, TLAPS

OwnData(p) == \A f \in Names : data[f].by \in {p, None}

(* The three signs by which a boot takes what lies in SRAM for p's files.   *)
Matches == ini \in Progs /\ mcu = ini /\ version

(* Signs that match are of the program's own data, and they only match from *)
(* the start of AthenaOS until the files are stored.                        *)
MatchInv ==
    Matches /\ pc \notin {"id", "jump"} =>
        /\ pc \notin {"list", "menu", "create", "close", "stub"}
        /\ OwnData(ini)

(* What is launched is what SAVE.INI and then the save ID name; what is     *)
(* stored is what they vouch for.                                           *)
LaunchInv ==
    /\ pc \in {"id", "jump", "stub", "run"} => ini = prog
    /\ pc \in {"jump", "stub", "run"} => mcu = prog
    /\ pc \in {"files", "write"} => Matches

(* As long as nothing has failed, an MCU that may has no ID without its     *)
(* SAVE.INI, but between the two steps that remove them.                    *)
IdInv ==
    "mcu" \in Faults /\ faults = 0 =>
        /\ ini = None => mcu = None \/ pc = "clear"
        /\ pc = "clear" => ini = None
        /\ pc \in {"list", "menu", "create", "close", "id"} => mcu = None

OwnInv == FilesOwn /\ MatchInv /\ LaunchInv /\ IdInv

(* A backup that works on a file has a program's SAVE.INI.                  *)
TurnInv ==
    /\ pc = "entry" => ini # None
    /\ pc \in {"files", "write"} => ini \in Progs

TypeInv == TypeOK /\ TurnInv
IInv == TypeInv /\ OwnInv

-----------------------------------------------------------------------------
(* version is the only Boolean.                                             *)
Others ==
    /\ pc \in Steps /\ prog \in Progs /\ file \in Names /\ todo \subseteq Names
    /\ ini \in Progs \cup {None, Cut} /\ mcu \in Progs \cup {None}
    /\ dir \subseteq Names
    /\ data \in [Names -> Content]
    /\ ram0 \in [Progs -> [Names -> Content]]
    /\ left \in [by : Progs \cup {None}, data : [Names -> Content]]
    /\ faults \in 0..MaxFaults

LEMMA Types == TypeOK <=> Others /\ version \in BOOLEAN
BY Zenon DEF TypeOK, Others

LEMMA Contents ==
    /\ Empty \in Content /\ Listing \in Content
    /\ [f \in Names |-> Listing] \in [Names -> Content]
    /\ [f \in Names |-> Empty] \in [Names -> Content]
BY BoundAssumption DEF Empty, Listing, Content

LEMMA VersionStep ==
    ASSUME version \in BOOLEAN, [Next]_vars PROVE version' \in BOOLEAN
<1>1. CASE ClearVersion
  BY <1>1, Zenon DEF ClearVersion
<1>2. CASE OsStart
  BY <1>2, Zenon DEF OsStart
<1>3. CASE PowerCycle
  BY <1>3, Zenon DEF PowerCycle
<1>4. CASE UNCHANGED version
  BY <1>4, Zenon
<1>5. UNCHANGED vars \/ Boot \/ BackupEntry \/ BackupOpenFile \/ BackupStoreFile \/ BackupUnlinkIni
      \/ BackupClearId \/ ListDirectory \/ CreateSaveIni \/ CloseSaveIni \/ SetSaveId \/ Bootstub
      \/ BuildImage \/ ProgramWrites => UNCHANGED version
  BY Zenon DEF vars, Boot, BackupEntry, BackupOpenFile, BackupStoreFile, BackupUnlinkIni,
       BackupClearId, ListDirectory, CreateSaveIni, CloseSaveIni, SetSaveId, Bootstub,
       BuildImage, ProgramWrites
<1> QED
  BY <1>1, <1>2, <1>3, <1>4, <1>5, Zenon DEF Next, Firmware

(* A file's place on the card.                                              *)
LEMMA FileWrite ==
    ASSUME ram0 \in [Progs -> [Names -> Content]],
           NEW p \in Progs, NEW f \in Names, NEW c \in Content,
           ram0' = [ram0 EXCEPT ![p][f] = c]
    PROVE  /\ ram0' \in [Progs -> [Names -> Content]]
           /\ \A q \in Progs : \A g \in Names :
                ram0'[q][g] = IF q = p /\ g = f THEN c ELSE ram0[q][g]
OBVIOUS

LEMMA OthersStep ==
    ASSUME Others, TurnInv, [Next]_vars PROVE Others'
<1> USE ProgAssumption, BoundAssumption, Contents
    DEF Others, Steps, Goto, Fault, NoFault, Tell, Quiet, LaunchFails
<1>1. CASE Boot
  BY <1>1 DEF Boot
<1>2. CASE BackupEntry
  BY <1>2 DEF BackupEntry
<1>3. CASE BackupOpenFile
  <2>1. ini \in Progs
    BY <1>3 DEF BackupOpenFile, TurnInv
  <2>2. CASE UNCHANGED <<file, todo, ram0>>
    BY <1>3, <2>2 DEF BackupOpenFile
  <2>3. CASE \E f \in todo : /\ file' = f /\ todo' = todo \ {f} /\ Goto("write")
                             /\ ram0' = [ram0 EXCEPT ![ini][f] = Empty]
    <3>1. PICK f \in todo : /\ file' = f /\ todo' = todo \ {f} /\ Goto("write")
                            /\ ram0' = [ram0 EXCEPT ![ini][f] = Empty]
      BY <2>3
    <3>2. ram0' \in [Progs -> [Names -> Content]]
      BY <2>1, <3>1, FileWrite
    <3>3. left' = left /\ faults' = faults
      BY <1>3, <3>1 DEF BackupOpenFile
    <3> QED
      BY <1>3, <3>1, <3>2, <3>3 DEF BackupOpenFile
  <2> QED
    BY <1>3, <2>2, <2>3 DEF BackupOpenFile
<1>4. CASE BackupStoreFile
  <2>1. ini \in Progs
    BY <1>4 DEF BackupStoreFile, TurnInv
  <2>2. data[file] \in Content
    OBVIOUS
  <2>3. ram0' \in [Progs -> [Names -> Content]]
    BY <1>4, <2>1, <2>2, FileWrite DEF BackupStoreFile
  <2> QED
    BY <1>4, <2>3 DEF BackupStoreFile
<1>5. CASE BackupUnlinkIni
  BY <1>5 DEF BackupUnlinkIni
<1>6. CASE BackupClearId
  BY <1>6 DEF BackupClearId
<1>7. CASE ListDirectory
  BY <1>7 DEF ListDirectory
<1>8. CASE CreateSaveIni
  BY <1>8 DEF CreateSaveIni
<1>9. CASE CloseSaveIni
  BY <1>9 DEF CloseSaveIni
<1>10. CASE SetSaveId
  BY <1>10 DEF SetSaveId
<1>11. CASE ClearVersion
  BY <1>11 DEF ClearVersion
<1>12. CASE Bootstub
  BY <1>12 DEF Bootstub
<1>13. CASE OsStart
  BY <1>13 DEF OsStart, Present
<1>14. CASE BuildImage
  BY <1>14 DEF BuildImage
<1>15. CASE ProgramWrites
  <2>1. PICK f \in Names :
          /\ data[f].ver < MaxVer
          /\ data' = [data EXCEPT ![f] = [by |-> prog, ver |-> data[f].ver + 1]]
          /\ dir' = dir \cup {f}
    BY <1>15 DEF ProgramWrites
  <2>2. [by |-> prog, ver |-> data[f].ver + 1] \in Content
    BY <2>1 DEF Content
  <2>3. data' \in [Names -> Content]
    BY <2>1, <2>2
  <2> QED
    BY <1>15, <2>1, <2>3 DEF ProgramWrites
<1>16. CASE PowerCycle
  BY <1>16 DEF PowerCycle
<1>17. CASE UNCHANGED vars
  BY <1>17 DEF vars
<1> QED
  BY <1>1, <1>2, <1>3, <1>4, <1>5, <1>6, <1>7, <1>8, <1>9, <1>10, <1>11, <1>12, <1>13, <1>14,
     <1>15, <1>16, <1>17 DEF Next, Firmware

LEMMA TurnStep ==
    ASSUME TypeOK, TurnInv, [Next]_vars PROVE TurnInv'
<1> USE DEF TurnInv, Goto
<1>1. CASE Boot
  BY <1>1 DEF Boot
<1>2. CASE BackupEntry
  BY <1>2, ProgAssumption DEF BackupEntry, TypeOK
<1>3. CASE BackupOpenFile \/ BackupStoreFile
  BY <1>3 DEF BackupOpenFile, BackupStoreFile
<1>4. CASE BackupUnlinkIni \/ BackupClearId \/ ListDirectory
  BY <1>4 DEF BackupUnlinkIni, BackupClearId, ListDirectory
<1>5. CASE BuildImage \/ CreateSaveIni \/ CloseSaveIni
  BY <1>5 DEF BuildImage, CreateSaveIni, CloseSaveIni, LaunchFails
<1>6. CASE SetSaveId \/ ClearVersion \/ Bootstub
  BY <1>6 DEF SetSaveId, ClearVersion, Bootstub, LaunchFails
<1>7. CASE OsStart \/ ProgramWrites
  BY <1>7 DEF OsStart, ProgramWrites
<1>8. CASE PowerCycle
  BY <1>8 DEF PowerCycle
<1>9. CASE UNCHANGED vars
  BY <1>9 DEF vars
<1> QED
  BY <1>1, <1>2, <1>3, <1>4, <1>5, <1>6, <1>7, <1>8, <1>9 DEF Next, Firmware

LEMMA TypeStep ==
    ASSUME TypeInv, [Next]_vars PROVE TypeInv'
<1>1. TurnInv'
  BY TurnStep DEF TypeInv
<1>2. Others /\ version \in BOOLEAN
  BY Types DEF TypeInv
<1>3. Others'
  BY <1>2, OthersStep DEF TypeInv
<1>4. version' \in BOOLEAN
  BY <1>2, VersionStep
<1> QED
  BY <1>1, <1>3, <1>4, Zenon DEF TypeInv, TypeOK, Others

LEMMA TypeInit == Init => TypeInv
<1> SUFFICES ASSUME Init PROVE TypeInv
  OBVIOUS
<1>1. Others
  BY Contents, ProgAssumption, BoundAssumption DEF Init, Others, Steps
<1>2. version \in BOOLEAN
  BY Zenon DEF Init
<1> QED
  BY <1>1, <1>2, Types DEF TypeInv, TurnInv, Init

(* Every variable keeps its type, whatever fails and wherever power is cut. *)
THEOREM TypeSafety == Spec => []TypeOK
<1>1. TypeInv /\ [Next]_vars => TypeInv'
  BY TypeStep
<1>2. TypeInv => TypeOK
  BY DEF TypeInv
<1> QED
  BY TypeInit, <1>1, <1>2, PTL DEF Spec

-----------------------------------------------------------------------------
(* The files.  Only two steps of the backup change them.                    *)
LEMMA FilesOwnStep ==
    ASSUME TypeInv, OwnInv, [Next]_vars PROVE FilesOwn'
<1> USE DEF TypeInv, TypeOK, OwnInv, FilesOwn
<1>1. CASE BackupOpenFile
  <2>1. CASE ram0' = ram0
    BY <2>1
  <2>2. CASE \E f \in todo : ram0' = [ram0 EXCEPT ![ini][f] = Empty]
    BY <1>1, <2>2, FileWrite, Contents DEF BackupOpenFile, TurnInv, Empty
  <2> QED
    BY <1>1, <2>1, <2>2 DEF BackupOpenFile
<1>2. CASE BackupStoreFile
  <2>1. CASE ram0' = ram0
    BY <2>1
  <2>2. CASE ram0' = [ram0 EXCEPT ![ini][file] = data[file]]
    <3>1. ini \in Progs /\ data[file] \in Content /\ data[file].by \in {ini, None}
      BY <1>2 DEF BackupStoreFile, TurnInv, LaunchInv, MatchInv, OwnData
    <3> QED
      BY <2>2, <3>1, FileWrite
  <2> QED
    BY <1>2, <2>1, <2>2 DEF BackupStoreFile
<1>3. CASE UNCHANGED ram0
  BY <1>3
<1> QED
  BY <1>1, <1>2, <1>3 DEF Next, Firmware, vars, Boot, BackupEntry, BackupUnlinkIni, BackupClearId,
     ListDirectory, CreateSaveIni, CloseSaveIni, SetSaveId, ClearVersion, Bootstub, OsStart,
     BuildImage, ProgramWrites, PowerCycle

(* A command of the MCU that fails is the first call to fail.               *)
LEMMA FirstFault ==
    ASSUME Guarded, TypeInv, Fault("mcu") PROVE "mcu" \in Faults /\ faults = 0 /\ faults' = 1
BY BoundAssumption DEF Guarded, TypeInv, TypeOK, Fault

LEMMA IdStep ==
    ASSUME Guarded, TypeInv, OwnInv, [Next]_vars PROVE IdInv'
<1> SUFFICES ASSUME "mcu" \in Faults, faults' = 0
             PROVE  /\ ini' = None => mcu' = None \/ pc' = "clear"
                    /\ pc' = "clear" => ini' = None
                    /\ pc' \in {"list", "menu", "create", "close", "id"} => mcu' = None
  BY DEF IdInv
<1>1. \A k \in FaultKinds : ~Fault(k)
  BY BoundAssumption DEF Fault, TypeInv, TypeOK
<1> USE <1>1 DEF OwnInv, IdInv, Goto, NoFault, FaultKinds
<1>2. CASE Boot
  BY <1>2 DEF Boot
<1>3. CASE BackupEntry
  BY <1>3, ProgAssumption DEF BackupEntry
<1>4. CASE BackupOpenFile \/ BackupStoreFile
  BY <1>4, ProgAssumption DEF BackupOpenFile, BackupStoreFile, TypeInv, TurnInv
<1>5. CASE BackupUnlinkIni \/ BackupClearId
  BY <1>5 DEF BackupUnlinkIni, BackupClearId
<1>6. CASE ListDirectory \/ BuildImage
  BY <1>6 DEF ListDirectory, BuildImage, LaunchFails
<1>7. CASE CreateSaveIni \/ CloseSaveIni
  BY <1>7, ProgAssumption DEF CreateSaveIni, CloseSaveIni, TypeInv, TypeOK
<1>8. CASE SetSaveId
  BY <1>8, ProgAssumption DEF SetSaveId, LaunchInv, TypeInv, TypeOK
<1>9. CASE ClearVersion \/ Bootstub \/ OsStart \/ ProgramWrites
  BY <1>9, ProgAssumption DEF ClearVersion, Bootstub, OsStart, ProgramWrites, LaunchFails, LaunchInv,
     TypeInv, TypeOK
<1>10. CASE PowerCycle
  BY <1>10 DEF PowerCycle, Guarded
<1>11. CASE UNCHANGED vars
  BY <1>11 DEF vars
<1> QED
  BY <1>2, <1>3, <1>4, <1>5, <1>6, <1>7, <1>8, <1>9, <1>10, <1>11 DEF Next, Firmware

LEMMA SignsStep ==
    ASSUME Guarded, TypeInv, OwnInv, [Next]_vars PROVE LaunchInv' /\ MatchInv'
<1> USE FirstFault
<1> USE DEF LaunchInv, MatchInv, Matches, OwnData, Goto
<1>1. CASE Boot
  BY <1>1, ProgAssumption DEF Boot, OwnInv, Guarded, Fault
<1>2. CASE BackupEntry
  BY <1>2, ProgAssumption DEF BackupEntry, OwnInv, TypeInv, TypeOK, TurnInv
<1>3. CASE BackupOpenFile \/ BackupStoreFile
  BY <1>3 DEF BackupOpenFile, BackupStoreFile, OwnInv
<1>4. CASE BackupUnlinkIni
  BY <1>4, ProgAssumption DEF BackupUnlinkIni, OwnInv
<1>5. CASE BackupClearId
  BY <1>5, ProgAssumption DEF BackupClearId, OwnInv, IdInv
<1>6. CASE ListDirectory
  BY <1>6 DEF ListDirectory, OwnInv
<1>7. CASE BuildImage
  BY <1>7 DEF BuildImage, LaunchFails, OwnInv
<1>8. CASE CreateSaveIni \/ CloseSaveIni
  BY <1>8, ProgAssumption DEF CreateSaveIni, CloseSaveIni, LaunchFails, OwnInv
<1>9. CASE SetSaveId
  BY <1>9, ProgAssumption DEF SetSaveId, LaunchFails, OwnInv, IdInv, TypeInv, TypeOK
<1>10. CASE ClearVersion
  BY <1>10 DEF ClearVersion, OwnInv
<1>11. CASE Bootstub
  BY <1>11 DEF Bootstub, LaunchFails, OwnInv
<1>12. CASE OsStart
  BY <1>12 DEF OsStart, OwnInv, FilesOwn, TypeInv, TypeOK
<1>13. CASE ProgramWrites
  BY <1>13 DEF ProgramWrites, OwnInv, TypeInv, TypeOK
<1>14. CASE PowerCycle
  BY <1>14, ProgAssumption DEF PowerCycle, OwnInv, Guarded
<1>15. CASE UNCHANGED vars
  BY <1>15 DEF vars, OwnInv
<1> QED
  BY <1>1, <1>2, <1>3, <1>4, <1>5, <1>6, <1>7, <1>8, <1>9, <1>10, <1>11, <1>12, <1>13, <1>14,
     <1>15 DEF Next, Firmware

LEMMA OwnInit == Init => OwnInv
BY ProgAssumption DEF Init, OwnInv, FilesOwn, MatchInv, LaunchInv, IdInv, Matches, Empty

(* launch_athena.c:188, "If OS version is not set, assume ram0 was not      *)
(* initialized": SAVE.INI, save ID and OS version together vouch for what   *)
(* is stored.  For any number of failures of the card and of the battery,   *)
(* a program's files hold only what that program wrote.                     *)
THEOREM FilesKeepTheirOwner ==
    ASSUME Guarded PROVE Spec => []FilesOwn
<1>1. Init => IInv
  BY TypeInit, OwnInit DEF IInv
<1>2. IInv /\ [Next]_vars => IInv'
  BY TypeStep, FilesOwnStep, SignsStep, IdStep DEF IInv, OwnInv
<1>3. IInv => FilesOwn
  BY DEF IInv, OwnInv
<1> QED
  BY <1>1, <1>2, <1>3, PTL DEF Spec

-----------------------------------------------------------------------------
(* What a program left *)

(* The card has what the program left in a file.                            *)
Stored(f) == left.data[f] # Empty => ram0[left.by][f] = left.data[f]
AllStored == \A f \in Names : Stored(f)

(* What the last program left is on the card, or in SRAM under signs that   *)
(* match, or in both as far as a backup has come; where the signs of a      *)
(* program's SAVE.INI do not match, the next backup will say so.            *)
KeepInv ==
    left.by # None =>
        /\ pc \in {"unlink", "clear", "list", "menu", "create", "close", "id", "jump", "stub"} =>
              AllStored
        /\ pc \in {"boot", "entry"} /\ ini \notin Progs => AllStored
        /\ Matches /\ pc \notin {"id", "jump"} =>
              /\ left.by = ini /\ data = left.data
              /\ \A f \in Names : data[f] # Empty => f \in dir
        /\ pc \in {"files", "write"} =>
              \A f \in Names \ todo : pc = "files" \/ f # file => Stored(f)

(* A program that runs is the last one to have left anything.               *)
LeftInv == pc = "run" /\ version => left.by = prog

(* A step that changes neither keeps what is stored.                        *)
LEMMA StoredStays ==
    ASSUME UNCHANGED <<left, ram0>>
    PROVE  /\ \A f \in Names : Stored(f) => Stored(f)'
           /\ AllStored => AllStored'
BY DEF Stored, AllStored

(* A file of the program whose files are being stored.                      *)
LEMMA StoreFileKeeps ==
    ASSUME TypeInv, OwnInv, KeepInv, BackupOpenFile \/ BackupStoreFile
    PROVE  KeepInv'
<1>. SUFFICES ASSUME left'.by # None PROVE KeepInv'
  BY DEF KeepInv
<1>1. /\ pc \in {"files", "write"} /\ Matches /\ ini \in Progs
      /\ UNCHANGED <<ini, mcu, version, dir, data>>
      /\ ram0 \in [Progs -> [Names -> Content]] /\ data \in [Names -> Content]
      /\ file \in Names /\ todo \subseteq Names
  BY DEF BackupOpenFile, BackupStoreFile, OwnInv, LaunchInv, Matches, TypeInv, TypeOK
<1>2. UNCHANGED left /\ left.by # None
  BY DEF BackupOpenFile, BackupStoreFile, Tell, Quiet
<1>3. left.by = ini /\ data = left.data /\ \A f \in Names : data[f] # Empty => f \in dir
  BY <1>1, <1>2 DEF KeepInv
<1>4. Matches'
  BY <1>1 DEF Matches
<1>5. CASE BackupOpenFile
  <2>1. pc = "files" /\ \A f \in Names \ todo : Stored(f)
    BY <1>2, <1>5 DEF KeepInv, BackupOpenFile
  <2>2. CASE todo = {} /\ pc' = "unlink" /\ UNCHANGED ram0
    BY <1>1, <1>2, <1>3, <2>1, <2>2, StoredStays DEF KeepInv, AllStored
  <2>3. CASE \E f \in todo : /\ file' = f /\ todo' = todo \ {f} /\ pc' = "write"
                             /\ ram0' = [ram0 EXCEPT ![ini][f] = Empty]
    <3>1. PICK f \in todo : /\ file' = f /\ todo' = todo \ {f} /\ pc' = "write"
                            /\ ram0' = [ram0 EXCEPT ![ini][f] = Empty]
      BY <2>3
    <3>2. \A g \in Names \ todo' : g # f => Stored(g)'
      <4>1. \A g \in Names : g # f => ram0'[ini][g] = ram0[ini][g]
        BY <1>1, <3>1, Contents, FileWrite
      <4>. QED
        BY <1>2, <1>3, <2>1, <3>1, <4>1 DEF Stored
    <3>. QED
      BY <1>1, <1>2, <1>3, <3>1, <3>2 DEF KeepInv
  <2>. QED
    BY <1>2, <1>5, <2>2, <2>3 DEF BackupOpenFile, Goto, Tell
<1>6. CASE BackupStoreFile
  <2>1. /\ pc = "write" /\ UNCHANGED <<file, todo>> /\ pc' = "files"
        /\ ram0' = [ram0 EXCEPT ![ini][file] = data[file]]
    BY <1>2, <1>6 DEF BackupStoreFile, Goto, Tell
  <2>2. \A g \in Names : ram0'[ini][g] = IF g = file THEN data[file] ELSE ram0[ini][g]
    BY <1>1, <2>1, FileWrite
  <2>3. \A g \in Names \ todo : g # file => Stored(g)
    BY <1>2, <2>1 DEF KeepInv
  <2>4. \A g \in Names \ todo : Stored(g)'
    BY <1>2, <1>3, <2>2, <2>3 DEF Stored
  <2>. QED
    BY <1>1, <1>2, <1>3, <2>1, <2>4 DEF KeepInv
<1>. QED
  BY <1>5, <1>6

(* AthenaOS sets its version when it starts, and nobody else does.          *)
LEMMA LeftStep ==
    ASSUME TypeInv, OwnInv, LeftInv, [Next]_vars PROVE LeftInv'
<1> USE DEF LeftInv, Goto
<1>1. CASE Bootstub
  <2>1. pc = "stub" => ~version
    BY Zenon DEF OwnInv, LaunchInv, MatchInv, Matches, TypeInv, TypeOK
  <2>. QED
    BY <1>1, <2>1 DEF Bootstub, LaunchFails
<1>2. CASE OsStart
  BY <1>2 DEF OsStart
<1>3. CASE ProgramWrites
  BY <1>3 DEF ProgramWrites
<1>4. CASE UNCHANGED vars
  BY <1>4 DEF vars
<1>. QED
  BY <1>1, <1>2, <1>3, <1>4 DEF Next, Firmware, Boot, BackupEntry, BackupOpenFile,
     BackupStoreFile, BackupUnlinkIni, BackupClearId, ListDirectory, BuildImage, CreateSaveIni,
     CloseSaveIni, SetSaveId, ClearVersion, LaunchFails, PowerCycle

(* Every step, action by action: what is no longer in SRAM is on the card.  *)
LEMMA KeepStep ==
    ASSUME Guarded, TypeInv, OwnInv, LeftInv, KeepInv, [Next]_vars PROVE KeepInv'
<1> USE DEF Goto, Quiet
<1>. SUFFICES ASSUME left'.by # None PROVE KeepInv'
  BY DEF KeepInv
<1>1. CASE Boot
  <2>1. /\ UNCHANGED <<left, ram0, ini, mcu, version, dir, data>> /\ pc = "boot"
        /\ \/ pc' = "entry"
           \/ pc' = "list" /\ ini = None
    BY <1>1 DEF Boot, Tell
  <2>. QED
    BY <2>1, StoredStays, ProgAssumption DEF KeepInv, Matches
<1>2. CASE BackupEntry
  <2>1. /\ UNCHANGED <<left, ram0, ini, mcu, version, dir, data>> /\ pc = "entry"
        /\ \/ pc' = "unlink" /\ ini = Cut
           \/ pc' = "files" /\ todo' = dir /\ ini = mcu /\ version
    BY <1>2 DEF BackupEntry, Tell
  <2>2. CASE pc' = "unlink" /\ ini = Cut
    BY <2>1, <2>2, StoredStays, ProgAssumption DEF KeepInv, Matches
  <2>3. CASE pc' = "files" /\ todo' = dir /\ ini = mcu /\ version
    <3>1. Matches
      BY <1>2, <2>3, ProgAssumption DEF Matches, TypeInv, TypeOK, TurnInv, BackupEntry
    <3>2. \A f \in Names \ dir : Stored(f)'
      BY <2>1, <3>1 DEF KeepInv, Stored
    <3>. QED
      BY <2>1, <2>3, <3>1, <3>2 DEF KeepInv, Matches
  <2>. QED
    BY <2>1, <2>2, <2>3
<1>3. CASE BackupOpenFile \/ BackupStoreFile
  BY <1>3, StoreFileKeeps
<1>4. CASE BackupUnlinkIni
  BY <1>4, StoredStays, ProgAssumption DEF BackupUnlinkIni, KeepInv, Matches
<1>5. CASE BackupClearId
  BY <1>5, StoredStays, FirstFault, ProgAssumption DEF BackupClearId, KeepInv, OwnInv, IdInv, Matches
<1>6. CASE ListDirectory
  BY <1>6, StoredStays DEF ListDirectory, KeepInv, OwnInv, MatchInv, Matches
<1>7. CASE BuildImage \/ CreateSaveIni \/ CloseSaveIni
  <2>1. /\ UNCHANGED <<left, ram0, mcu, version, dir, data>> /\ pc \in {"menu", "create", "close"}
        /\ pc' \in {"create", "close", "id"} /\ (pc' # "id" => ini' \in {ini, Cut})
    BY <1>7 DEF BuildImage, CreateSaveIni, CloseSaveIni, LaunchFails, Tell
  <2>2. pc' # "id" => ~Matches'
    BY <2>1, ProgAssumption DEF OwnInv, MatchInv, Matches
  <2>. QED
    BY <2>1, <2>2, StoredStays DEF KeepInv
<1>8. CASE SetSaveId \/ ClearVersion \/ Bootstub
  <2>1. /\ UNCHANGED <<left, ram0>> /\ pc \in {"id", "jump", "stub"}
        /\ pc' \in {"jump", "stub", "run"}
        /\ \/ pc' = "jump" \/ ~version'
           \/ pc = "stub" /\ UNCHANGED <<ini, mcu, version>>
    BY <1>8 DEF SetSaveId, ClearVersion, Bootstub, LaunchFails, Tell
  <2>2. pc' # "jump" => ~Matches'
    BY <2>1 DEF OwnInv, MatchInv, Matches
  <2>. QED
    BY <2>1, <2>2, StoredStays DEF KeepInv
<1>9. CASE OsStart
  <2>1. /\ pc = "run" /\ UNCHANGED <<pc, ram0, ini>> /\ dir' = Present(prog) /\ data' = ram0[prog]
        /\ left' = [by |-> prog, data |-> ram0[prog]]
    BY <1>9 DEF OsStart
  <2>2. ini = prog
    BY <2>1 DEF OwnInv, LaunchInv
  <2>. QED
    BY <2>1, <2>2 DEF KeepInv, Present
<1>10. CASE ProgramWrites
  <2>1. /\ pc = "run" /\ UNCHANGED <<pc, ram0, ini, mcu, version>> /\ version
    BY <1>10 DEF ProgramWrites
  <2>2. PICK f \in Names : /\ data' = [data EXCEPT ![f] = [by |-> prog, ver |-> data[f].ver + 1]]
                           /\ dir' = dir \cup {f}
    BY <1>10 DEF ProgramWrites
  <2>3. left' = [by |-> prog, data |-> data'] /\ ini = prog /\ Matches
    BY <1>10, <2>1 DEF ProgramWrites, OwnInv, LaunchInv, Matches, TypeInv, TypeOK
  <2>4. \A g \in Names : data'[g] # Empty => g \in dir'
    <3>1. \A g \in Names : g # f => data'[g] = data[g]
      BY <2>2
    <3>2. left.by = ini /\ \A g \in Names : data[g] # Empty => g \in dir
      BY <2>1, <2>3, ProgAssumption DEF KeepInv, LeftInv, TypeInv, TypeOK
    <3>. QED
      BY <2>2, <3>1, <3>2
  <2>. QED
    BY <2>1, <2>3, <2>4 DEF KeepInv
<1>11. CASE PowerCycle
  <2>1. /\ UNCHANGED <<left, ram0, ini>> /\ pc' = "boot" /\ pc \notin {"id", "jump"}
        /\ \/ UNCHANGED <<mcu, version, dir, data>>
           \/ mcu' = None /\ ini = prog /\ pc = "run"
    BY <1>11 DEF PowerCycle, Tell, Guarded
  <2>2. pc = "run" => ini \in Progs
    BY DEF OwnInv, LaunchInv, TypeInv, TypeOK
  <2>3. pc \in Steps /\ (pc \in {"files", "write"} => ini \in Progs)
    BY DEF TypeInv, TypeOK, TurnInv
  <2>4. Matches' => Matches /\ UNCHANGED <<mcu, version, dir, data>>
    BY <2>1, ProgAssumption DEF Matches
  <2>. QED
    BY <2>1, <2>2, <2>3, <2>4, StoredStays DEF KeepInv, Steps
<1>12. CASE UNCHANGED vars
  <2>1. UNCHANGED <<pc, file, todo, ini, mcu, version, dir, data, left, ram0>>
    BY <1>12 DEF vars
  <2>. QED
    BY <2>1, StoredStays DEF KeepInv, Matches
<1> QED
  BY <1>1, <1>2, <1>3, <1>4, <1>5, <1>6, <1>7, <1>8, <1>9, <1>10, <1>11, <1>12 DEF Next, Firmware

(* changelog.md:102, "Saving /ram0 contents when loading .fx programs       *)
(* directly": in the menu, what the last program left is on the card, or an *)
(* error was shown, for any number of failures of the card and the battery. *)
THEOREM FilesAreKept ==
    ASSUME Guarded PROVE Spec => []NoSilentLoss
<1>1. Init => IInv /\ LeftInv /\ KeepInv
  BY TypeInit, OwnInit DEF IInv, Init, LeftInv, KeepInv
<1>2. IInv /\ LeftInv /\ KeepInv /\ [Next]_vars => (IInv /\ LeftInv /\ KeepInv)'
  BY TypeStep, FilesOwnStep, SignsStep, IdStep, LeftStep, KeepStep DEF IInv, OwnInv
<1>3. KeepInv => NoSilentLoss
  BY DEF KeepInv, NoSilentLoss, AllStored, Stored
<1> QED
  BY <1>1, <1>2, <1>3, PTL DEF Spec

-----------------------------------------------------------------------------
(* The firmware update *)

Updating == {"compare", "erasefooter", "footer", "eraseblob", "chunk", "jump"}

(* Only a MCU.BIN with the expected header gets as far as the MCU.          *)
HeaderInv ==
    /\ mcuPc \in Updating => bin \in McuOf.Versions
    /\ mcuPc = "reset" /\ flash => bin \in McuOf.Versions

(* A footer stands for the whole of its firmware, unless the update that    *)
(* wrote it has not ended.                                                  *)
FooterInv == footer \in McuOf.Versions /\ torn # footer => Mcu!Whole(footer)

(* From the footer to the last chunk, the update is the one of MCU.BIN.     *)
UpdateInv ==
    /\ mcuPc \in {"eraseblob", "chunk"} => torn = bin /\ footer = bin
    /\ mcuPc = "chunk" => \A c \in Mcu!Chunk : c < next => blob[c] = bin
    /\ mcuPc = "jump" => footer = bin

McuInv == Mcu!TypeOK /\ HeaderInv /\ FooterInv /\ UpdateInv

-----------------------------------------------------------------------------
(* The Boolean variables, and the others.                                   *)
McuBooleans == flash \in BOOLEAN /\ native \in BOOLEAN /\ told \in BOOLEAN
McuOthers ==
    /\ mcuPc \in Mcu!Steps /\ bin \in McuOf.Versions \cup {McuOf.NoVersion, McuOf.Bad}
    /\ footer \in McuOf.Versions \cup {McuOf.NoVersion}
    /\ blob \in [Mcu!Chunk -> McuOf.Versions \cup {McuOf.NoVersion}]
    /\ next \in 1..(McuOf.Chunks + 1)
    /\ result \in {"ok", "file", "corrupt", "comm"}
    /\ torn \in McuOf.Versions \cup {McuOf.NoVersion}
    /\ trouble \in 0..McuOf.MaxTrouble

LEMMA McuTypes == Mcu!TypeOK <=> McuBooleans /\ McuOthers
BY Zenon DEF Mcu!TypeOK, McuBooleans, McuOthers

LEMMA McuInit ==
    ASSUME Mcu!VersionAssumption, Mcu!BoundAssumption, Mcu!Init PROVE McuInv
<1>1. McuBooleans
  BY Zenon DEF Mcu!Init, McuBooleans
<1>2. McuOthers
  BY DEF Mcu!BoundAssumption, Mcu!Init, McuOthers, Mcu!Steps, Mcu!Chunk
<1>3. FooterInv
  BY DEF Mcu!Init, FooterInv, Mcu!Whole
<1> QED
  BY <1>1, <1>2, <1>3, McuTypes DEF McuInv, HeaderInv, UpdateInv, Updating, Mcu!Init

LEMMA McuBooleansStep ==
    ASSUME McuBooleans, [Mcu!Next]_(Mcu!vars) PROVE McuBooleans'
<1> USE DEF McuBooleans
<1>1. CASE Mcu!OpenBin
  BY <1>1, Zenon DEF Mcu!OpenBin
<1>2. CASE Mcu!EnterNative
  BY <1>2, Zenon DEF Mcu!EnterNative
<1>3. CASE Mcu!StatusInit
  <2>1. told' = TRUE \/ told' = FALSE
    BY <1>3 DEF Mcu!StatusInit
  <2> QED
    BY <1>3, <2>1, Zenon DEF Mcu!StatusInit
<1>4. CASE Mcu!PowerCycle
  BY <1>4, Zenon DEF Mcu!PowerCycle
<1>5. CASE UNCHANGED <<flash, native, told>>
  BY <1>5, Zenon
<1>6. Mcu!Reset \/ Mcu!CompareFooter \/ Mcu!EraseFooter \/ Mcu!WriteFooter \/ Mcu!EraseBlob \/ Mcu!WriteChunk \/ Mcu!Jump
      \/ UNCHANGED Mcu!vars => UNCHANGED <<flash, native, told>>
  BY Zenon DEF Mcu!Reset, Mcu!CompareFooter, Mcu!EraseFooter, Mcu!WriteFooter, Mcu!EraseBlob, Mcu!WriteChunk, Mcu!Jump, Mcu!vars
<1> QED
  BY <1>1, <1>2, <1>3, <1>4, <1>5, <1>6, Zenon DEF Mcu!Next, Mcu!Firmware

LEMMA McuOthersStep ==
    ASSUME Mcu!BoundAssumption, McuOthers, HeaderInv, [Mcu!Next]_(Mcu!vars) PROVE McuOthers'
<1> USE DEF Mcu!BoundAssumption, McuOthers, HeaderInv, Updating, Mcu!Steps, Mcu!Goto, Mcu!Return, Mcu!Works, Mcu!Fails
<1>1. CASE Mcu!OpenBin
  BY <1>1 DEF Mcu!OpenBin
<1>2. CASE Mcu!Reset
  BY <1>2 DEF Mcu!Reset
<1>3. CASE Mcu!CompareFooter
  BY <1>3 DEF Mcu!CompareFooter
<1>4. CASE Mcu!EraseFooter
  BY <1>4 DEF Mcu!EraseFooter
<1>5. CASE Mcu!WriteFooter
  BY <1>5 DEF Mcu!WriteFooter
<1>6. CASE Mcu!EraseBlob
  BY <1>6 DEF Mcu!EraseBlob, Mcu!Chunk, Mcu!Erased
<1>7. CASE Mcu!WriteChunk
  BY <1>7, SMTT(20) DEF Mcu!WriteChunk, Mcu!Chunk
<1>8. CASE Mcu!Jump
  BY <1>8 DEF Mcu!Jump
<1>9. CASE Mcu!EnterNative
  BY <1>9 DEF Mcu!EnterNative
<1>10. CASE Mcu!StatusInit
  BY <1>10 DEF Mcu!StatusInit
<1>11. CASE Mcu!PowerCycle
  BY <1>11 DEF Mcu!PowerCycle
<1>12. CASE UNCHANGED Mcu!vars
  BY <1>12 DEF Mcu!vars
<1> QED
  BY <1>1, <1>2, <1>3, <1>4, <1>5, <1>6, <1>7, <1>8, <1>9, <1>10, <1>11, <1>12
     DEF Mcu!Next, Mcu!Firmware

LEMMA McuTypeStep ==
    ASSUME Mcu!VersionAssumption, Mcu!BoundAssumption, McuInv, [Mcu!Next]_(Mcu!vars) PROVE Mcu!TypeOK'
<1>1. McuBooleans /\ McuOthers
  BY McuTypes DEF McuInv
<1>2. McuBooleans'
  BY <1>1, McuBooleansStep
<1>3. McuOthers'
  BY <1>1, McuOthersStep DEF McuInv
<1> QED
  BY <1>2, <1>3, Zenon DEF Mcu!TypeOK, McuBooleans, McuOthers

(* What the flash holds and what is said of it change in four steps only.   *)
LEMMA FlashKept ==
    ASSUME FooterInv, UNCHANGED <<footer, blob, torn>> PROVE FooterInv'
BY DEF FooterInv, Mcu!Whole

LEMMA UpdateSteps ==
    ASSUME Mcu!VersionAssumption, Mcu!BoundAssumption, McuInv, Mcu!TypeOK',
           Mcu!EraseFooter \/ Mcu!WriteFooter \/ Mcu!EraseBlob \/ Mcu!WriteChunk
    PROVE  McuInv'
<1> USE DEF McuInv, HeaderInv, UpdateInv, Updating, Mcu!Goto, Mcu!Return
<1>1. ASSUME Mcu!EraseFooter PROVE McuInv'
  <2>1. FooterInv'
    BY <1>1 DEF Mcu!EraseFooter, FooterInv, Mcu!Whole, Mcu!VersionAssumption
  <2> QED
    BY <1>1, <2>1 DEF Mcu!EraseFooter
<1>2. ASSUME Mcu!WriteFooter PROVE McuInv'
  <2>1. FooterInv'
    BY <1>2 DEF Mcu!WriteFooter, FooterInv, Mcu!Whole
  <2> QED
    BY <1>2, <2>1 DEF Mcu!WriteFooter
<1>3. ASSUME Mcu!EraseBlob PROVE McuInv'
  <2>1. FooterInv'
    BY <1>3 DEF Mcu!EraseBlob, FooterInv
  <2>2. next' = 1 /\ mcuPc' = "chunk" => \A c \in Mcu!Chunk : c < next' => blob'[c] = bin'
    BY DEF Mcu!Chunk
  <2> QED
    BY <1>3, <2>1, <2>2 DEF Mcu!EraseBlob
<1>4. ASSUME Mcu!WriteChunk PROVE McuInv'
  <2>1. CASE /\ next <= McuOf.Chunks /\ blob' = [blob EXCEPT ![next] = bin] /\ next' = next + 1
             /\ Mcu!Goto("chunk") /\ UNCHANGED <<bin, flash, footer, torn>>
    <3>1. \A c \in Mcu!Chunk : c < next' => blob'[c] = bin'
      BY <1>4, <2>1 DEF Mcu!WriteChunk, Mcu!TypeOK, Mcu!Chunk, Mcu!BoundAssumption
    <3>2. FooterInv'
      BY <1>4, <2>1 DEF Mcu!WriteChunk, FooterInv
    <3> QED
      BY <1>4, <2>1, <3>1, <3>2 DEF Mcu!WriteChunk
  <2>2. CASE /\ next > McuOf.Chunks /\ torn' = McuOf.NoVersion /\ Mcu!Goto("jump")
             /\ UNCHANGED <<bin, flash, footer, blob>>
    <3>1. Mcu!Whole(footer)'
      BY <1>4, <2>2 DEF Mcu!WriteChunk, Mcu!Whole, Mcu!Chunk, Mcu!TypeOK, Mcu!BoundAssumption
    <3> QED
      BY <1>4, <2>2, <3>1 DEF Mcu!WriteChunk, FooterInv
  <2>3. CASE mcuPc' = "status" /\ UNCHANGED <<bin, flash, footer, blob, torn>>
    BY <2>3, FlashKept
  <2> QED
    BY <1>4, <2>1, <2>2, <2>3 DEF Mcu!WriteChunk
<1> QED
  BY <1>1, <1>2, <1>3, <1>4

LEMMA McuInvStep ==
    ASSUME Mcu!VersionAssumption, Mcu!BoundAssumption, McuInv, [Mcu!Next]_(Mcu!vars) PROVE McuInv'
<1>1. Mcu!TypeOK'
  BY McuTypeStep
<1> USE DEF McuInv, HeaderInv, UpdateInv, Updating, Mcu!Goto, Mcu!Return
<1>2. ASSUME Mcu!OpenBin PROVE McuInv'
  BY <1>1, <1>2, FlashKept DEF Mcu!OpenBin, Mcu!VersionAssumption
<1>3. ASSUME Mcu!Reset PROVE McuInv'
  BY <1>1, <1>3, FlashKept DEF Mcu!Reset
<1>4. ASSUME Mcu!CompareFooter PROVE McuInv'
  BY <1>1, <1>4, FlashKept DEF Mcu!CompareFooter
<1>5. ASSUME Mcu!Jump \/ Mcu!EnterNative \/ Mcu!StatusInit PROVE McuInv'
  BY <1>1, <1>5, FlashKept DEF Mcu!Jump, Mcu!EnterNative, Mcu!StatusInit
<1>6. ASSUME Mcu!PowerCycle PROVE McuInv'
  BY <1>1, <1>6, FlashKept DEF Mcu!PowerCycle
<1>7. ASSUME UNCHANGED Mcu!vars PROVE McuInv'
  BY <1>1, <1>7, FlashKept DEF Mcu!vars
<1> QED
  BY <1>1, <1>2, <1>3, <1>4, <1>5, <1>6, <1>7, UpdateSteps DEF Mcu!Next, Mcu!Firmware

(* mcu.c:44-115: whatever calls fail and whenever power is lost, the footer *)
(* in the MCU's flash stands for the whole of its firmware, but for one     *)
(* whose update has stopped behind its footer.                              *)
THEOREM FooterVouches ==
    ASSUME Mcu!VersionAssumption, Mcu!BoundAssumption PROVE Mcu!Spec => [](Mcu!TypeOK /\ FooterInv)
<1>1. Mcu!Init => McuInv
  BY McuInit
<1>2. McuInv /\ [Mcu!Next]_(Mcu!vars) => McuInv'
  BY McuInvStep
<1>3. McuInv => Mcu!TypeOK /\ FooterInv
  BY DEF McuInv
<1> QED
  BY <1>1, <1>2, <1>3, PTL DEF Mcu!Spec

(* mcu.c:80, "Compare MCU footer with MCU.BIN copy": the MCU jumps into     *)
(* its flash only when all of it is the firmware that MCU.BIN holds, but    *)
(* for an update to that very firmware which stopped after its footer.      *)
THEOREM JumpsWhereItShould ==
    ASSUME Mcu!VersionAssumption, Mcu!BoundAssumption PROVE Mcu!Spec => []Mcu!JumpsIntoFirmware
<1>1. Mcu!Init => McuInv
  BY McuInit
<1>2. McuInv /\ [Mcu!Next]_(Mcu!vars) => McuInv'
  BY McuInvStep
<1>3. McuInv => Mcu!JumpsIntoFirmware
  BY DEF McuInv, HeaderInv, FooterInv, UpdateInv, Updating, Mcu!JumpsIntoFirmware
<1> QED
  BY <1>1, <1>2, <1>3, PTL DEF Mcu!Spec

-----------------------------------------------------------------------------
(* The status *)

(* A toggle is staged by the last readout, and in automatic mode only.      *)
StagedInv ==
    /\ asked \in 0..2
    /\ staged => auto
    /\ staged => asked \in 1..2

TakesTwo == auto /\ auto' /\ ~upright /\ upright' => asked' = 2

-----------------------------------------------------------------------------
LEMMA Counts ==
    /\ \A n \in 0..2 : Cart!Cap(n + 1) \in 0..2 /\ Cart!Cap(n + 1) \in 1..2
    /\ \A n \in 1..2 : Cart!Cap(n + 1) = 2
    /\ 0 \in 0..2 /\ 2 \in 0..2
BY DEF Cart!Cap

LEMMA ReadoutStep ==
    ASSUME StagedInv, auto, auto' = auto, NEW asks \in BOOLEAN, Cart!Readout(asks)
    PROVE  StagedInv' /\ TakesTwo
<1>1. CASE asks /\ staged
  <2>1. ~staged' /\ asked' = Cart!Cap(asked + 1)
    BY <1>1, Zenon DEF Cart!Readout
  <2>2. asked' = 2
    BY <1>1, <2>1, Counts, Zenon DEF StagedInv
  <2> QED
    BY <2>1, <2>2, Counts, Zenon DEF StagedInv, TakesTwo
<1>2. CASE ~asks
  <2>1. upright' = upright /\ ~staged' /\ asked' = 0
    BY <1>2, Zenon DEF Cart!Readout
  <2> QED
    BY <2>1, Counts, Zenon DEF StagedInv, TakesTwo
<1>3. CASE asks /\ ~staged
  <2>1. upright' = upright /\ asked' = Cart!Cap(asked + 1)
    BY <1>3, Zenon DEF Cart!Readout
  <2> QED
    BY <2>1, Counts, Zenon DEF StagedInv, TakesTwo
<1> QED
  BY <1>1, <1>2, <1>3, Zenon

LEMMA StatusStep ==
    ASSUME StagedInv, [Cart!Next]_(Cart!vars) PROVE StagedInv' /\ TakesTwo
<1>1. CASE UNCHANGED <<auto, upright, staged, asked>>
  BY <1>1, Zenon DEF StagedInv, TakesTwo
<1>2. CASE Cart!InfoUpdate /\ UNCHANGED auto
  <2>1. CASE auto /\ \E asks \in BOOLEAN : Cart!Readout(asks)
    BY <1>2, <2>1, ReadoutStep, Zenon
  <2>2. CASE Cart!ReadoutFails
    BY <1>2, <2>2, Counts, Zenon DEF Cart!ReadoutFails, StagedInv, TakesTwo
  <2>3. CASE UNCHANGED <<upright, staged, asked>>
    BY <1>2, <2>3, Zenon DEF StagedInv, TakesTwo
  <2> QED
    BY <1>2, <2>1, <2>2, <2>3, Zenon DEF Cart!InfoUpdate
<1>3. CASE Cart!SetOrientation
  <2>1. asked' = 0 /\ (staged' => staged /\ ~auto)
    BY <1>3, Zenon DEF Cart!SetOrientation
  <2>2. ~auto \/ ~auto'
    BY <1>3, Zenon DEF Cart!SetOrientation
  <2> QED
    BY <2>1, <2>2, Counts, Zenon DEF StagedInv, TakesTwo
<1>4. ASSUME Cart!Idle PROVE \/ UNCHANGED <<auto, upright, staged, asked>>
                             \/ Cart!InfoUpdate /\ UNCHANGED auto
  BY <1>4, Zenon DEF Cart!Idle, Cart!IrqUpdate, Cart!InfoUpdate, Cart!screen
<1>5. ASSUME Cart!ApplyOrientation \/ Cart!ForceHorizontal \/ Cart!AwaitCard \/ Cart!MoveCard \/ UNCHANGED Cart!vars
      PROVE  UNCHANGED <<auto, upright, staged, asked>>
  BY <1>5, Zenon DEF Cart!ApplyOrientation, Cart!ForceHorizontal, Cart!AwaitCard, Cart!MoveCard, Cart!vars, Cart!screen
<1> QED
  BY <1>1, <1>2, <1>3, <1>4, <1>5, Zenon DEF Cart!Next

(* status.c:120, "Require at least two readouts (~1 second) for an          *)
(* orientation toggle": however many ticks the loop misses and whatever     *)
(* fails, the screen turns to the vertical layout only after two readouts   *)
(* in a row that ask for it.                                                *)
THEOREM VerticalTakesTwo == Cart!Spec => Cart!TurnsUpSteady
<1>1. Cart!Init => StagedInv
  BY Counts, Zenon DEF Cart!Init, StagedInv
<1>2. StagedInv /\ [Cart!Next]_(Cart!vars) => StagedInv'
  BY StatusStep
<1>3. StagedInv /\ [Cart!Next]_(Cart!vars) => [auto /\ auto' /\ ~upright /\ upright' => asked' = 2]_(Cart!vars)
  BY StatusStep DEF TakesTwo
<1> QED
  BY <1>1, <1>2, <1>3, PTL DEF Cart!Spec, Cart!TurnsUpSteady

(* The one way to "ok" is the native mode.                                  *)
ToldInv == (mcuPc = "status" /\ result = "ok" => native) /\ Mcu!FailureIsTold

LEMMA ToldStep ==
    ASSUME ToldInv, [Mcu!Next]_(Mcu!vars) PROVE ToldInv'
<1> USE DEF ToldInv, Mcu!FailureIsTold, Mcu!Goto, Mcu!Return
<1>1. CASE Mcu!OpenBin
  BY <1>1 DEF Mcu!OpenBin
<1>2. CASE Mcu!Reset \/ Mcu!CompareFooter \/ Mcu!Jump
  BY <1>2 DEF Mcu!Reset, Mcu!CompareFooter, Mcu!Jump
<1>3. CASE Mcu!EraseFooter \/ Mcu!WriteFooter \/ Mcu!EraseBlob \/ Mcu!WriteChunk
  BY <1>3 DEF Mcu!EraseFooter, Mcu!WriteFooter, Mcu!EraseBlob, Mcu!WriteChunk
<1>4. CASE Mcu!EnterNative
  BY <1>4 DEF Mcu!EnterNative
<1>5. CASE Mcu!StatusInit
  BY <1>5 DEF Mcu!StatusInit
<1>6. CASE Mcu!PowerCycle
  BY <1>6 DEF Mcu!PowerCycle
<1>7. CASE UNCHANGED Mcu!vars
  BY <1>7 DEF Mcu!vars
<1> QED
  BY <1>1, <1>2, <1>3, <1>4, <1>5, <1>6, <1>7 DEF Mcu!Next, Mcu!Firmware

(* main.c:132-150: whichever call fails, a cartridge whose MCU is not in    *)
(* native mode has led to a dialog when the menu begins.                    *)
THEOREM FailureIsShown == Mcu!Spec => []Mcu!FailureIsTold
<1>1. Mcu!Init => ToldInv
  BY DEF Mcu!Init, ToldInv, Mcu!FailureIsTold
<1>2. ToldInv /\ [Mcu!Next]_(Mcu!vars) => ToldInv'
  BY ToldStep
<1>3. ToldInv => Mcu!FailureIsTold
  BY DEF ToldInv
<1> QED
  BY <1>1, <1>2, <1>3, PTL DEF Mcu!Spec

-----------------------------------------------------------------------------
(* The parts together: the part that runs is never left, and takes its own  *)
(* steps only.                                                              *)

LEMMA OneRuns == [CartridgeNext]_all => UNCHANGED on
BY Zenon DEF CartridgeNext, FilesStep, CommandsStep, RomStep, McuStep, StubStep, CartStep,
             Rest, all

LEMMA RomRuns ==
    /\ [CartridgeNext]_all => ((on = "rom")' <=> on = "rom")
    /\ CartridgeInit /\ on = "rom" => Rom!Init
    /\ on = "rom" /\ [CartridgeNext]_all => [Rom!Next]_(Rom!vars)
<1>1. CartridgeInit /\ on = "rom" => Rom!Init
  BY Zenon DEF CartridgeInit
<1>2. ASSUME on = "rom", [CartridgeNext]_all PROVE [Rom!Next]_(Rom!vars)
  <2>1. CASE UNCHANGED all
    BY <2>1, Zenon DEF all, romVars, Rom!vars
  <2>2. CASE CartridgeNext
    BY <1>2, <2>2 DEF CartridgeNext, FilesStep, CommandsStep, RomStep, McuStep, StubStep, CartStep
  <2> QED
    BY <1>2, <2>1, <2>2
<1> QED
  BY <1>1, <1>2, OneRuns, Zenon

(* The program image of launch_athena.c, for any layout, files and failing  *)
(* reads: what was placed keeps its bytes, AthenaOS its own, and the file   *)
(* that starts is the one the user chose, as long as headers count their    *)
(* sectors and the chosen file's own is read.                               *)
THEOREM RomFilesIntact ==
    ASSUME Rom!HonestHeaders, ~RomOf.SkipChosen PROVE CartridgeSpec => []FilesIntact
<1>1. Rom!Spec => [](Rom!FilesIntact /\ Rom!OsKept)
  BY Rom!ImageIntact, PartsAssumption DEF Rom!Rules
<1>2. Rom!Spec => []Rom!ChosenRuns
  BY Rom!ChosenIsRun, PartsAssumption DEF Rom!Rules
<1>3. Rom!FilesIntact /\ Rom!OsKept /\ Rom!ChosenRuns => FilesIntact
  BY DEF FilesIntact
<1>4. ~(on = "rom") => FilesIntact
  BY DEF FilesIntact
<1> QED
  BY <1>1, <1>2, <1>3, <1>4, RomRuns, PTL DEF CartridgeSpec, Rom!Spec

LEMMA StubRuns ==
    /\ [CartridgeNext]_all => ((on = "stub")' <=> on = "stub")
    /\ CartridgeInit /\ on = "stub" => Stub!Init
    /\ on = "stub" /\ [CartridgeNext]_all => [Stub!Next]_(Stub!vars)
<1>1. CartridgeInit /\ on = "stub" => Stub!Init
  BY Zenon DEF CartridgeInit
<1>2. ASSUME on = "stub", [CartridgeNext]_all PROVE [Stub!Next]_(Stub!vars)
  <2>1. CASE UNCHANGED all
    BY <2>1, Zenon DEF all, stubVars, Stub!vars, Stub!place
  <2>2. CASE CartridgeNext
    BY <1>2, <2>2 DEF CartridgeNext, FilesStep, CommandsStep, RomStep, McuStep, StubStep, CartStep
  <2> QED
    BY <1>2, <2>1, <2>2
<1> QED
  BY <1>1, <1>2, OneRuns, Zenon

(* The bootstub, for any sizes of programs, sectors, clusters and banks,    *)
(* however the clusters lie: what it starts is the program, every byte at   *)
(* its place, and it gives up only for a failing read or a short chain.     *)
THEOREM StartedWhole == CartridgeSpec => []ImageInPlace
<1>1. Stub!Spec => [](Stub!ImageInPlace /\ Stub!OnlyAcrossMixed /\ Stub!ErrorsToldRight)
  BY Stub!StartedInPlace, PartsAssumption
<1>2. Stub!ImageInPlace /\ Stub!OnlyAcrossMixed /\ Stub!ErrorsToldRight => ImageInPlace
  BY DEF ImageInPlace
<1>3. ~(on = "stub") => ImageInPlace
  BY DEF ImageInPlace
<1> QED
  BY <1>1, <1>2, <1>3, StubRuns, PTL DEF CartridgeSpec, Stub!Spec

LEMMA McuRuns ==
    /\ [CartridgeNext]_all => ((on = "update")' <=> on = "update")
    /\ CartridgeInit /\ on = "update" => Mcu!Init
    /\ on = "update" /\ [CartridgeNext]_all => [Mcu!Next]_(Mcu!vars)
<1>1. CartridgeInit /\ on = "update" => Mcu!Init
  BY Zenon DEF CartridgeInit
<1>2. ASSUME on = "update", [CartridgeNext]_all PROVE [Mcu!Next]_(Mcu!vars)
  <2>1. CASE UNCHANGED all
    BY <2>1, Zenon DEF all, mcuVars, Mcu!vars
  <2>2. CASE CartridgeNext
    BY <1>2, <2>2 DEF CartridgeNext, FilesStep, CommandsStep, RomStep, McuStep, StubStep, CartStep
  <2> QED
    BY <1>2, <2>1, <2>2
<1> QED
  BY <1>1, <1>2, OneRuns, Zenon

(* The update of the MCU, for any versions, any number of chunks, and power *)
(* cuts and failures at any of the steps: it jumps into whole firmware but  *)
(* after an update that stopped behind its footer, and what failed is told. *)
THEOREM UpdatedOrTold == CartridgeSpec => []JumpsIntoFirmware
<1>1. Mcu!Spec => []Mcu!JumpsIntoFirmware
  BY JumpsWhereItShould, PartsAssumption
<1>2. Mcu!Spec => []Mcu!FailureIsTold
  BY FailureIsShown
<1>3. Mcu!JumpsIntoFirmware /\ Mcu!FailureIsTold => JumpsIntoFirmware
  BY DEF JumpsIntoFirmware
<1>4. ~(on = "update") => JumpsIntoFirmware
  BY DEF JumpsIntoFirmware
<1> QED
  BY <1>1, <1>2, <1>3, <1>4, McuRuns, PTL DEF CartridgeSpec, Mcu!Spec

LEMMA CartRuns ==
    /\ CartridgeInit => Cart!Init
    /\ [CartridgeNext]_all => [Cart!Next]_(Cart!vars)
<1>1. CartridgeInit => Cart!Init
  BY Zenon DEF CartridgeInit
<1>2. UNCHANGED cartVars => UNCHANGED Cart!vars
  BY Zenon DEF cartVars, Cart!vars, Cart!screen
<1>3. ASSUME UNCHANGED all PROVE UNCHANGED Cart!vars
  BY <1>3, <1>2, Zenon DEF all
<1>4. ASSUME CartStep PROVE Cart!Next
  BY <1>4, Zenon DEF CartStep
<1>5. ASSUME CartridgeNext, ~CartStep PROVE UNCHANGED cartVars
  <2>1. ~(on = "status")
    BY <1>5 DEF CartridgeNext, FilesStep, CommandsStep, RomStep, McuStep, StubStep
  <2> QED
    BY <1>5, <2>1, Zenon DEF CartridgeNext, FilesStep, CommandsStep, RomStep, McuStep, StubStep, Rest
<1> QED
  BY <1>1, <1>2, <1>3, <1>4, <1>5, Zenon

(* status.c:120, while any part runs.                                       *)
THEOREM TurnsAfterTwo == CartridgeSpec => TurnsUpSteady
<1>1. Cart!Spec => Cart!TurnsUpSteady
  BY VerticalTakesTwo
<1> QED
  BY <1>1, CartRuns, PTL DEF CartridgeSpec, Cart!Spec, TurnsUpSteady
=============================================================================
