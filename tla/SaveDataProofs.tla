--------------------------- MODULE SaveDataProofs ---------------------------
(***************************************************************************)
(* Proofs about SaveData, for all games, media needs, chunk counts and     *)
(* faults.                                                                 *)
(*                                                                         *)
(* The first part says whose data a medium or a file holds: every variable *)
(* keeps its type, and a save file only ever holds what its own game       *)
(* wrote, unless a SAVE.INI outlived the launch it belongs to.             *)
(*                                                                         *)
(* The second part says which data: what the game last left (latest), or   *)
(* what the file already gives (Prepared).  A game runs on the save data   *)
(* it last left, a save ID that SAVE.INI agrees with vouches for the       *)
(* medium, no save is lost without the user being told, and SaveData       *)
(* implements SaveVault.                                                   *)
(***************************************************************************)
EXTENDS SaveData, TLAPS

Restoring == pc \in {"prepare", "load", "closefile", "ini", "write"}

(* Whose turn it is: a function that copies knows its game and its medium.  *)
TurnInv ==
    /\ pc \in {"store", "close", "setid", "prepare", "load", "closefile", "ini", "write",
               "confirm", "bootstub", "game"} => cur \in Games
    /\ pc \in {"store", "close", "load", "closefile"} => todo # {}
    /\ todo # {} => cur \in Games /\ todo \subseteq Needs[cur]
    /\ pc \in {"ini", "write"} => todo = {}
    /\ outer # NoLaunch => outer.cur \in Games

TypeInv == TypeOK /\ TurnInv

AllOwned(s, m, g) == \A c \in Chunk : Owned(s[m][c], g)

(* The media a save ID vouches for, if it equals the one in SAVE.INI.  What *)
(* flash holds is only settled once the bootstub has run.                   *)
Settled(m) == m # "FLASH" \/ pc \in {"boot", "entry", "store", "close", "unlink", "clear", "game"}

Vouched ==
    LiveIni(ini) =>
        \A m \in ini.has :
            Settled(m) /\ SaveId(m) = ini.id => AllOwned(store, m, ini.id)

(* launch_backup_save_data works from SAVE.INI, with a checked save ID.     *)
BackupInv ==
    /\ pc \in {"entry", "store", "close"} => cur = ini.id /\ todo \subseteq ini.has
    /\ pc \in {"store", "close"} => SaveId(NextEntry(todo)) = cur

(* launch_restore_save_data has set the save ID, and leaves the game's own  *)
(* data in every medium it is done with.                                    *)
RestoreInv ==
    /\ pc = "setid" => todo = Needs[cur]
    /\ Restoring /\ Needs[cur] # {} => mcu = IdOf(cur)
    /\ Restoring => \A m \in Needs[cur] \ {"FLASH"} :
          m \notin todo => AllOwned(store, m, cur)
    /\ pc = "load" =>
          /\ NextMedium(todo) # "FLASH"
          /\ \A c \in Chunk : c < chunk => Owned(store[NextMedium(todo)][c], cur)
    /\ pc = "closefile" /\ NextMedium(todo) # "FLASH" =>
          AllOwned(store, NextMedium(todo), cur)

(* Only the launch that is about to happen, or the one a remote launch      *)
(* interrupts, may have left a SAVE.INI.                                    *)
LaunchInv ==
    /\ pc \in {"menu", "foreign"} => ~LiveIni(ini)
    /\ (pc = "setid" \/ Restoring) /\ outer = NoLaunch => ~LiveIni(ini)
    /\ (pc = "setid" \/ (pc = "confirm" /\ outer = NoLaunch)) /\ LiveIni(ini) =>
          \A m \in ini.has \ {"FLASH"} : AllOwned(store, m, ini.id)
    /\ pc = "confirm" /\ result = "ok" => (LiveIni(ini) => ini.id = cur)
    /\ pc \in {"bootstub", "game"} => (LiveIni(ini) => ini.id = cur)
    /\ pc = "bootstub" /\ LiveIni(ini) /\ "FLASH" \in Needs[cur] =>
          \A c \in Chunk : c < chunk => Owned(store["FLASH"][c], cur)

Unharmed == holes \cap {"lingering", "remote"} = {}

OwnInv == Unharmed => FilesHoldOwnSaves /\ Vouched /\ BackupInv /\ RestoreInv /\ LaunchInv

IInv == TypeInv /\ OwnInv
-----------------------------------------------------------------------------
(* Types *)

LEMMA ConstantFacts ==
    /\ Chunks \in Nat /\ Chunks > 0 /\ 1 \in Chunk
    /\ None \notin Games
    /\ \A g \in Games : Needs[g] \subseteq Media
    /\ Fill \in Content /\ Junk \in Content
    /\ \A g \in Games, v \in 0..MaxVer : [by |-> g, ver |-> v] \in Content
BY GamesAssumption, NeedsAssumption, BoundsAssumption DEF Chunk, Fill, Junk, Content

LEMMA TypeInit == Init => TypeInv
BY ConstantFacts DEF Init, TypeInv, TypeOK, TurnInv, Prepared, Content, Fill, Chunk, Absent, Steps, NoLaunch, NoIni, NoId

(* Writing a chunk, listing a directory or losing power leaves contents.    *)
LEMMA MediaFacts ==
    ASSUME NEW s \in [Media -> [Chunk -> Content]]
    PROVE  Listed(s) \in [Media -> [Chunk -> Content]]
BY ConstantFacts DEF Listed, Media

LEMMA ChunkWrite ==
    ASSUME NEW s \in [Media -> [Chunk -> Content]],
           NEW m \in Media, NEW c \in Chunk, NEW v \in Content
    PROVE  [s EXCEPT ![m][c] = v] \in [Media -> [Chunk -> Content]]
OBVIOUS

LEMMA FileWrite ==
    ASSUME TypeOK, NEW g \in Games, NEW m \in Media, NEW c \in Chunk, NEW v \in Content
    PROVE  [data EXCEPT ![g][m][c] = v] \in [Games -> [Media -> [Chunk -> Content]]]
BY DEF TypeOK

LEMMA Typed ==
    ASSUME TypeOK, NEW g \in Games, NEW m \in Media, NEW c \in Chunk
    PROVE  /\ size[g][m] \in {Absent} \cup 0..Chunks
           /\ store[m][c] \in Content /\ data[g][m][c] \in Content
           /\ Prepared(g, m)[c] \in Content
BY ConstantFacts DEF TypeOK, Prepared

LEMMA NextChunk ==
    ASSUME NEW c \in Chunk, c # Chunks
    PROVE  c + 1 \in Chunk
BY ConstantFacts DEF Chunk

LEMMA FileCreate ==
    ASSUME TypeOK, NEW g \in Games, NEW m \in Media
    PROVE  [size EXCEPT ![g][m] = IF @ = Absent THEN 0 ELSE @]
               \in [Games -> [Media -> {Absent} \cup 0..Chunks]]
BY ConstantFacts DEF TypeOK, Absent

LEMMA NextInTodo ==
    ASSUME NEW S \in SUBSET Media, S # {}
    PROVE  NextEntry(S) \in S /\ NextMedium(S) \in S
BY DEF NextEntry, NextMedium, Media

LEMMA PreparedType ==
    ASSUME TypeOK, NEW g \in Games, NEW m \in Media
    PROVE  Prepared(g, m) \in [Chunk -> Content]
BY ConstantFacts DEF TypeOK, Prepared

LEMMA GrowFileType ==
    ASSUME TypeOK, NEW g \in Games, NEW m \in Media, GrowFile(g, m)
    PROVE  /\ size' \in [Games -> [Media -> {Absent} \cup 0..Chunks]]
           /\ data' \in [Games -> [Media -> [Chunk -> Content]]]
<1>1. size' \in [Games -> [Media -> {Absent} \cup 0..Chunks]]
  BY ConstantFacts DEF TypeOK, GrowFile
<1>2. data' \in [Games -> [Media -> [Chunk -> Content]]]
  BY PreparedType DEF TypeOK, GrowFile
<1>. QED
  BY <1>1, <1>2

(* What the copying actions write. *)
LEMMA StoreTypes ==
    ASSUME TypeInv, BootstubLoad \/ RestoreLoadChunk
    PROVE  store' \in [Media -> [Chunk -> Content]]
<1>. /\ TypeOK /\ store \in [Media -> [Chunk -> Content]] /\ chunk \in Chunk
     /\ cur \in Games /\ "FLASH" \in Media
  BY DEF TypeInv, TypeOK, TurnInv, BootstubLoad, RestoreLoadChunk, Media
<1>1. CASE BootstubLoad
  <2>1. CASE store' = [store EXCEPT !["FLASH"][chunk] =
                          IF "FLASH" \notin Needs[cur] THEN Junk
                          ELSE IF result = "ok" THEN data[cur]["FLASH"][chunk] ELSE Fill]
    <3>. DEFINE v == IF "FLASH" \notin Needs[cur] THEN Junk
                     ELSE IF result = "ok" THEN data[cur]["FLASH"][chunk] ELSE Fill
    <3>1. v \in Content
      BY Typed, ConstantFacts
    <3>. HIDE DEF v
    <3>2. [store EXCEPT !["FLASH"][chunk] = v] \in [Media -> [Chunk -> Content]]
      BY <3>1, ChunkWrite
    <3>. QED
      BY <2>1, <3>2 DEF v
  <2>. QED
    BY <1>1, <2>1 DEF BootstubLoad
<1>2. CASE RestoreLoadChunk
  <2>. DEFINE m == NextMedium(todo)
  <2>1. m \in Media
    BY <1>2, NextInTodo DEF RestoreLoadChunk, TypeInv, TypeOK, TurnInv
  <2>. HIDE DEF m
  <2>2. Prepared(cur, m)[chunk] \in Content
    BY <2>1, Typed
  <2>3. [store EXCEPT ![m][chunk] = Prepared(cur, m)[chunk]] \in [Media -> [Chunk -> Content]]
    BY <2>1, <2>2, ChunkWrite
  <2>. QED
    BY <1>2, <2>3 DEF RestoreLoadChunk, RestoreFails, cart, m
<1>. QED
  BY <1>1, <1>2

LEMMA FileTypes ==
    ASSUME TypeInv, PreallocateFile \/ BackupCloseFile
    PROVE  /\ size' \in [Games -> [Media -> {Absent} \cup 0..Chunks]]
           /\ data' \in [Games -> [Media -> [Chunk -> Content]]]
<1>. /\ TypeOK
     /\ size \in [Games -> [Media -> {Absent} \cup 0..Chunks]]
     /\ data \in [Games -> [Media -> [Chunk -> Content]]]
  BY DEF TypeInv, TypeOK
<1>1. CASE PreallocateFile
  <2>. DEFINE m == NextMedium(todo)
  <2>1. todo # {} => cur \in Games /\ m \in Media
    BY NextInTodo DEF TypeInv, TypeOK, TurnInv
  <2>. HIDE DEF m
  <2>2. todo # {} => [size EXCEPT ![cur][m] = IF @ = Absent THEN 0 ELSE @]
                        \in [Games -> [Media -> {Absent} \cup 0..Chunks]]
    BY <2>1, FileCreate
  <2>. QED
    BY <1>1, <2>2 DEF PreallocateFile, card, m
<1>2. CASE BackupCloseFile
  <2>. DEFINE m == NextEntry(todo)
  <2>1. cur \in Games /\ m \in Media
    BY <1>2, NextInTodo DEF BackupCloseFile, TypeInv, TypeOK, TurnInv
  <2>. HIDE DEF m
  <2>2. size[cur][m] \in Chunk =>
            [data EXCEPT ![cur][m][size[cur][m]] = store[m][size[cur][m]]]
                \in [Games -> [Media -> [Chunk -> Content]]]
    BY <2>1, FileWrite, Typed
  <2>. QED
    BY <1>2, <2>2 DEF BackupCloseFile, m
<1>. QED
  BY <1>1, <1>2

LEMMA TypeStep == TypeInv /\ [Next]_vars => TypeInv'
<1>. SUFFICES ASSUME TypeInv, [Next]_vars PROVE TypeInv'
  OBVIOUS
<1>. USE ConstantFacts DEF TypeInv, TypeOK, TurnInv, NoLaunch, NoIni, EmptyIni, IniOf, NoId, IdOf,
         cpu, card, cart, rest, ghost, Goto, Idle, Media, Steps
<1>1. CASE BackupOpenIni
  <2>1. CASE ini.there /\ cur' = ini.id /\ todo' = ini.has /\ Goto("entry")
             /\ UNCHANGED <<chunk, result, ini, store, holes>>
    BY <1>1, <2>1 DEF BackupOpenIni
  <2>2. CASE UNCHANGED ini /\ EnterMenu
    BY <1>1, <2>2, MediaFacts DEF BackupOpenIni, EnterMenu
  <2>. QED
    BY <1>1, <2>1, <2>2 DEF BackupOpenIni
<1>2. CASE BackupEntry
  BY <1>2 DEF BackupEntry, BackupFails
<1>3. CASE BackupStoreChunk
  <2>. DEFINE m == NextEntry(todo)
  <2>. cur \in Games /\ m \in todo /\ m \in Media
    BY <1>3, NextInTodo DEF BackupStoreChunk
  <2>1. size[cur][m] \in {Absent} \cup 0..Chunks /\ store[m] \in [Chunk -> Content]
    OBVIOUS
  <2>2. CASE BackupFails
    BY <1>3, <2>2 DEF BackupStoreChunk, BackupFails
  <2>3. CASE chunk < size[cur][m] /\ UNCHANGED <<pc, cur, todo, result, ini, size, cart, rest>>
             /\ data' = [data EXCEPT ![cur][m][chunk] = store[m][chunk]] /\ chunk' = chunk + 1
    <3>1. chunk' \in Chunk
      BY <2>1, <2>3 DEF Chunk, Absent
    <3>2. data' \in [Games -> [Media -> [Chunk -> Content]]]
      BY <2>3, Typed, FileWrite
    <3>. QED
      BY <1>3, <2>3, <3>1, <3>2 DEF BackupStoreChunk
  <2>4. CASE Goto("close") /\ UNCHANGED <<cpu, card, cart, rest>>
    BY <1>3, <2>4 DEF BackupStoreChunk
  <2>. QED
    BY <1>3, <2>2, <2>3, <2>4 DEF BackupStoreChunk
<1>4. CASE BackupCloseFile
  <2>1. cur \in Games /\ todo \in SUBSET Media
    BY <1>4 DEF BackupCloseFile
  <2>2. /\ pc' = "entry" /\ todo' \in SUBSET todo
        /\ holes' \in SUBSET {"lingering", "close", "cut", "remote"}
        /\ UNCHANGED <<cur, chunk, result, ini, mcu, ipc, store, latest, told, outer>>
    BY <1>4 DEF BackupCloseFile
  <2>3. /\ size' \in [Games -> [Media -> {Absent} \cup 0..Chunks]]
        /\ data' \in [Games -> [Media -> [Chunk -> Content]]]
    BY <1>4, FileTypes
  <2>4. TypeOK'
    BY <2>1, <2>2, <2>3
  <2>5. TurnInv'
    BY <2>1, <2>2
  <2>. QED
    BY <2>4, <2>5
<1>5. CASE BackupUnlinkIni
  BY <1>5 DEF BackupUnlinkIni
<1>6. CASE BackupClearSaveId
  BY <1>6, MediaFacts DEF BackupClearSaveId, EnterMenu
<1>7. CASE RestoreSetSaveId
  BY <1>7 DEF RestoreSetSaveId
<1>8. CASE PreallocateFile
  BY <1>8, FileTypes DEF PreallocateFile, RestoreFails
<1>9. CASE RestoreLoadChunk
  <2>. DEFINE m == NextMedium(todo)
  <2>1. cur \in Games /\ m \in Media
    BY <1>9, NextInTodo DEF RestoreLoadChunk
  <2>2. store' \in [Media -> [Chunk -> Content]]
    BY <1>9, StoreTypes
  <2>3. /\ size' \in [Games -> [Media -> {Absent} \cup 0..Chunks]]
        /\ data' \in [Games -> [Media -> [Chunk -> Content]]]
    BY <1>9, <2>1, GrowFileType DEF RestoreLoadChunk, RestoreFails
  <2>4. chunk' \in Chunk
    BY <1>9, NextChunk DEF RestoreLoadChunk, RestoreFails
  <2>. QED
    BY <1>9, <2>1, <2>2, <2>3, <2>4 DEF RestoreLoadChunk, RestoreFails
<1>10. CASE RestoreCloseFile
  <2>. DEFINE m == NextMedium(todo)
  <2>1. cur \in Games /\ m \in Media
    BY <1>10, NextInTodo DEF RestoreCloseFile
  <2>2. /\ size' \in [Games -> [Media -> {Absent} \cup 0..Chunks]]
        /\ data' \in [Games -> [Media -> [Chunk -> Content]]]
    BY <1>10, <2>1, GrowFileType DEF RestoreCloseFile, RestoreFails
  <2>. QED
    BY <1>10, <2>1, <2>2 DEF RestoreCloseFile, RestoreFails
<1>11. CASE RestoreOpenIni
  BY <1>11 DEF RestoreOpenIni, RestoreFails
<1>12. CASE RestoreWriteIni
  BY <1>12 DEF RestoreWriteIni, RestoreFails
<1>13. CASE BootstubLoad
  <2>1. store' \in [Media -> [Chunk -> Content]]
    BY <1>13, StoreTypes
  <2>2. chunk' \in Chunk
    BY <1>13, NextChunk DEF BootstubLoad
  <2>. QED
    BY <1>13, <2>1, <2>2 DEF BootstubLoad
<1>14. CASE LaunchRom
  BY <1>14 DEF LaunchRom
<1>15. CASE AbortLaunch
  BY <1>15, MediaFacts DEF AbortLaunch, EnterMenu
<1>16. CASE AcceptLaunch
  BY <1>16, PreparedType DEF AcceptLaunch
<1>17. CASE LaunchOther
  BY <1>17 DEF LaunchOther
<1>18. CASE EraseSave
  BY <1>18 DEF EraseSave
<1>19. CASE FactoryReset
  BY <1>19 DEF FactoryReset
<1>20. CASE RemoteLaunch
  BY <1>20 DEF RemoteLaunch, Waiting
<1>21. CASE RemoteReturns
  BY <1>21 DEF RemoteReturns
<1>22. CASE GameWrite
  BY <1>22 DEF GameWrite
<1>23. CASE OtherWrite
  BY <1>23 DEF OtherWrite
<1>24. CASE SoftReset
  BY <1>24 DEF SoftReset, Waiting
<1>25. CASE PowerCycle
  BY <1>25 DEF PowerCycle, Unpowered
<1>26. CASE UNCHANGED vars
  BY <1>26 DEF vars
<1>. QED
  BY <1>1, <1>2, <1>3, <1>4, <1>5, <1>6, <1>7, <1>8, <1>9, <1>10, <1>11, <1>12, <1>13, 
     <1>14, <1>15, <1>16, <1>17, <1>18, <1>19, <1>20, <1>21, <1>22, <1>23, <1>24, <1>25, <1>26
     DEF Next, Firmware, Backup, Restore, User, World

(* Every variable always has its type: the base of everything below.        *)
THEOREM TypeSafety == Spec => []TypeOK
<1>1. TypeInv => TypeOK
  BY DEF TypeInv
<1>. QED
  BY TypeInit, TypeStep, <1>1, PTL DEF Spec
-----------------------------------------------------------------------------
(* Save files and their games *)

LEMMA FillOwned == \A g : Owned(Fill, g)
BY DEF Owned, Fill

LEMMA PreparedOwned ==
    ASSUME FilesHoldOwnSaves, NEW g \in Games, NEW m \in Media, NEW c \in Chunk
    PROVE  Owned(Prepared(g, m)[c], g)
BY FillOwned DEF FilesHoldOwnSaves, Prepared

LEMMA HolesGrow == [Next]_vars /\ Unharmed' => Unharmed
BY DEF Next, Firmware, Backup, Restore, User, World, vars, cpu, card, cart, rest, ghost, Unharmed,
       BackupOpenIni, BackupEntry, BackupStoreChunk, BackupCloseFile, BackupUnlinkIni,
       BackupClearSaveId, EnterMenu, BackupFails, RestoreFails, RestoreSetSaveId, PreallocateFile,
       RestoreLoadChunk, RestoreCloseFile, RestoreOpenIni, RestoreWriteIni, BootstubLoad, LaunchRom,
       AbortLaunch, AcceptLaunch, LaunchOther, EraseSave, FactoryReset, RemoteLaunch, RemoteReturns,
       GameWrite, OtherWrite, SoftReset, PowerCycle

(* Where the backup copies from, the save ID has vouched for the medium.    *)
LEMMA BackupVouched ==
    ASSUME TypeInv, Vouched, BackupInv, pc \in {"store", "close"}
    PROVE  LET m == NextEntry(todo) IN
           m \in Media /\ cur \in Games /\ AllOwned(store, m, cur)
<1>. DEFINE m == NextEntry(todo)
<1>1. todo # {} /\ todo \subseteq Media /\ cur \in Games
  BY DEF TypeInv, TypeOK, TurnInv
<1>2. m \in todo
  BY <1>1, NextInTodo
<1>3. m \in ini.has /\ cur = ini.id /\ SaveId(m) = cur
  BY <1>2 DEF BackupInv
<1>. QED
  BY <1>1, <1>2, <1>3 DEF Vouched, Settled, LiveIni

LEMMA GrowOwned ==
    ASSUME TypeInv, FilesHoldOwnSaves, NEW g \in Games, NEW m \in Media, GrowFile(g, m)
    PROVE  FilesHoldOwnSaves'
<1>1. data \in [Games -> [Media -> [Chunk -> Content]]]
  BY DEF TypeInv, TypeOK
<1>2. \A h \in Games, k \in Media : data'[h][k] = IF h = g /\ k = m THEN Prepared(g, m) ELSE data[h][k]
  BY <1>1 DEF GrowFile
<1>. QED
  BY <1>2, PreparedOwned DEF FilesHoldOwnSaves, Owned

LEMMA WriteOwned ==
    ASSUME TypeInv, FilesHoldOwnSaves, NEW g \in Games, NEW m \in Media, NEW c \in Chunk,
           NEW v, Owned(v, g), data' = [data EXCEPT ![g][m][c] = v]
    PROVE  FilesHoldOwnSaves'
<1>1. data \in [Games -> [Media -> [Chunk -> Content]]]
  BY DEF TypeInv, TypeOK
<1>2. \A h \in Games, k \in Media, d \in Chunk :
        data'[h][k][d] = IF h = g /\ k = m /\ d = c THEN v ELSE data[h][k][d]
  BY <1>1
<1>. QED
  BY <1>2 DEF FilesHoldOwnSaves, Owned

LEMMA FilesStep ==
    ASSUME TypeInv, FilesHoldOwnSaves, Vouched, BackupInv, [Next]_vars
    PROVE  FilesHoldOwnSaves'
<1>. data \in [Games -> [Media -> [Chunk -> Content]]]
  BY DEF TypeInv, TypeOK
<1>1. CASE BackupStoreChunk
  <2>. DEFINE m == NextEntry(todo)
  <2>1. m \in Media /\ cur \in Games /\ chunk \in Chunk /\ AllOwned(store, m, cur)
    BY <1>1, BackupVouched DEF BackupStoreChunk, TypeInv, TypeOK
  <2>2. data' = data \/ data' = [data EXCEPT ![cur][m][chunk] = store[m][chunk]]
    BY <1>1 DEF BackupStoreChunk, BackupFails, card
  <2>. QED
    BY <2>1, <2>2, WriteOwned DEF FilesHoldOwnSaves, AllOwned
<1>2. CASE BackupCloseFile
  <2>. DEFINE m == NextEntry(todo)
  <2>1. m \in Media /\ cur \in Games /\ AllOwned(store, m, cur)
    BY <1>2, BackupVouched DEF BackupCloseFile
  <2>2. \/ data' = data
        \/ /\ size[cur][m] \in Chunk
           /\ data' = [data EXCEPT ![cur][m][size[cur][m]] = store[m][size[cur][m]]]
    BY <1>2 DEF BackupCloseFile
  <2>. QED
    BY <2>1, <2>2, WriteOwned DEF FilesHoldOwnSaves, AllOwned
<1>3. CASE RestoreLoadChunk \/ RestoreCloseFile
  <2>1. cur \in Games /\ NextMedium(todo) \in Media
    BY <1>3, NextInTodo DEF RestoreLoadChunk, RestoreCloseFile, TypeInv, TypeOK, TurnInv
  <2>2. data' = data \/ GrowFile(cur, NextMedium(todo))
    BY <1>3 DEF RestoreLoadChunk, RestoreCloseFile, card
  <2>. QED
    BY <2>1, <2>2, GrowOwned DEF FilesHoldOwnSaves
<1>4. CASE data' = data
  BY <1>4 DEF FilesHoldOwnSaves
<1>. QED
  BY <1>1, <1>2, <1>3, <1>4
     DEF Next, Firmware, Backup, Restore, User, World, vars, card,
         BackupOpenIni, BackupEntry, BackupFails, BackupUnlinkIni, BackupClearSaveId, RestoreFails,
         RestoreSetSaveId, PreallocateFile, RestoreOpenIni, RestoreWriteIni, BootstubLoad, LaunchRom,
         AbortLaunch, AcceptLaunch, LaunchOther, EraseSave, FactoryReset, RemoteLaunch,
         RemoteReturns, GameWrite, OtherWrite, SoftReset, PowerCycle
LEMMA StoreWrite ==
    ASSUME TypeInv, NEW m \in Media, NEW c \in Chunk, NEW v,
           store' = [store EXCEPT ![m][c] = v]
    PROVE  \A k \in Media, d \in Chunk :
               store'[k][d] = IF k = m /\ d = c THEN v ELSE store[k][d]
BY DEF TypeInv, TypeOK

(* SAVE.INI, if it says anything, names a game and media of that game.      *)
LEMMA LiveIniFacts ==
    ASSUME TypeInv, LiveIni(ini)
    PROVE  /\ ini.id \in Games /\ ini.id # None
           /\ ini.has = Needs[ini.id] /\ ini.has \subseteq Media
BY ConstantFacts DEF TypeInv, TypeOK, LiveIni, NoIni, EmptyIni, IniOf

LEMMA MenuIsClean ==
    ASSUME Unharmed', EnterMenu
    PROVE  ~LiveIni(ini')
BY DEF Unharmed, EnterMenu

(* A save ID that is set after the media are loaded vouches for them.       *)
LEMMA VouchedStep ==
    ASSUME TypeInv, FilesHoldOwnSaves, Vouched, RestoreInv, LaunchInv, Unharmed', [Next]_vars
    PROVE  Vouched'
<1>. SUFFICES ASSUME LiveIni(ini'), NEW k \in ini'.has, Settled(k)', (SaveId(k))' = ini'.id,
                     NEW d \in Chunk
              PROVE  Owned(store'[k][d], ini'.id)
  BY DEF Vouched, AllOwned
<1>. /\ pc \in Steps /\ chunk \in Chunk /\ cur \in Games \cup {None}
  BY DEF TypeInv, TypeOK
<1>1. CASE UNCHANGED <<ini, store, mcu, ipc>> /\ (Settled(k)' => Settled(k))
  BY <1>1 DEF Vouched, SaveId, AllOwned
<1>2. CASE BackupOpenIni
  BY <1>1, <1>2, MenuIsClean DEF BackupOpenIni, Settled, Goto
<1>3. CASE BackupUnlinkIni
  BY <1>1, <1>3 DEF BackupUnlinkIni, Settled, Goto, NoIni, LiveIni, cart
<1>4. CASE BackupClearSaveId \/ AbortLaunch
  BY <1>4, MenuIsClean DEF BackupClearSaveId, AbortLaunch
<1>5. CASE RestoreSetSaveId
  <2>1. UNCHANGED <<ini, store>> /\ LiveIni(ini) /\ k \in ini.has /\ k # "FLASH"
    BY <1>5 DEF RestoreSetSaveId, card, Settled, Goto
  <2>. QED
    BY <1>5, <2>1 DEF RestoreSetSaveId, LaunchInv, AllOwned
<1>6. CASE RestoreLoadChunk
  <2>. DEFINE m == NextMedium(todo)
  <2>1. cur \in Games /\ m \in todo /\ m \in Media /\ todo \subseteq Needs[cur]
    BY <1>6, NextInTodo DEF RestoreLoadChunk, TypeInv, TypeOK, TurnInv
  <2>2. UNCHANGED <<ini, mcu, ipc>> /\ LiveIni(ini) /\ k \in ini.has /\ k # "FLASH" /\ k \in Media
    BY <1>6, LiveIniFacts DEF RestoreLoadChunk, RestoreFails, card, cart, Settled, Goto
  <2>3. SaveId(k) = ini.id /\ AllOwned(store, k, ini.id)
    BY <2>2 DEF SaveId, Vouched, Settled
  <2>4. mcu = IdOf(cur)
    BY <1>6, <2>1 DEF RestoreInv, Restoring, RestoreLoadChunk
  <2>5. ini.id = cur
    BY <2>2, <2>3, <2>4, LiveIniFacts DEF SaveId, IdOf
  <2>6. \/ store' = store
        \/ store' = [store EXCEPT ![m][chunk] = Prepared(cur, m)[chunk]]
    BY <1>6 DEF RestoreLoadChunk, RestoreFails, cart
  <2>7. Owned(Prepared(cur, m)[chunk], cur)
    BY <2>1, PreparedOwned
  <2>. HIDE DEF m
  <2>. QED
    BY <2>1, <2>2, <2>3, <2>5, <2>6, <2>7, StoreWrite DEF AllOwned
<1>7. CASE RestoreOpenIni
  BY <1>1, <1>7 DEF RestoreOpenIni, RestoreFails, NoIni, EmptyIni, LiveIni, cart, Settled, Goto
<1>8. CASE RestoreWriteIni
  <2>1. UNCHANGED <<store, mcu, ipc>> /\ k # "FLASH"
    BY <1>8 DEF RestoreWriteIni, RestoreFails, cart, Settled, Goto
  <2>2. CASE ini' = ini
    BY <2>1, <2>2, <1>1 DEF Settled
  <2>3. CASE ini' = IniOf(cur)
    <3>1. todo = {} /\ k \in Needs[cur] \ {"FLASH"}
      BY <1>8, <2>1, <2>3 DEF RestoreWriteIni, TypeInv, TurnInv, IniOf
    <3>. QED
      BY <1>8, <2>1, <2>3, <3>1 DEF RestoreWriteIni, RestoreInv, Restoring, IniOf, AllOwned
  <2>. QED
    BY <1>8, <2>2, <2>3 DEF RestoreWriteIni
<1>9. CASE BootstubLoad
  <2>1. UNCHANGED <<ini, mcu, ipc>> /\ LiveIni(ini) /\ k \in ini.has /\ cur \in Games
    BY <1>9 DEF BootstubLoad, card, TypeInv, TurnInv
  <2>2. ini.id = cur /\ ini.has = Needs[cur] /\ k \in Media
    BY <1>9, <2>1, LiveIniFacts DEF BootstubLoad, LaunchInv
  <2>3. SaveId(k) = ini.id
    BY <2>1 DEF SaveId
  <2>4. CASE k # "FLASH"
    <3>1. store'[k][d] = store[k][d]
      BY <1>9, <2>2, <2>4 DEF BootstubLoad, TypeInv, TypeOK, Media
    <3>. QED
      BY <2>1, <2>3, <2>4, <3>1 DEF Vouched, Settled, AllOwned
  <2>5. CASE k = "FLASH"
    <3>1. pc' = "game" /\ chunk = Chunks
      BY <1>9, <2>5 DEF BootstubLoad, Settled, Goto
    <3>. DEFINE v == IF result = "ok" THEN data[cur]["FLASH"][chunk] ELSE Fill
    <3>2. store' = [store EXCEPT !["FLASH"][chunk] = v]
      BY <1>9, <2>1, <2>2, <2>5, <3>1 DEF BootstubLoad, Goto
    <3>3. Owned(v, cur)
      BY <2>1, FillOwned DEF FilesHoldOwnSaves, Media
    <3>4. d # chunk => d < chunk
      BY <3>1, ConstantFacts DEF Chunk
    <3>5. d < chunk => Owned(store["FLASH"][d], cur)
      BY <1>9, <2>1, <2>2, <2>5 DEF BootstubLoad, LaunchInv
    <3>. HIDE DEF v
    <3>6. store'["FLASH"][d] = IF d = chunk THEN v ELSE store["FLASH"][d]
      BY <2>2, <2>5, <3>2 DEF TypeInv, TypeOK
    <3>. QED
      BY <2>1, <2>2, <2>5, <3>3, <3>4, <3>5, <3>6
  <2>. QED
    BY <2>4, <2>5
<1>10. CASE GameWrite
  <2>1. UNCHANGED <<pc, ini, mcu, ipc>> /\ LiveIni(ini) /\ k \in ini.has /\ cur \in Games
    BY <1>10 DEF GameWrite, card, TypeInv, TurnInv
  <2>2. ini.id = cur /\ k \in Media
    BY <1>10, <2>1, LiveIniFacts DEF GameWrite, LaunchInv
  <2>3. SaveId(k) = ini.id /\ Settled(k)
    BY <2>1 DEF SaveId, Settled
  <2>4. PICK m \in Needs[cur], c \in Chunk, v \in 0..MaxVer :
            store' = [store EXCEPT ![m][c] = [by |-> cur, ver |-> v]]
    BY <1>10 DEF GameWrite
  <2>. DEFINE w == [by |-> cur, ver |-> v]
  <2>. HIDE DEF w
  <2>5. m \in Media
    BY <2>1, ConstantFacts
  <2>6. store' = [store EXCEPT ![m][c] = w]
    BY <2>4 DEF w
  <2>7. store'[k][d] = IF k = m /\ d = c THEN w ELSE store[k][d]
    BY <2>2, <2>5, <2>6 DEF TypeInv, TypeOK
  <2>8. Owned(w, cur)
    BY DEF w, Owned
  <2>. QED
    BY <2>1, <2>2, <2>3, <2>7, <2>8 DEF Vouched, AllOwned
<1>11. CASE SoftReset
  <2>1. UNCHANGED <<ini, store, mcu, ipc>>
    BY <1>11 DEF SoftReset, card, cart
  <2>2. CASE pc = "game"
    BY <1>1, <2>1, <2>2 DEF Settled
  <2>3. CASE pc = "confirm"
    BY <1>1, <1>11, <2>1, <2>3 DEF SoftReset, Unharmed, Settled
  <2>. QED
    BY <1>11, <2>1, <2>2, <2>3 DEF SoftReset, Waiting, LaunchInv
<1>12. CASE PowerCycle
  <2>1. UNCHANGED ini /\ ini.id # None /\ k \in Media
    BY <1>12, LiveIniFacts DEF PowerCycle, card
  <2>2. PICK hold \in BOOLEAN : /\ store' = Unpowered(store, hold)
                                /\ mcu' = IF hold THEN mcu ELSE NoId
    BY <1>12 DEF PowerCycle
  <2>3. k # "FLASH"
    BY <1>12, <2>1 DEF PowerCycle, SaveId
  <2>4. mcu' # NoId
    BY <2>1, <2>3 DEF SaveId, NoId
  <2>5. hold
    BY <2>2, <2>4
  <2>6. mcu' = mcu /\ store' = Unpowered(store, hold)
    BY <2>2, <2>5
  <2>. QED
    BY <2>1, <2>3, <2>5, <2>6 DEF Vouched, Settled, SaveId, AllOwned, Unpowered
<1>13. CASE OtherWrite
  BY <1>13 DEF OtherWrite, LaunchInv, card
<1>14. CASE FactoryReset
  BY <1>14 DEF FactoryReset, LaunchInv, NoIni, LiveIni
<1>15. CASE \/ BackupEntry \/ BackupStoreChunk \/ BackupCloseFile \/ PreallocateFile
            \/ RestoreCloseFile \/ LaunchRom \/ AcceptLaunch \/ LaunchOther \/ EraseSave
            \/ RemoteLaunch \/ RemoteReturns \/ UNCHANGED vars
  <2>1. UNCHANGED <<ini, store, mcu, ipc>>
    BY <1>15 DEF vars, card, cart, rest, BackupEntry, BackupStoreChunk, BackupCloseFile,
         BackupFails, PreallocateFile, RestoreCloseFile, GrowFile, RestoreFails, LaunchRom,
         AcceptLaunch, LaunchOther, EraseSave, RemoteLaunch, RemoteReturns
  <2>2. Settled(k)' => Settled(k)
    BY <1>15 DEF vars, Settled, Goto, BackupEntry, BackupStoreChunk, BackupCloseFile,
         BackupFails, PreallocateFile, RestoreCloseFile, RestoreFails, LaunchRom,
         AcceptLaunch, LaunchOther, EraseSave, RemoteLaunch, RemoteReturns
  <2>. QED
    BY <1>1, <2>1, <2>2
<1>. QED
  BY <1>2, <1>3, <1>4, <1>5, <1>6, <1>7, <1>8, <1>9, <1>10, <1>11, <1>12, <1>13, <1>14, <1>15
     DEF Next, Firmware, Backup, Restore, User, World
LEMMA BackupStep ==
    ASSUME TypeInv, BackupInv, [Next]_vars
    PROVE  BackupInv'
<1>. SUFFICES ASSUME pc' \in {"entry", "store", "close"}
              PROVE  /\ cur' = ini'.id /\ todo' \subseteq ini'.has
                     /\ pc' \in {"store", "close"} => SaveId(NextEntry(todo))' = cur'
  BY DEF BackupInv
<1>1. CASE BackupOpenIni
  BY <1>1 DEF BackupOpenIni, EnterMenu, Goto
<1>2. CASE BackupEntry
  BY <1>2 DEF BackupEntry, BackupFails, BackupInv, Goto, cpu, card, cart, SaveId, NextEntry
<1>3. CASE BackupStoreChunk
  BY <1>3 DEF BackupStoreChunk, BackupFails, BackupInv, Goto, cpu, card, cart, SaveId, NextEntry
<1>4. CASE BackupCloseFile
  BY <1>4 DEF BackupCloseFile, BackupInv, Goto, cart, SaveId
<1>5. CASE UNCHANGED vars
  BY <1>5 DEF vars, cpu, card, cart, BackupInv, SaveId, NextEntry
<1>. QED
  BY <1>1, <1>2, <1>3, <1>4, <1>5
     DEF Next, Firmware, Backup, Restore, User, World, Goto, EnterMenu, RestoreFails,
         BackupUnlinkIni, BackupClearSaveId, RestoreSetSaveId, PreallocateFile, RestoreLoadChunk,
         RestoreCloseFile, RestoreOpenIni, RestoreWriteIni, BootstubLoad, LaunchRom, AbortLaunch,
         AcceptLaunch, LaunchOther, EraseSave, FactoryReset, RemoteLaunch, RemoteReturns,
         GameWrite, OtherWrite, SoftReset, PowerCycle

(* A medium is the game's own once it is no longer to be done.              *)
LEMMA RestoreStep ==
    ASSUME TypeInv, FilesHoldOwnSaves, RestoreInv, [Next]_vars
    PROVE  RestoreInv'
<1>. SUFFICES ASSUME pc' = "setid" \/ Restoring' PROVE RestoreInv'
  BY DEF RestoreInv, Restoring
<1>. TypeOK /\ chunk \in Chunk /\ todo \in SUBSET Media
  BY DEF TypeInv, TypeOK
<1>1. CASE LaunchRom \/ RemoteLaunch
  BY <1>1 DEF LaunchRom, RemoteLaunch, Goto, RestoreInv, Restoring
<1>2. CASE RestoreSetSaveId
  <2>1. pc' = "prepare" /\ todo = Needs[cur] /\ UNCHANGED <<cur, todo, store>>
    BY <1>2 DEF RestoreSetSaveId, RestoreInv, Restoring, Goto
  <2>2. Needs[cur] # {} => mcu' = IdOf(cur)
    BY <1>2, <2>1 DEF RestoreSetSaveId, Goto
  <2>. QED
    BY <2>1, <2>2 DEF RestoreInv, Restoring, IdOf
<1>3. CASE PreallocateFile
  <2>. /\ UNCHANGED <<cur, todo, store, mcu>> /\ Restoring
       /\ pc' \in {"ini", "closefile", "load"}
       /\ pc' = "load" => chunk' = 1 /\ NextMedium(todo) # "FLASH"
       /\ pc' = "closefile" => NextMedium(todo) = "FLASH"
    BY <1>3 DEF PreallocateFile, RestoreFails, cpu, cart, Goto, Restoring
  <2>. QED
    BY DEF RestoreInv, Restoring, AllOwned, NextMedium, IdOf, Chunk
<1>4. CASE RestoreLoadChunk
  <2>. DEFINE m == NextMedium(todo)
  <2>1. m \in todo /\ m \in Media /\ m # "FLASH" /\ cur \in Games
    BY <1>4, NextInTodo DEF RestoreLoadChunk, RestoreInv, TypeInv, TurnInv
  <2>2. /\ UNCHANGED <<cur, todo, mcu>> /\ Restoring
        /\ store' = [store EXCEPT ![m][chunk] = Prepared(cur, m)[chunk]]
        /\ \/ pc' = "closefile" /\ chunk = Chunks
           \/ pc' = "load" /\ chunk' = chunk + 1
    BY <1>4 DEF RestoreLoadChunk, RestoreFails, Goto, Restoring
  <2>3. Owned(Prepared(cur, m)[chunk], cur)
    BY <2>1, PreparedOwned
  <2>4. \A k \in Media, d \in Chunk :
            Owned(store[k][d], cur) \/ (k = m /\ d = chunk) => Owned(store'[k][d], cur)
    <3>. DEFINE v == Prepared(cur, m)[chunk]
    <3>. HIDE DEF m, v
    <3>1. store' = [store EXCEPT ![m][chunk] = v]
      BY <2>2 DEF m, v
    <3>2. Owned(v, cur)
      BY <2>3 DEF m, v
    <3>. QED
      BY <2>1, <3>1, <3>2 DEF TypeOK
  <2>5. \A d \in Chunk : d < chunk => Owned(store[m][d], cur)
    BY <1>4 DEF RestoreInv, RestoreLoadChunk
  <2>6. \A k \in Needs[cur] \ {"FLASH"} : k \notin todo' => AllOwned(store', k, cur')
    BY <2>1, <2>2, <2>4, ConstantFacts DEF RestoreInv, AllOwned
  <2>7. m = NextMedium(todo')
    BY <2>2 DEF NextMedium
  <2>8. pc' = "closefile" => AllOwned(store', m, cur')
    <3>. SUFFICES ASSUME pc' = "closefile", NEW d \in Chunk PROVE Owned(store'[m][d], cur)
      BY <2>2 DEF AllOwned
    <3>1. d < chunk \/ d = chunk
      BY <2>2, ConstantFacts DEF Chunk
    <3>. QED
      BY <2>1, <2>4, <2>5, <3>1
  <2>9. pc' = "load" => \A d \in Chunk : d < chunk' => Owned(store'[m][d], cur')
    <3>. SUFFICES ASSUME pc' = "load", NEW d \in Chunk, d < chunk'
                  PROVE  Owned(store'[m][d], cur)
      BY <2>2
    <3>1. d < chunk \/ d = chunk
      BY <2>2, ConstantFacts DEF Chunk
    <3>. QED
      BY <2>1, <2>4, <2>5, <3>1
  <2>10. Needs[cur'] # {} => mcu' = IdOf(cur')
    BY <2>2 DEF RestoreInv, IdOf
  <2>. HIDE DEF m
  <2>. QED
    BY <2>1, <2>2, <2>6, <2>7, <2>8, <2>9, <2>10 DEF RestoreInv, Restoring
<1>5. CASE RestoreCloseFile
  <2>. DEFINE m == NextMedium(todo)
  <2>1. /\ UNCHANGED <<cur, store, mcu>> /\ todo' = todo \ {m}
        /\ pc = "closefile" /\ pc' = "prepare" /\ Restoring
    BY <1>5 DEF RestoreCloseFile, RestoreFails, cart, Goto, Restoring
  <2>2. \A k \in Needs[cur] \ {"FLASH"} : k \notin todo' => AllOwned(store, k, cur)
    BY <2>1 DEF RestoreInv
  <2>. QED
    BY <2>1, <2>2 DEF RestoreInv, Restoring, AllOwned, IdOf
<1>6. CASE RestoreOpenIni
  <2>. UNCHANGED <<cur, todo, store, mcu>> /\ Restoring /\ pc' = "write"
    BY <1>6 DEF RestoreOpenIni, RestoreFails, cpu, cart, Goto, Restoring
  <2>. QED
    BY DEF RestoreInv, Restoring, AllOwned, IdOf
<1>7. CASE UNCHANGED vars
  BY <1>7 DEF vars, cpu, cart, RestoreInv, Restoring, AllOwned, IdOf, NextMedium
<1>. QED
  BY <1>1, <1>2, <1>3, <1>4, <1>5, <1>6, <1>7
     DEF Next, Firmware, Backup, Restore, User, World, Goto, EnterMenu, RestoreFails, Restoring,
         BackupOpenIni, BackupEntry, BackupStoreChunk, BackupCloseFile, BackupFails,
         BackupUnlinkIni, BackupClearSaveId, RestoreWriteIni, BootstubLoad, AbortLaunch,
         AcceptLaunch, LaunchOther, EraseSave, FactoryReset, RemoteReturns,
         GameWrite, OtherWrite, SoftReset, PowerCycle
LEMMA LaunchStep ==
    ASSUME TypeInv, FilesHoldOwnSaves, RestoreInv, LaunchInv, Unharmed', [Next]_vars
    PROVE  LaunchInv'
<1>. TypeOK /\ chunk \in Chunk
  BY DEF TypeInv, TypeOK
<1>1. CASE BackupOpenIni \/ BackupClearSaveId \/ AbortLaunch
  BY <1>1, MenuIsClean
     DEF BackupOpenIni, BackupClearSaveId, AbortLaunch, EnterMenu, Goto, LaunchInv, Restoring
<1>2. CASE BackupEntry \/ BackupStoreChunk \/ BackupCloseFile \/ BackupUnlinkIni
  BY <1>2 DEF BackupEntry, BackupStoreChunk, BackupCloseFile, BackupUnlinkIni, BackupFails, Goto,
              LaunchInv, Restoring
<1>3. CASE LaunchRom
  BY <1>3 DEF LaunchRom, Goto, LaunchInv, Restoring, card
<1>4. CASE RemoteLaunch
  <2>1. outer' # NoLaunch
    BY <1>4, ConstantFacts DEF RemoteLaunch, Waiting, NoLaunch, TypeInv, TurnInv
  <2>2. pc = "confirm" /\ outer = NoLaunch /\ pc' = "setid" /\ UNCHANGED <<ini, store>>
    BY <1>4 DEF RemoteLaunch, Waiting, Goto, card, cart
  <2>. QED
    BY <2>1, <2>2 DEF LaunchInv, Restoring, AllOwned
<1>5. CASE RestoreSetSaveId
  <2>. /\ pc = "setid" /\ UNCHANGED <<cur, ini, store, outer>>
       /\ \/ pc' = "prepare"
          \/ pc' = "confirm" /\ result' = "mcu"
    BY <1>5 DEF RestoreSetSaveId, Goto, card, ghost, rest
  <2>. QED
    BY DEF LaunchInv, Restoring, AllOwned
<1>6. CASE PreallocateFile \/ RestoreLoadChunk \/ RestoreCloseFile
  <2>. /\ Restoring /\ UNCHANGED <<cur, ini, outer>>
       /\ \/ pc' \in {"prepare", "load", "closefile", "ini"}
          \/ pc' = "confirm" /\ result' # "ok"
    BY <1>6 DEF PreallocateFile, RestoreLoadChunk, RestoreCloseFile, RestoreFails, GrowFile,
                Restoring, Goto, cpu, card, rest
  <2>. QED
    BY DEF LaunchInv, Restoring
<1>7. CASE RestoreOpenIni
  <2>. /\ Restoring /\ UNCHANGED <<cur, outer, store>>
       /\ \/ pc' = "write" /\ ini' \in {ini, EmptyIni}
          \/ pc' = "confirm" /\ ini' = NoIni
          \/ pc' = "confirm" /\ result' # "ok" /\ ini' = ini
    BY <1>7 DEF RestoreOpenIni, RestoreFails, Restoring, Goto, cpu, cart, rest
  <2>. QED
    BY DEF LaunchInv, Restoring, LiveIni, NoIni, EmptyIni, AllOwned
<1>8. CASE RestoreWriteIni
  <2>1. /\ pc = "write" /\ Restoring /\ pc' = "confirm" /\ UNCHANGED <<cur, outer, store>>
        /\ ini' = IniOf(cur) \/ (ini' = ini /\ result' # "ok")
    BY <1>8 DEF RestoreWriteIni, RestoreFails, Restoring, Goto, cpu, cart, rest
  <2>2. todo = {}
    BY <2>1 DEF TypeInv, TurnInv
  <2>3. \A m \in Needs[cur] \ {"FLASH"} : AllOwned(store', m, cur)
    BY <2>1, <2>2 DEF RestoreInv, AllOwned
  <2>. QED
    BY <2>1, <2>3 DEF LaunchInv, Restoring, IniOf, LiveIni
<1>9. CASE AcceptLaunch
  <2>1. pc = "confirm" /\ pc' = "bootstub" /\ chunk' = 1 /\ UNCHANGED <<cur, ini>>
        /\ result \in {"ok", "mcu"}
    BY <1>9 DEF AcceptLaunch, Goto, card, TypeOK
  <2>2. result = "mcu" => ~LiveIni(ini)
    BY <1>9 DEF AcceptLaunch, McuDialog, Unharmed
  <2>. QED
    BY <2>1, <2>2 DEF LaunchInv, Restoring, LiveIni, Chunk
<1>10. CASE BootstubLoad
  <2>1. pc = "bootstub" /\ pc' \in {"bootstub", "game", "halted"} /\ UNCHANGED <<cur, ini>>
    BY <1>10 DEF BootstubLoad, Goto, card
  <2>2. ASSUME pc' = "bootstub", LiveIni(ini), "FLASH" \in Needs[cur],
               NEW d \in Chunk, d < chunk'
        PROVE  Owned(store'["FLASH"][d], cur)
    <3>. DEFINE v == IF result = "ok" THEN data[cur]["FLASH"][chunk] ELSE Fill
    <3>1. chunk' = chunk + 1 /\ store' = [store EXCEPT !["FLASH"][chunk] = v]
      BY <1>10, <2>2 DEF BootstubLoad, Goto
    <3>2. Owned(v, cur)
      BY <2>1, FillOwned DEF FilesHoldOwnSaves, Media, TypeInv, TurnInv
    <3>3. d < chunk \/ d = chunk
      BY <2>2, <3>1, ConstantFacts DEF Chunk
    <3>4. d < chunk => Owned(store["FLASH"][d], cur)
      BY <2>1, <2>2 DEF LaunchInv
    <3>. HIDE DEF v
    <3>5. store'["FLASH"][d] = IF d = chunk THEN v ELSE store["FLASH"][d]
      BY <3>1 DEF TypeOK, Media
    <3>. QED
      BY <3>2, <3>3, <3>4, <3>5
  <2>. QED
    BY <2>1, <2>2 DEF LaunchInv, Restoring
<1>11. CASE GameWrite
  BY <1>11 DEF GameWrite, LaunchInv, Restoring, cpu, card
<1>12. CASE LaunchOther \/ EraseSave \/ OtherWrite
  BY <1>12 DEF LaunchOther, EraseSave, OtherWrite, LaunchInv, Restoring, Goto, cpu, card
<1>13. CASE RemoteReturns
  BY <1>13 DEF RemoteReturns, Unharmed
<1>14. CASE FactoryReset \/ SoftReset \/ PowerCycle
  BY <1>14 DEF FactoryReset, SoftReset, PowerCycle, LaunchInv, Restoring, Goto
<1>15. CASE UNCHANGED vars
  BY <1>15 DEF vars, cpu, card, cart, rest, LaunchInv, Restoring, AllOwned
<1>. QED
  BY <1>1, <1>2, <1>3, <1>4, <1>5, <1>6, <1>7, <1>8, <1>9, <1>10, <1>11, <1>12, <1>13, <1>14, <1>15
     DEF Next, Firmware, Backup, Restore, User, World

LEMMA OwnInit == Init => OwnInv
<1>. SUFFICES ASSUME Init PROVE OwnInv
  OBVIOUS
<1>1. FilesHoldOwnSaves
  BY DEF Init, FilesHoldOwnSaves, Owned, Fill
<1>2. Vouched /\ BackupInv /\ RestoreInv /\ LaunchInv
  BY DEF Init, Vouched, LiveIni, NoIni, BackupInv, RestoreInv, Restoring, LaunchInv
<1>. QED
  BY <1>1, <1>2 DEF OwnInv

LEMMA OwnStep == IInv /\ [Next]_vars => IInv'
<1>. SUFFICES ASSUME IInv, [Next]_vars PROVE IInv'
  OBVIOUS
<1>1. TypeInv /\ TypeInv'
  BY TypeStep DEF IInv
<1>2. ASSUME Unharmed'
      PROVE  FilesHoldOwnSaves' /\ Vouched' /\ BackupInv' /\ RestoreInv' /\ LaunchInv'
  <2>1. FilesHoldOwnSaves /\ Vouched /\ BackupInv /\ RestoreInv /\ LaunchInv
    BY <1>2, HolesGrow DEF IInv, OwnInv
  <2>. QED
    BY <1>1, <1>2, <2>1, FilesStep, VouchedStep, BackupStep, RestoreStep, LaunchStep
<1>. QED
  BY <1>1, <1>2 DEF IInv, OwnInv

(* A save file holds only what its own game wrote, or fill bytes, as long   *)
(* as no abandoned launch has left SAVE.INI behind: the backup never        *)
(* follows SAVE.INI into a file whose data is not in the media.             *)
THEOREM SavesKeepTheirOwner == Spec => []FilesOwn
<1>1. Init => IInv
  BY TypeInit, OwnInit DEF IInv
<1>2. IInv => FilesOwn
  BY DEF IInv, OwnInv, Unharmed, FilesOwn
<1>. QED
  BY <1>1, <1>2, OwnStep, PTL DEF Spec
-----------------------------------------------------------------------------
(* Save files during a launch *)

(* A prepared file is its own preparation, a created one prepares as fill.  *)
LEMMA GrowKeeps ==
    ASSUME TypeInv, NEW h \in Games, NEW k \in Media, GrowFile(h, k),
           NEW g \in Games, NEW m \in Media
    PROVE  Prepared(g, m)' = Prepared(g, m)
<1>. /\ size \in [Games -> [Media -> {Absent} \cup 0..Chunks]]
     /\ data \in [Games -> [Media -> [Chunk -> Content]]]
     /\ \A c \in Chunk : c <= Chunks
  BY ConstantFacts DEF TypeInv, TypeOK, Chunk
<1>1. CASE g = h /\ m = k
  <2>1. size'[g][m] = Chunks
    BY <1>1 DEF GrowFile
  <2>2. data'[g][m] = Prepared(g, m)
    BY <1>1 DEF GrowFile
  <2>3. Prepared(g, m)' = [c \in Chunk |-> Prepared(g, m)[c]]
    BY <2>1, <2>2 DEF Prepared
  <2>. QED
    BY <2>3 DEF Prepared
<1>2. CASE ~(g = h /\ m = k)
  <2>1. size'[g][m] = size[g][m] /\ data'[g][m] = data[g][m]
    BY <1>2 DEF GrowFile
  <2>. QED
    BY <2>1 DEF Prepared
<1>. QED
  BY <1>1, <1>2

LEMMA CreateKeeps ==
    ASSUME TypeInv, NEW h \in Games, NEW k \in Media, NEW g \in Games, NEW m \in Media,
           UNCHANGED data, size' = [size EXCEPT ![h][k] = IF @ = Absent THEN 0 ELSE @]
    PROVE  Prepared(g, m)' = Prepared(g, m)
<1>. size \in [Games -> [Media -> {Absent} \cup 0..Chunks]]
  BY DEF TypeInv, TypeOK
<1>1. \/ size'[g][m] = size[g][m]
      \/ size[g][m] = Absent /\ size'[g][m] = 0
  OBVIOUS
<1>2. CASE size'[g][m] = size[g][m]
  BY <1>2 DEF Prepared
<1>3. CASE size[g][m] = Absent /\ size'[g][m] = 0
  <2>1. \A c \in Chunk : ~(c <= Absent) /\ ~(c <= 0)
    BY ConstantFacts DEF Chunk, Absent
  <2>2. Absent # Chunks /\ 0 # Chunks
    BY ConstantFacts DEF Absent
  <2>. QED
    BY <1>3, <2>1, <2>2 DEF Prepared
<1>. QED
  BY <1>1, <1>2, <1>3

Launching == pc \in {"setid", "prepare", "load", "closefile", "ini", "write"}

LEMMA KeepStep ==
    ASSUME TypeInv, Next, Launching, NEW g \in Games, NEW m \in Needs[g]
    PROVE  Prepared(g, m)' = Prepared(g, m)
<1>. m \in Media
  BY ConstantFacts
<1>1. CASE UNCHANGED <<size, data>>
  BY <1>1 DEF Prepared
<1>2. CASE PreallocateFile
  <2>1. todo # {} => cur \in Games /\ NextMedium(todo) \in Media
    BY NextInTodo DEF TypeInv, TypeOK, TurnInv
  <2>. QED
    BY <1>1, <1>2, <2>1, CreateKeeps DEF PreallocateFile, card
<1>3. CASE RestoreLoadChunk \/ RestoreCloseFile
  <2>1. cur \in Games /\ NextMedium(todo) \in Media
    BY <1>3, NextInTodo DEF RestoreLoadChunk, RestoreCloseFile, TypeInv, TypeOK, TurnInv
  <2>. QED
    BY <1>1, <1>3, <2>1, GrowKeeps DEF RestoreLoadChunk, RestoreCloseFile, card
<1>4. CASE RestoreSetSaveId \/ RestoreOpenIni \/ RestoreWriteIni \/ PowerCycle
  BY <1>1, <1>4 DEF RestoreSetSaveId, RestoreOpenIni, RestoreWriteIni, PowerCycle, card
<1>. QED
  BY <1>2, <1>3, <1>4
     DEF Next, Firmware, Backup, Restore, User, World, Launching, Waiting,
         BackupOpenIni, BackupEntry, BackupStoreChunk, BackupCloseFile, BackupUnlinkIni,
         BackupClearSaveId, BootstubLoad, LaunchRom, AbortLaunch, AcceptLaunch, LaunchOther,
         EraseSave, FactoryReset, RemoteLaunch, RemoteReturns, GameWrite, OtherWrite, SoftReset

(* Whatever fails during a launch, what a save file gives its game is       *)
(* unchanged: launch_restore_save_data only ever adds fill bytes.           *)
THEOREM LaunchKeepsFiles == Spec => RestoreKeepsFiles
<1>1. TypeInv /\ [Next]_vars =>
          [Launching => \A g \in Games : \A m \in Needs[g] : Prepared(g, m)' = Prepared(g, m)]_vars
  BY KeepStep
<1>. QED
  BY TypeInit, TypeStep, <1>1, PTL DEF Spec, RestoreKeepsFiles, Launching

-----------------------------------------------------------------------------

(* A launch is done with a medium of its game: the file has the medium's    *)
(* length and the medium holds what the file gives.                         *)
Restored(m) == size[cur][m] = Chunks /\ (m # "FLASH" => store[m] = Prepared(cur, m))

(* launch_restore_save_data leaves every medium it is done with restored,   *)
(* the one it is at up to the chunk it copies next.                         *)
LoadInv ==
    /\ pc = "setid" => todo = Needs[cur]
    /\ Restoring => \A m \in Needs[cur] : m \notin todo => Restored(m)
    /\ pc = "load" =>
          /\ NextMedium(todo) # "FLASH"
          /\ \A c \in Chunk : c < chunk =>
                store[NextMedium(todo)][c] = Prepared(cur, NextMedium(todo))[c]
    /\ pc = "closefile" /\ NextMedium(todo) # "FLASH" =>
          store[NextMedium(todo)] = Prepared(cur, NextMedium(todo))

(* A launch without an error goes on to a game that sees its save data.     *)
StartInv ==
    /\ pc \in {"confirm", "bootstub"} /\ result = "ok" => \A m \in Needs[cur] : Restored(m)
    /\ pc = "bootstub" /\ result = "ok" =>
          /\ \A m \in Needs[cur] : latest[cur][m] = Prepared(cur, m)
          /\ "FLASH" \in Needs[cur] =>
                \A c \in Chunk : c < chunk => store["FLASH"][c] = latest[cur]["FLASH"][c]
    /\ pc = "game" /\ result = "ok" => \A m \in Needs[cur] : store[m] = latest[cur][m]

(* A launch of the remote shell that fails inside another one returns to a  *)
(* launch whose media it has changed.                                       *)
SeesInv == "remote" \notin holes => LoadInv /\ StartInv

(* The save on the card is the one the game left, or the user knows.        *)
Safe(g, m) == <<g, m>> \in told \/ Prepared(g, m) = latest[g][m]

(* The saves that need not be safe: those SAVE.INI entrusts to the media    *)
(* while the game runs, and those a backup has still to copy.               *)
Entrusted(g, m) ==
    \/ pc \in {"game", "boot"} /\ LiveIni(ini) /\ g = ini.id
    \/ pc \in {"entry", "store", "close", "unlink", "clear"} /\ g = cur /\ m \in todo

(* A save is safe or entrusted.                                            *)
SafeInv == \A g \in Games : \A m \in Needs[g] : Entrusted(g, m) \/ Safe(g, m)

(* A SAVE.INI lists media whose files have the full length, it belongs to   *)
(* the launch that wrote it, and a game launched without one was risked by  *)
(* a warned user.                                                           *)
IniInv ==
    /\ LiveIni(ini) => \A m \in ini.has : size[ini.id][m] = Chunks
    /\ pc \in {"bootstub", "game"} /\ LiveIni(ini) => result = "ok"
    /\ pc \in {"confirm", "bootstub", "game"} /\ result = "ok" /\ Needs[cur] # {} =>
          ini = IniOf(cur)
    /\ pc \in {"bootstub", "game"} /\ result # "ok" => {cur} \X Needs[cur] \subseteq told

(* Until the game starts, a medium that the next boot would back up holds   *)
(* what its file gives: the backup changes nothing.                         *)
LoadedInv ==
    LiveIni(ini) => \A m \in ini.has \ {"FLASH"} :
        (\/ pc = "setid"
         \/ pc = "confirm" /\ outer = NoLaunch
         \/ Restoring /\ SaveId(m) = ini.id) => store[m] = Prepared(ini.id, m)

(* What a vouched-for medium may hold: what its game left, or, if the game  *)
(* never started, what the file gives.                                      *)
Held(m) ==
    \/ store[m] = latest[ini.id][m]
    \/ Safe(ini.id, m) /\ store[m] = Prepared(ini.id, m)

(* Every medium that the next backup would accept holds such a save.        *)
HeldInv ==
    LiveIni(ini) => \A m \in ini.has : Settled(m) /\ SaveId(m) = ini.id => Held(m)

(* A backup has copied the chunks it has passed, and reports an error when  *)
(* it leaves a medium out.                                                  *)
CopyInv ==
    /\ pc = "unlink" => cur = ini.id /\ todo \subseteq ini.has
    /\ pc \in {"unlink", "clear"} /\ todo # {} => result = "err"
    /\ pc \in {"store", "close"} =>
          \A c \in Chunk : c < (IF pc = "store" THEN chunk ELSE Chunks) =>
              data[cur][NextEntry(todo)][c] = store[NextEntry(todo)][c]

(* The inductive invariant of NoSilentLoss and SaveIdVouches.               *)
KeepInv == holes = {} => SafeInv /\ IniInv /\ LoadedInv /\ HeldInv /\ CopyInv

(* All of it, with whose data is where (IInv).                              *)
VInv == IInv /\ SeesInv /\ KeepInv
-----------------------------------------------------------------------------
(* Saves and files *)

(* Two saves with the same chunks are the same.                             *)
LEMMA SameSave ==
    ASSUME NEW a \in [Chunk -> Content], NEW b \in [Chunk -> Content],
           \A c \in Chunk : a[c] = b[c]
    PROVE  a = b
OBVIOUS

(* What media, files and saves consist of.                                  *)
LEMMA MediaTypes ==
    ASSUME TypeInv, NEW g \in Games, NEW m \in Media
    PROVE  /\ store[m] \in [Chunk -> Content] /\ data[g][m] \in [Chunk -> Content]
           /\ latest[g][m] \in [Chunk -> Content] /\ Prepared(g, m) \in [Chunk -> Content]
BY PreparedType DEF TypeInv, TypeOK

(* A file of its medium's length gives the game all that it holds.          *)
LEMMA FullFile ==
    ASSUME TypeInv, NEW g \in Games, NEW m \in Media, size[g][m] = Chunks
    PROVE  Prepared(g, m) = data[g][m]
<1>1. \A c \in Chunk : Prepared(g, m)[c] = data[g][m][c]
  BY DEF Prepared
<1>. QED
  BY <1>1, MediaTypes, SameSave

(* preallocate_file creating a file leaves the full files as they are.      *)
LEMMA CreateSizes ==
    ASSUME TypeInv, NEW h \in Games, NEW k \in Media, NEW g \in Games, NEW m \in Media,
           size' \in {size, [size EXCEPT ![h][k] = IF @ = Absent THEN 0 ELSE @]},
           size[g][m] = Chunks
    PROVE  size'[g][m] = Chunks
<1>1. size \in [Games -> [Media -> {Absent} \cup 0..Chunks]] /\ Chunks # Absent
  BY ConstantFacts DEF TypeInv, TypeOK, Absent
<1>. QED
  BY <1>1

(* preallocate_file growing a file makes it full, and shortens none.        *)
LEMMA GrowSizes ==
    ASSUME TypeInv, NEW h \in Games, NEW k \in Media, NEW g \in Games, NEW m \in Media,
           GrowFile(h, k)
    PROVE  /\ size[g][m] = Chunks => size'[g][m] = Chunks
           /\ size'[h][k] = Chunks
<1>1. size \in [Games -> [Media -> {Absent} \cup 0..Chunks]]
  BY DEF TypeInv, TypeOK
<1>. QED
  BY <1>1 DEF GrowFile

(* The medium a restore is at.                                              *)
LEMMA AtMedium ==
    ASSUME TypeInv, todo # {}
    PROVE  /\ cur \in Games /\ todo \subseteq Needs[cur] /\ Needs[cur] \subseteq Media
           /\ NextMedium(todo) \in todo /\ NextEntry(todo) \in todo
BY NextInTodo, ConstantFacts DEF TypeInv, TypeOK, TurnInv
-----------------------------------------------------------------------------
(* What a launch leaves in the media *)

(* Each step of launch_restore_save_data adds a chunk or a medium.          *)
LEMMA LoadStep ==
    ASSUME TypeInv, LoadInv, [Next]_vars
    PROVE  LoadInv'
<1>. SUFFICES ASSUME pc' = "setid" \/ Restoring' PROVE LoadInv'
  BY DEF LoadInv, Restoring
<1>1. CASE LaunchRom \/ RemoteLaunch
  BY <1>1 DEF LaunchRom, RemoteLaunch, Goto, LoadInv, Restoring
<1>2. CASE RestoreSetSaveId
  BY <1>2 DEF RestoreSetSaveId, LoadInv, Restoring, Goto
<1>3. CASE PreallocateFile
  <2>1. /\ UNCHANGED <<cur, todo, store, data>> /\ Restoring /\ Launching
        /\ pc' = "load" => chunk' = 1 /\ NextMedium(todo) # "FLASH"
        /\ pc' = "closefile" => NextMedium(todo) = "FLASH"
        /\ pc' \in {"ini", "load", "closefile"} /\ cur \in Games
    BY <1>3 DEF PreallocateFile, RestoreFails, cpu, card, cart, Goto, Restoring, Launching,
                TypeInv, TurnInv
  <2>2. \A m \in Needs[cur] : Prepared(cur, m)' = Prepared(cur, m)
    BY <1>3, <2>1, KeepStep DEF Next, Firmware, Restore
  <2>3. ASSUME NEW m \in Needs[cur], m \notin todo PROVE Restored(m)'
    <3>1. m \in Media /\ Restored(m)
      BY <2>1, <2>3, ConstantFacts DEF LoadInv
    <3>2. todo # {} => NextMedium(todo) \in Media
      BY AtMedium
    <3>3. size' = size \/ (todo # {} /\ size' \in {size, [size EXCEPT ![cur][NextMedium(todo)] =
                                                      IF @ = Absent THEN 0 ELSE @]})
      BY <1>3 DEF PreallocateFile, card
    <3>4. size'[cur][m] = Chunks
      BY <2>1, <3>1, <3>2, <3>3, CreateSizes DEF Restored
    <3>. QED
      BY <2>1, <2>2, <2>3, <3>1, <3>4 DEF Restored
  <2>. QED
    BY <2>1, <2>3, ConstantFacts DEF LoadInv, Restoring, Restored, Chunk
<1>4. CASE RestoreLoadChunk
  <2>. DEFINE m == NextMedium(todo)
  <2>1. /\ UNCHANGED <<cur, todo, size, data>> /\ pc = "load" /\ Restoring
        /\ store' = [store EXCEPT ![m][chunk] = Prepared(cur, m)[chunk]]
        /\ \/ pc' = "closefile" /\ chunk = Chunks
           \/ pc' = "load" /\ chunk' = chunk + 1
    BY <1>4 DEF RestoreLoadChunk, RestoreFails, Goto, Restoring, card
  <2>2. cur \in Games /\ m \in todo /\ m \in Media /\ m # "FLASH" /\ chunk \in Chunk
    BY <2>1, AtMedium DEF LoadInv, TypeInv, TypeOK, TurnInv
  <2>3. \A k \in Media : Prepared(cur, k)' = Prepared(cur, k)
    BY <2>1 DEF Prepared
  <2>4. \A k \in Media : k # m => store'[k] = store[k]
    BY <2>1, <2>2 DEF TypeInv, TypeOK
  <2>5. \A d \in Chunk : d < chunk => store[m][d] = Prepared(cur, m)[d]
    BY <2>1 DEF LoadInv
  <2>6. \A d \in Chunk : store'[m][d] = IF d = chunk THEN Prepared(cur, m)[chunk] ELSE store[m][d]
    <3>. DEFINE v == Prepared(cur, m)[chunk]
    <3>. HIDE DEF m, v
    <3>1. store' = [store EXCEPT ![m][chunk] = v]
      BY <2>1 DEF m, v
    <3>2. \A d \in Chunk : store'[m][d] = IF d = chunk THEN v ELSE store[m][d]
      BY <2>2, <3>1 DEF TypeInv, TypeOK
    <3>. QED
      BY <3>2 DEF v
  <2>7. \A k \in Needs[cur] : k \notin todo => Restored(k)'
    BY <2>1, <2>2, <2>3, <2>4, ConstantFacts DEF LoadInv, Restored
  <2>8. pc' = "load" => \A d \in Chunk : d < chunk' => store'[m][d] = Prepared(cur, m)[d]
    <3>. SUFFICES ASSUME pc' = "load", NEW d \in Chunk, d < chunk'
                  PROVE  store'[m][d] = Prepared(cur, m)[d]
      OBVIOUS
    <3>1. d < chunk \/ d = chunk
      BY <2>1, <2>2, ConstantFacts DEF Chunk
    <3>. QED
      BY <2>5, <2>6, <3>1
  <2>9. pc' = "closefile" => store'[m] = Prepared(cur, m)
    <3>. SUFFICES ASSUME pc' = "closefile" PROVE store'[m] = Prepared(cur, m)
      OBVIOUS
    <3>1. \A d \in Chunk : d < chunk \/ d = chunk
      BY <2>1, ConstantFacts DEF Chunk
    <3>2. \A d \in Chunk : store'[m][d] = Prepared(cur, m)[d]
      BY <2>5, <2>6, <3>1
    <3>3. store'[m] \in [Chunk -> Content] /\ Prepared(cur, m) \in [Chunk -> Content]
      BY <1>4, <2>2, StoreTypes, MediaTypes
    <3>. QED
      BY <3>2, <3>3, SameSave
  <2>10. NextMedium(todo)' = m
    BY <2>1 DEF NextMedium
  <2>. HIDE DEF m
  <2>. QED
    BY <2>1, <2>2, <2>3, <2>7, <2>8, <2>9, <2>10 DEF LoadInv, Restoring
<1>5. CASE RestoreCloseFile
  <2>. DEFINE m == NextMedium(todo)
  <2>1. /\ UNCHANGED <<cur, store>> /\ todo' = todo \ {m} /\ pc = "closefile" /\ pc' = "prepare"
        /\ GrowFile(cur, m) /\ Restoring /\ Launching
    BY <1>5 DEF RestoreCloseFile, RestoreFails, cart, Goto, Restoring, Launching
  <2>2. cur \in Games /\ m \in todo /\ m \in Media
    BY <2>1, AtMedium DEF TypeInv, TurnInv
  <2>3. \A k \in Needs[cur] : Prepared(cur, k)' = Prepared(cur, k)
    BY <1>5, <2>1, <2>2, KeepStep DEF Next, Firmware, Restore
  <2>4. ASSUME NEW k \in Needs[cur], k \notin todo' PROVE Restored(k)'
    <3>1. k \in Media
      BY <2>2, ConstantFacts
    <3>2. k = m \/ Restored(k)
      BY <2>1, <2>4 DEF LoadInv
    <3>3. size'[cur][k] = Chunks
      BY <2>1, <2>2, <3>1, <3>2, GrowSizes DEF Restored
    <3>4. k # "FLASH" => store[k] = Prepared(cur, k)
      BY <2>1, <3>2 DEF LoadInv, Restored
    <3>. QED
      BY <2>1, <2>3, <2>4, <3>3, <3>4 DEF Restored
  <2>. QED
    BY <2>1, <2>4 DEF LoadInv, Restoring
<1>6. CASE RestoreOpenIni
  <2>1. UNCHANGED <<cur, todo, store, size, data>> /\ Restoring /\ pc' = "write"
    BY <1>6 DEF RestoreOpenIni, RestoreFails, cpu, cart, Goto, Restoring
  <2>2. \A m \in Needs[cur] : Restored(m) => Restored(m)'
    BY <2>1 DEF Restored, Prepared
  <2>. QED
    BY <2>1, <2>2 DEF LoadInv, Restoring
<1>7. CASE UNCHANGED vars
  <2>1. UNCHANGED <<pc, cur, todo, chunk, store, size, data>>
    BY <1>7 DEF vars, cpu, card, cart
  <2>2. \A m \in Needs[cur] : Restored(m) => Restored(m)'
    BY <2>1 DEF Restored, Prepared
  <2>3. Prepared(cur, NextMedium(todo))' = Prepared(cur, NextMedium(todo))
    BY <2>1 DEF Prepared, NextMedium
  <2>4. NextMedium(todo)' = NextMedium(todo)
    BY <2>1 DEF NextMedium
  <2>. QED
    BY <2>1, <2>2, <2>3, <2>4 DEF LoadInv, Restoring
<1>. QED
  BY <1>1, <1>2, <1>3, <1>4, <1>5, <1>6, <1>7
     DEF Next, Firmware, Backup, Restore, User, World, Goto, EnterMenu, RestoreFails, Restoring,
         BackupOpenIni, BackupEntry, BackupStoreChunk, BackupCloseFile, BackupFails,
         BackupUnlinkIni, BackupClearSaveId, RestoreWriteIni, BootstubLoad, AbortLaunch,
         AcceptLaunch, LaunchOther, EraseSave, FactoryReset, RemoteReturns,
         GameWrite, OtherWrite, SoftReset, PowerCycle

(* From the end of the launch over the bootstub into the game.              *)
LEMMA StartStep ==
    ASSUME TypeInv, LoadInv, StartInv, "remote" \notin holes', [Next]_vars
    PROVE  StartInv'
<1>. SUFFICES ASSUME pc' \in {"confirm", "bootstub", "game"}, result' = "ok" PROVE StartInv'
  BY DEF StartInv
<1>1. CASE RestoreOpenIni \/ RestoreWriteIni
  <2>1. /\ UNCHANGED <<cur, store, size, data>> /\ Restoring /\ todo = {} /\ pc' = "confirm"
    BY <1>1 DEF RestoreOpenIni, RestoreWriteIni, RestoreFails, cpu, cart, Goto, Restoring,
                TypeInv, TurnInv
  <2>2. \A m \in Needs[cur] : Restored(m)
    BY <2>1 DEF LoadInv
  <2>3. \A m \in Needs[cur] : Restored(m) => Restored(m)'
    BY <2>1 DEF Restored, Prepared
  <2>. QED
    BY <2>1, <2>2, <2>3 DEF StartInv
<1>2. CASE AcceptLaunch
  <2>1. /\ UNCHANGED <<cur, result, store, size, data>> /\ pc = "confirm" /\ pc' = "bootstub"
        /\ latest' = [latest EXCEPT ![cur] = [m \in Media |-> Prepared(cur, m)]]
        /\ chunk' = 1 /\ cur \in Games
    BY <1>2 DEF AcceptLaunch, card, cart, Goto, TypeInv, TurnInv
  <2>2. \A m \in Media : latest'[cur][m] = Prepared(cur, m) /\ Prepared(cur, m)' = Prepared(cur, m)
    <3>1. latest \in [Games -> [Media -> [Chunk -> Content]]]
      BY DEF TypeInv, TypeOK
    <3>2. \A m \in Media : Prepared(cur, m)' = Prepared(cur, m)
      BY <2>1 DEF Prepared
    <3>. QED
      BY <2>1, <3>1, <3>2
  <2>3. \A m \in Needs[cur] : Restored(m) => Restored(m)'
    BY <2>1, <2>2, ConstantFacts DEF Restored
  <2>. QED
    BY <2>1, <2>2, <2>3, ConstantFacts DEF StartInv, Chunk
<1>3. CASE BootstubLoad
  <2>. DEFINE v == data[cur]["FLASH"][chunk]
  <2>1. /\ UNCHANGED <<cur, result, size, data, latest>> /\ pc = "bootstub" /\ cur \in Games
        /\ \/ pc' = "game" /\ chunk = Chunks
           \/ pc' = "bootstub" /\ chunk' = chunk + 1
        /\ "FLASH" \in Needs[cur] => store' = [store EXCEPT !["FLASH"][chunk] = v]
        /\ \A m \in Media : m # "FLASH" => store'[m] = store[m]
        /\ chunk \in Chunk /\ "FLASH" \in Media
    BY <1>3 DEF BootstubLoad, card, rest, ghost, Goto, TypeInv, TypeOK, TurnInv, Media
  <2>2. \A m \in Media : Prepared(cur, m)' = Prepared(cur, m)
    BY <2>1 DEF Prepared
  <2>3. ASSUME NEW m \in Needs[cur]
        PROVE  /\ latest[cur][m] = Prepared(cur, m) /\ size[cur][m] = Chunks
               /\ m # "FLASH" => store'[m] = Prepared(cur, m)
    BY <2>1, <2>3, ConstantFacts DEF StartInv, Restored
  <2>4. ASSUME "FLASH" \in Needs[cur], NEW d \in Chunk, d < chunk \/ d = chunk
        PROVE  store'["FLASH"][d] = latest[cur]["FLASH"][d]
    <3>1. v = latest[cur]["FLASH"][chunk]
      BY <2>1, <2>3, <2>4, FullFile
    <3>2. d < chunk => store["FLASH"][d] = latest[cur]["FLASH"][d]
      BY <2>1, <2>4 DEF StartInv
    <3>. HIDE DEF v
    <3>3. store'["FLASH"][d] = IF d = chunk THEN v ELSE store["FLASH"][d]
      BY <2>1, <2>4 DEF TypeInv, TypeOK
    <3>. QED
      BY <2>4, <3>1, <3>2, <3>3
  <2>5. CASE pc' = "game"
    <3>1. ASSUME "FLASH" \in Needs[cur] PROVE store'["FLASH"] = latest[cur]["FLASH"]
      <4>1. \A d \in Chunk : d < chunk \/ d = chunk
        BY <2>1, <2>5, ConstantFacts DEF Chunk
      <4>2. \A d \in Chunk : store'["FLASH"][d] = latest[cur]["FLASH"][d]
        BY <2>4, <3>1, <4>1
      <4>3. store'["FLASH"] \in [Chunk -> Content] /\ latest[cur]["FLASH"] \in [Chunk -> Content]
        BY <1>3, <2>1, StoreTypes, MediaTypes
      <4>. QED
        BY <4>2, <4>3, SameSave
    <3>. QED
      BY <2>1, <2>3, <2>5, <3>1 DEF StartInv
  <2>6. CASE pc' = "bootstub"
    <3>1. \A d \in Chunk : d < chunk' => d < chunk \/ d = chunk
      BY <2>1, <2>6 DEF Chunk
    <3>2. \A m \in Needs[cur] : Restored(m)'
      BY <2>1, <2>2, <2>3, ConstantFacts DEF Restored
    <3>3. \A m \in Needs[cur] : latest'[cur'][m] = Prepared(cur, m)'
      BY <2>1, <2>2, <2>3, ConstantFacts
    <3>. QED
      BY <2>1, <2>4, <2>6, <3>1, <3>2, <3>3 DEF StartInv
  <2>. QED
    BY <2>1, <2>5, <2>6
<1>4. CASE GameWrite
  <2>1. UNCHANGED <<pc, cur, result>> /\ pc = "game" /\ cur \in Games
    BY <1>4 DEF GameWrite, cpu, TypeInv, TurnInv
  <2>2. PICK k \in Needs[cur], c \in Chunk, v \in 0..MaxVer :
            /\ store' = [store EXCEPT ![k][c] = [by |-> cur, ver |-> v]]
            /\ latest' = [latest EXCEPT ![cur][k][c] = [by |-> cur, ver |-> v]]
    BY <1>4 DEF GameWrite
  <2>. DEFINE w == [by |-> cur, ver |-> v]
  <2>. HIDE DEF w
  <2>3. store' = [store EXCEPT ![k][c] = w] /\ latest' = [latest EXCEPT ![cur][k][c] = w]
    BY <2>2 DEF w
  <2>4. \A m \in Needs[cur] : store[m] = latest[cur][m]
    BY <2>1 DEF StartInv
  <2>5. \A m \in Needs[cur] : store'[m] = latest'[cur][m]
    BY <2>1, <2>3, <2>4, ConstantFacts DEF TypeInv, TypeOK
  <2>. QED
    BY <2>1, <2>5 DEF StartInv
<1>5. CASE UNCHANGED vars
  <2>1. UNCHANGED <<pc, cur, chunk, result, store, size, data, latest>>
    BY <1>5 DEF vars, cpu, card, cart, rest, ghost
  <2>2. \A m \in Needs[cur] : Restored(m) => Restored(m)'
    BY <2>1 DEF Restored, Prepared
  <2>3. \A m \in Media : Prepared(cur, m)' = Prepared(cur, m)
    BY <2>1 DEF Prepared
  <2>4. pc \in {"confirm", "bootstub", "game"} => cur \in Games
    BY DEF TypeInv, TurnInv
  <2>. QED
    BY <2>1, <2>2, <2>3, <2>4, ConstantFacts DEF StartInv
<1>. QED
  BY <1>1, <1>2, <1>3, <1>4, <1>5
     DEF Next, Firmware, Backup, Restore, User, World, Goto, EnterMenu, RestoreFails, Restoring,
         BackupOpenIni, BackupEntry, BackupStoreChunk, BackupCloseFile, BackupFails,
         BackupUnlinkIni, BackupClearSaveId, RestoreSetSaveId, PreallocateFile, RestoreLoadChunk,
         RestoreCloseFile, AbortLaunch, LaunchRom, LaunchOther, EraseSave, FactoryReset,
         RemoteLaunch, RemoteReturns, OtherWrite, SoftReset, PowerCycle

(* At power-on nothing is being launched.                                   *)
LEMMA SeesInit == Init => SeesInv
BY DEF Init, SeesInv, LoadInv, StartInv, Restoring

(* Every step keeps SeesInv, as long as no remote launch fails in another.  *)
LEMMA SeesStep ==
    ASSUME TypeInv, SeesInv, [Next]_vars
    PROVE  SeesInv'
<1>1. "remote" \notin holes' => "remote" \notin holes
  BY DEF Next, Firmware, Backup, Restore, User, World, vars, cpu, card, cart, rest, ghost,
       BackupOpenIni, BackupEntry, BackupStoreChunk, BackupCloseFile, BackupUnlinkIni,
       BackupClearSaveId, EnterMenu, BackupFails, RestoreFails, RestoreSetSaveId, PreallocateFile,
       RestoreLoadChunk, RestoreCloseFile, RestoreOpenIni, RestoreWriteIni, BootstubLoad, LaunchRom,
       AbortLaunch, AcceptLaunch, LaunchOther, EraseSave, FactoryReset, RemoteLaunch, RemoteReturns,
       GameWrite, OtherWrite, SoftReset, PowerCycle
<1>. QED
  BY <1>1, LoadStep, StartStep DEF SeesInv

(* A game that was prepared without an error runs on the save data it last  *)
(* left, for every set of games and every fault: each medium is loaded from *)
(* the file that the launch leaves, and from it only.                       *)
THEOREM GamesRunOnTheirSaves == Spec => []GameSeesItsSave
<1>1. Init => TypeInv /\ SeesInv
  BY TypeInit, SeesInit
<1>2. TypeInv /\ SeesInv /\ [Next]_vars => (TypeInv /\ SeesInv)'
  BY TypeStep, SeesStep
<1>3. SeesInv => GameSeesItsSave
  BY DEF SeesInv, StartInv, GameSeesItsSave, GamesGetTheirSaves
<1>. QED
  BY <1>1, <1>2, <1>3, PTL DEF Spec
-----------------------------------------------------------------------------
(* Saves between two visits to the file selector *)

(* The whole invariant, where no event outside the promise has happened.    *)
Keeping ==
    /\ holes = {}
    /\ TypeInv /\ BackupInv /\ RestoreInv /\ LaunchInv /\ LoadInv /\ StartInv
    /\ SafeInv /\ IniInv /\ LoadedInv /\ HeldInv /\ CopyInv

(* Keeping is VInv without its exceptions.                                  *)
LEMMA KeepingMeans == VInv /\ holes = {} <=> FilesHoldOwnSaves /\ Vouched /\ Keeping
BY DEF VInv, IInv, OwnInv, Unharmed, SeesInv, KeepInv, Keeping

(* No step takes back an event outside the promise.                         *)
LEMMA HolesStayEmpty == [Next]_vars /\ holes' = {} => holes = {}
BY DEF Next, Firmware, Backup, Restore, User, World, vars, cpu, card, cart, rest, ghost,
       BackupOpenIni, BackupEntry, BackupStoreChunk, BackupCloseFile, BackupUnlinkIni,
       BackupClearSaveId, EnterMenu, BackupFails, RestoreFails, RestoreSetSaveId, PreallocateFile,
       RestoreLoadChunk, RestoreCloseFile, RestoreOpenIni, RestoreWriteIni, BootstubLoad, LaunchRom,
       AbortLaunch, AcceptLaunch, LaunchOther, EraseSave, FactoryReset, RemoteLaunch, RemoteReturns,
       GameWrite, OtherWrite, SoftReset, PowerCycle

(* The save being backed up: its file is as long as its medium.             *)
LEMMA Copying ==
    ASSUME Keeping, pc \in {"store", "close"}
    PROVE  LET m == NextEntry(todo) IN
           /\ LiveIni(ini) /\ ini.id = cur /\ cur \in Games /\ m \in ini.has
           /\ m \in todo /\ m \in Media /\ m \in Needs[cur]
           /\ size[cur][m] = Chunks /\ SaveId(m) = cur
           /\ Prepared(cur, m) = data[cur][m] /\ Held(m)
<1>. DEFINE m == NextEntry(todo)
<1>1. todo # {} /\ todo \subseteq ini.has /\ ini.id = cur /\ SaveId(m) = cur /\ TypeInv
  BY DEF Keeping, TypeInv, TurnInv, BackupInv
<1>2. cur \in Games /\ m \in todo /\ m \in Media /\ m \in Needs[cur] /\ m \in ini.has
  BY <1>1, AtMedium
<1>3. LiveIni(ini)
  BY <1>2 DEF LiveIni
<1>4. size[cur][m] = Chunks
  BY <1>1, <1>2, <1>3 DEF Keeping, IniInv
<1>5. Prepared(cur, m) = data[cur][m]
  BY <1>1, <1>2, <1>4, FullFile
<1>6. Held(m)
  BY <1>1, <1>2, <1>3 DEF Keeping, HeldInv, Settled
<1>. QED
  BY <1>1, <1>2, <1>3, <1>4, <1>5, <1>6

(* A chunk that is copied to its file.                                      *)
LEMMA CopyChunk ==
    ASSUME Keeping, pc \in {"store", "close"}, NEW c \in Chunk, UNCHANGED size,
           data' = [data EXCEPT ![cur][NextEntry(todo)][c] = store[NextEntry(todo)][c]]
    PROVE  LET m == NextEntry(todo) IN
           \A g \in Games, k \in Media :
             /\ g # cur \/ k # m \/ store[m] = Prepared(cur, m) => Prepared(g, k)' = Prepared(g, k)
             /\ g = cur /\ k = m => Prepared(g, k)' = [Prepared(g, k) EXCEPT ![c] = store[m][c]]
<1>. DEFINE m == NextEntry(todo)
<1>. SUFFICES ASSUME NEW g \in Games, NEW k \in Media
              PROVE  /\ g # cur \/ k # m \/ store[m] = Prepared(cur, m) =>
                           Prepared(g, k)' = Prepared(g, k)
                     /\ g = cur /\ k = m =>
                           Prepared(g, k)' = [Prepared(g, k) EXCEPT ![c] = store[m][c]]
  OBVIOUS
<1>1. /\ cur \in Games /\ m \in Media /\ size[cur][m] = Chunks /\ Prepared(cur, m) = data[cur][m]
      /\ data \in [Games -> [Media -> [Chunk -> Content]]] /\ store[m] \in [Chunk -> Content]
  BY Copying DEF Keeping, TypeInv, TypeOK
<1>2. CASE g # cur \/ k # m
  <2>1. data'[g][k] = data[g][k]
    BY <1>1, <1>2
  <2>. QED
    BY <1>2, <2>1 DEF Prepared
<1>3. CASE g = cur /\ k = m
  <2>. DEFINE f == [data[g][k] EXCEPT ![c] = store[k][c]]
  <2>1. f \in [Chunk -> Content] /\ data'[g][k] = f /\ size'[g][k] = Chunks
    BY <1>1, <1>3
  <2>. HIDE DEF m, f
  <2>2. Prepared(g, k)' = [d \in Chunk |-> f[d]]
    BY <2>1 DEF Prepared
  <2>3. Prepared(g, k)' = f
    BY <2>1, <2>2
  <2>4. store[k] = data[g][k] => f = data[g][k]
    BY <1>1, <1>3, <2>1, SameSave DEF f
  <2>. QED
    BY <1>1, <1>3, <2>3, <2>4 DEF f
<1>. QED
  BY <1>2, <1>3

(* What a backup has copied, and what it reports.                           *)
LEMMA CopyStep ==
    ASSUME Keeping, [Next]_vars
    PROVE  CopyInv'
<1>1. CASE BackupEntry
  BY <1>1 DEF BackupEntry, BackupFails, Keeping, CopyInv, BackupInv, Goto, cpu, card, cart, Chunk
<1>2. CASE BackupStoreChunk
  <2>. DEFINE m == NextEntry(todo)
  <2>1. /\ pc = "store" /\ cur = ini.id /\ todo \subseteq ini.has
        /\ UNCHANGED <<cur, todo, ini, store>>
        /\ chunk \in Chunk /\ size[cur][m] = Chunks /\ cur \in Games /\ m \in Media
        /\ data \in [Games -> [Media -> [Chunk -> Content]]]
        /\ m = NextEntry(todo)'
    BY <1>2, Copying DEF BackupStoreChunk, BackupFails, Keeping, BackupInv, cpu, card, cart,
                         TypeInv, TypeOK, NextEntry
  <2>2. \A d \in Chunk : d < chunk => data[cur][m][d] = store[m][d]
    BY <2>1 DEF Keeping, CopyInv
  <2>3. CASE BackupFails
    BY <2>1, <2>3 DEF BackupFails, CopyInv, Goto
  <2>4. CASE Goto("close") /\ chunk >= size[cur][m] /\ UNCHANGED data
    <3>1. \A d \in Chunk : d < Chunks => d < chunk
      BY <2>1, <2>4, ConstantFacts DEF Chunk
    <3>. HIDE DEF m
    <3>. QED
      BY <2>1, <2>2, <2>4, <3>1 DEF CopyInv, Goto
  <2>5. CASE /\ data' = [data EXCEPT ![cur][m][chunk] = store[m][chunk]]
             /\ chunk' = chunk + 1 /\ UNCHANGED pc
    <3>1. \A d \in Chunk : d < chunk' => d < chunk \/ d = chunk
      BY <2>1, <2>5, ConstantFacts DEF Chunk
    <3>2. \A d \in Chunk :
            data'[cur][m][d] = IF d = chunk THEN store[m][d] ELSE data[cur][m][d]
      BY <2>1, <2>5
    <3>. HIDE DEF m
    <3>. QED
      BY <2>1, <2>2, <2>5, <3>1, <3>2 DEF CopyInv
  <2>. QED
    BY <1>2, <2>3, <2>4, <2>5 DEF BackupStoreChunk, card
<1>3. CASE BackupUnlinkIni
  BY <1>3 DEF BackupUnlinkIni, Keeping, CopyInv, Goto, cpu
<1>4. CASE UNCHANGED vars
  BY <1>4 DEF vars, cpu, card, cart, Keeping, CopyInv, NextEntry
<1>. QED
  BY <1>1, <1>2, <1>3, <1>4
     DEF Next, Firmware, Backup, Restore, User, World, Goto, EnterMenu, RestoreFails, CopyInv,
         BackupOpenIni, BackupCloseFile, BackupClearSaveId, RestoreSetSaveId, PreallocateFile,
         RestoreLoadChunk, RestoreCloseFile, RestoreOpenIni, RestoreWriteIni, BootstubLoad,
         LaunchRom, AbortLaunch, AcceptLaunch, LaunchOther, EraseSave, FactoryReset, RemoteLaunch,
         RemoteReturns, GameWrite, OtherWrite, SoftReset, PowerCycle

(* Files only shrink by being erased.                                       *)
LEMMA FullStays ==
    ASSUME Keeping, [Next]_vars, ~EraseSave, NEW g \in Games, NEW m \in Media, size[g][m] = Chunks
    PROVE  size'[g][m] = Chunks
<1>. TypeInv
  BY DEF Keeping
<1>1. CASE UNCHANGED size
  BY <1>1
<1>2. CASE PreallocateFile
  <2>1. UNCHANGED size \/ (todo # {} /\ size' \in {size, [size EXCEPT ![cur][NextMedium(todo)] =
                                                    IF @ = Absent THEN 0 ELSE @]})
    BY <1>2 DEF PreallocateFile, card
  <2>2. todo # {} => cur \in Games /\ NextMedium(todo) \in Media
    BY AtMedium
  <2>. QED
    BY <2>1, <2>2, CreateSizes
<1>3. CASE RestoreLoadChunk \/ RestoreCloseFile
  <2>1. todo # {}
    BY <1>3 DEF RestoreLoadChunk, RestoreCloseFile, TypeInv, TurnInv
  <2>2. UNCHANGED size \/ GrowFile(cur, NextMedium(todo))
    BY <1>3 DEF RestoreLoadChunk, RestoreCloseFile, card
  <2>. QED
    BY <2>1, <2>2, AtMedium, GrowSizes
<1>. QED
  BY <1>1, <1>2, <1>3
     DEF Next, Firmware, Backup, Restore, User, World, vars, card,
         BackupOpenIni, BackupEntry, BackupStoreChunk, BackupCloseFile, BackupFails,
         BackupUnlinkIni, BackupClearSaveId, RestoreSetSaveId, RestoreOpenIni, RestoreWriteIni,
         RestoreFails, BootstubLoad, LaunchRom, AbortLaunch, AcceptLaunch, LaunchOther,
         FactoryReset, RemoteLaunch, RemoteReturns, GameWrite, OtherWrite, SoftReset, PowerCycle

(* Only the last step of a restore writes SAVE.INI.                         *)
LEMMA IniChanges ==
    ASSUME [Next]_vars
    PROVE  ini' \in {ini, NoIni, EmptyIni} \/ (RestoreWriteIni /\ ini' = IniOf(cur))
BY DEF Next, Firmware, Backup, Restore, User, World, vars, card,
       BackupOpenIni, BackupEntry, BackupStoreChunk, BackupCloseFile, BackupFails,
       BackupUnlinkIni, BackupClearSaveId, RestoreSetSaveId, PreallocateFile, RestoreLoadChunk,
       RestoreCloseFile, RestoreOpenIni, RestoreWriteIni, RestoreFails, BootstubLoad, LaunchRom,
       AbortLaunch, AcceptLaunch, LaunchOther, EraseSave, FactoryReset, RemoteLaunch,
       RemoteReturns, GameWrite, OtherWrite, SoftReset, PowerCycle, EnterMenu

(* SAVE.INI names files that are complete.                                  *)
LEMMA FullFiles ==
    ASSUME Keeping, [Next]_vars, LiveIni(ini'), NEW m \in ini'.has
    PROVE  size'[ini'.id][m] = Chunks
<1>. TypeInv
  BY DEF Keeping
<1>1. CASE UNCHANGED ini
  <2>1. ini.id \in Games /\ m \in Media /\ size[ini.id][m] = Chunks
    BY <1>1, LiveIniFacts DEF Keeping, IniInv
  <2>2. ~EraseSave
    BY <1>1 DEF EraseSave, Keeping, LaunchInv
  <2>. QED
    BY <1>1, <2>1, <2>2, FullStays
<1>2. CASE RestoreWriteIni /\ ini' = IniOf(cur)
  <2>1. /\ pc = "write" /\ Restoring /\ todo = {}
        /\ UNCHANGED size /\ m \in Needs[cur] /\ ini'.id = cur
    BY <1>2 DEF RestoreWriteIni, Restoring, TypeInv, TurnInv, IniOf
  <2>. QED
    BY <2>1 DEF Keeping, LoadInv, Restored
<1>3. ini' \in {ini, NoIni, EmptyIni} \/ (RestoreWriteIni /\ ini' = IniOf(cur))
  BY IniChanges
<1>. QED
  BY <1>1, <1>2, <1>3 DEF LiveIni, NoIni, EmptyIni

(* SAVE.INI and the launch it belongs to.                                   *)
LEMMA IniStep ==
    ASSUME Keeping, holes' = {}, [Next]_vars
    PROVE  IniInv'
<1>. DEFINE Rest ==
       /\ pc \in {"bootstub", "game"} /\ LiveIni(ini) => result = "ok"
       /\ pc \in {"confirm", "bootstub", "game"} /\ result = "ok" /\ Needs[cur] # {} =>
             ini = IniOf(cur)
       /\ pc \in {"bootstub", "game"} /\ result # "ok" => {cur} \X Needs[cur] \subseteq told
<1>. SUFFICES Rest'
  BY FullFiles DEF IniInv
<1>. SUFFICES ASSUME pc' \in {"confirm", "bootstub", "game"} PROVE Rest'
  OBVIOUS
<1>. Rest
  BY DEF Keeping, IniInv
<1>1. CASE RestoreOpenIni \/ RestoreWriteIni
  <2>1. /\ pc' = "confirm" /\ UNCHANGED cur
        /\ result' = "ok" /\ Needs[cur] # {} => ini' = IniOf(cur)
    BY <1>1 DEF RestoreOpenIni, RestoreWriteIni, RestoreFails, Goto, cpu
  <2>. QED
    BY <2>1
<1>2. CASE RestoreSetSaveId \/ PreallocateFile \/ RestoreLoadChunk \/ RestoreCloseFile
  <2>1. pc' = "confirm" /\ result' # "ok"
    BY <1>2 DEF RestoreSetSaveId, PreallocateFile, RestoreLoadChunk, RestoreCloseFile,
                RestoreFails, Goto
  <2>. QED
    BY <2>1
<1>3. CASE AcceptLaunch
  <2>1. /\ pc = "confirm" /\ pc' = "bootstub" /\ UNCHANGED <<cur, result, ini>>
        /\ result \in {"ok", "mcu"}
    BY <1>3 DEF AcceptLaunch, Goto, card, Keeping, TypeInv, TypeOK
  <2>2. result = "mcu" => ~LiveIni(ini) /\ {cur} \X Needs[cur] \subseteq told'
    BY <1>3 DEF AcceptLaunch, McuDialog
  <2>. QED
    BY <2>1, <2>2
<1>4. CASE BootstubLoad \/ GameWrite \/ UNCHANGED vars
  <2>1. /\ UNCHANGED <<cur, result, ini, told>>
        /\ pc' = pc \/ (pc = "bootstub" /\ pc' = "game")
    BY <1>4 DEF BootstubLoad, GameWrite, vars, cpu, card, rest, ghost, Goto
  <2>. QED
    BY <2>1
<1>5. CASE RemoteReturns
  BY <1>5 DEF RemoteReturns
<1>. QED
  BY <1>1, <1>2, <1>3, <1>4, <1>5
     DEF Next, Firmware, Backup, Restore, User, World, Goto, EnterMenu,
         BackupOpenIni, BackupEntry, BackupStoreChunk, BackupCloseFile, BackupFails,
         BackupUnlinkIni, BackupClearSaveId, LaunchRom, AbortLaunch, LaunchOther, EraseSave,
         FactoryReset, RemoteLaunch, OtherWrite, SoftReset, PowerCycle

(* Only a backup and the user change what a game's files give it.           *)
LEMMA HomeStays ==
    ASSUME TypeInv, [Next]_vars, ~BackupStoreChunk, ~BackupCloseFile, ~EraseSave,
           NEW g \in Games, NEW m \in Needs[g]
    PROVE  Prepared(g, m)' = Prepared(g, m)
<1>1. CASE UNCHANGED <<size, data>>
  BY <1>1 DEF Prepared
<1>2. CASE Launching /\ Next
  BY <1>2, KeepStep
<1>3. PreallocateFile \/ RestoreLoadChunk \/ RestoreCloseFile => Launching /\ Next
  BY DEF PreallocateFile, RestoreLoadChunk, RestoreCloseFile, Launching, Next, Firmware, Restore
<1>. QED
  BY <1>1, <1>2, <1>3
     DEF Next, Firmware, Backup, Restore, User, World, vars, card,
         BackupOpenIni, BackupEntry, BackupFails, BackupUnlinkIni, BackupClearSaveId,
         RestoreSetSaveId, RestoreOpenIni, RestoreWriteIni, RestoreFails, BootstubLoad, LaunchRom,
         AbortLaunch, AcceptLaunch, LaunchOther, FactoryReset, RemoteLaunch, RemoteReturns,
         GameWrite, OtherWrite, SoftReset, PowerCycle

(* Until the launched game starts, what SAVE.INI and save ID vouch for is   *)
(* what the files hold.                                                     *)
LEMMA LoadedStep ==
    ASSUME Keeping, holes' = {}, [Next]_vars
    PROVE  LoadedInv'
<1>. SUFFICES ASSUME LiveIni(ini'), NEW m \in ini'.has, m # "FLASH",
                     \/ pc' = "setid"
                     \/ pc' = "confirm" /\ outer' = NoLaunch
                     \/ Restoring' /\ SaveId(m)' = ini'.id
              PROVE  store'[m] = Prepared(ini.id, m)'
  BY DEF LoadedInv
<1>. TypeInv
  BY DEF Keeping
<1>1. CASE LaunchRom
  BY <1>1 DEF LaunchRom, Keeping, LaunchInv, card
<1>2. CASE RestoreWriteIni /\ ini' = IniOf(cur)
  <2>1. /\ pc = "write" /\ Restoring /\ todo = {}
        /\ UNCHANGED <<cur, size, data, store>> /\ m \in Needs[cur]
        /\ ini'.id = cur /\ cur \in Games
    BY <1>2 DEF RestoreWriteIni, RestoreFails, cpu, cart, Restoring, TypeInv, TurnInv, IniOf
  <2>2. store[m] = Prepared(cur, m)
    BY <2>1 DEF Keeping, LoadInv, Restored
  <2>3. Prepared(cur, m)' = Prepared(cur, m)
    BY <2>1 DEF Prepared
  <2>4. Prepared(ini.id, m)' = Prepared(cur, m)'
    BY <2>1
  <2>. QED
    BY <2>1, <2>2, <2>3, <2>4
<1>3. CASE UNCHANGED ini /\ ~LaunchRom
  <2>1. LiveIni(ini) /\ ini.id \in Games /\ ini.id # None /\ m \in Needs[ini.id] /\ m \in Media
        /\ m \in ini.has
    BY <1>3, LiveIniFacts
  <2>2. Prepared(ini.id, m)' = Prepared(ini.id, m)
    <3>1. ~BackupStoreChunk /\ ~BackupCloseFile /\ ~EraseSave
      BY DEF BackupStoreChunk, BackupCloseFile, BackupFails, EraseSave, Restoring, Goto
    <3>2. \A g \in Games : \A k \in Needs[g] : Prepared(g, k)' = Prepared(g, k)
      BY <3>1, HomeStays
    <3>. QED
      BY <1>3, <2>1, <3>2
  <2>3. CASE RestoreLoadChunk
    <3>. DEFINE n == NextMedium(todo)
    <3>1. /\ pc = "load" /\ Restoring /\ UNCHANGED <<mcu, ipc, outer>>
          /\ pc' \in {"load", "closefile", "confirm"}
      BY <2>3 DEF RestoreLoadChunk, RestoreFails, cart, rest, Restoring, Goto
    <3>2. cur \in Games /\ n \in todo /\ n \in Media /\ Needs[cur] # {} /\ chunk \in Chunk
      BY <2>3, AtMedium DEF RestoreLoadChunk, TypeInv, TypeOK, TurnInv
    <3>3. mcu = IdOf(cur)
      BY <3>1, <3>2 DEF Keeping, RestoreInv
    <3>4. outer # NoLaunch
      BY <2>1, <3>1 DEF Keeping, LaunchInv
    <3>5. SaveId(m) = ini.id
      BY <1>3, <3>1, <3>4 DEF SaveId
    <3>6. ini.id = cur
      BY <2>1, <3>3, <3>5 DEF SaveId, IdOf
    <3>7. store[m] = Prepared(cur, m)
      BY <2>1, <3>1, <3>5, <3>6 DEF Keeping, LoadedInv
    <3>8. \/ store' = store
          \/ store' = [store EXCEPT ![n][chunk] = Prepared(cur, n)[chunk]]
      BY <2>3 DEF RestoreLoadChunk, RestoreFails, cart
    <3>9. store'[m] = store[m]
      <4>. DEFINE v == Prepared(cur, n)[chunk]
      <4>1. m = n => v = store[m][chunk]
        BY <3>7
      <4>. HIDE DEF n, v
      <4>2. store' = store \/ store' = [store EXCEPT ![n][chunk] = v]
        BY <3>8 DEF v, n
      <4>3. store \in [Media -> [Chunk -> Content]]
        BY DEF TypeInv, TypeOK
      <4>4. m = n => [store[m] EXCEPT ![chunk] = v] = store[m]
        BY <2>1, <3>2, <4>1, <4>3
      <4>. QED
        BY <2>1, <3>2, <4>2, <4>3, <4>4
    <3>. QED
      BY <2>2, <3>6, <3>7, <3>9
  <2>4. CASE RestoreSetSaveId \/ RemoteLaunch
    <3>1. UNCHANGED store /\ (pc = "setid" \/ (pc = "confirm" /\ outer = NoLaunch))
      BY <2>4 DEF RestoreSetSaveId, RemoteLaunch, Waiting, cart
    <3>. QED
      BY <2>1, <2>2, <3>1 DEF Keeping, LoadedInv
  <2>5. CASE PreallocateFile \/ RestoreCloseFile \/ RestoreOpenIni \/ RestoreWriteIni
    <3>1. UNCHANGED <<store, mcu, ipc, outer>> /\ Restoring
      BY <2>5 DEF PreallocateFile, RestoreCloseFile, RestoreOpenIni, RestoreWriteIni, RestoreFails,
                  GrowFile, cart, rest, Restoring
    <3>2. outer # NoLaunch
      BY <2>1, <3>1 DEF Keeping, LaunchInv
    <3>3. Restoring' \/ pc' = "confirm"
      BY <2>5 DEF PreallocateFile, RestoreCloseFile, RestoreOpenIni, RestoreWriteIni, RestoreFails,
                  Restoring, Goto
    <3>4. SaveId(m) = ini.id
      BY <1>3, <3>1, <3>2, <3>3 DEF SaveId, Restoring
    <3>. QED
      BY <2>1, <2>2, <3>1, <3>4 DEF Keeping, LoadedInv
  <2>6. CASE UNCHANGED vars
    <3>1. UNCHANGED <<pc, outer, store, mcu, ipc>>
      BY <2>6 DEF vars, cart, rest
    <3>2. /\ Restoring' <=> Restoring
          /\ SaveId(m)' = SaveId(m)
      BY <3>1 DEF Restoring, SaveId
    <3>. QED
      BY <1>3, <2>1, <2>2, <3>1, <3>2 DEF Keeping, LoadedInv
  <2>7. CASE RemoteReturns
    BY <2>7 DEF RemoteReturns
  <2>. QED
    BY <1>3, <2>3, <2>4, <2>5, <2>6, <2>7
       DEF Next, Firmware, Backup, Restore, User, World, Goto, EnterMenu, Restoring,
           BackupOpenIni, BackupEntry, BackupStoreChunk, BackupCloseFile, BackupFails,
           BackupUnlinkIni, BackupClearSaveId, BootstubLoad, AbortLaunch, AcceptLaunch,
           LaunchOther, EraseSave, FactoryReset, GameWrite, OtherWrite, SoftReset, PowerCycle
<1>4. ini' \in {ini, NoIni, EmptyIni} \/ (RestoreWriteIni /\ ini' = IniOf(cur))
  BY IniChanges
<1>. QED
  BY <1>1, <1>2, <1>3, <1>4 DEF LiveIni, NoIni, EmptyIni

(* A save that is not what the game left is one that a backup still has to  *)
(* store, or the user knows.                                                *)
LEMMA SafeStep ==
    ASSUME Keeping, holes' = {}, [Next]_vars
    PROVE  SafeInv'
<1>. SUFFICES ASSUME NEW g \in Games, NEW m \in Needs[g], ~Entrusted(g, m)'
              PROVE  Safe(g, m)'
  BY DEF SafeInv
<1>. TypeInv /\ m \in Media
  BY ConstantFacts DEF Keeping
<1>1. Entrusted(g, m) \/ Safe(g, m)
  BY DEF Keeping, SafeInv
<1>2. ASSUME UNCHANGED latest, told \subseteq told', Safe(g, m), Prepared(g, m)' = Prepared(g, m)
      PROVE  Safe(g, m)'
  BY <1>2 DEF Safe
<1>3. ~BackupStoreChunk /\ ~BackupCloseFile /\ ~EraseSave => Prepared(g, m)' = Prepared(g, m)
  BY HomeStays
<1>4. CASE BackupOpenIni
  <2>1. /\ pc = "boot" /\ UNCHANGED <<latest, told, ini>>
        /\ \/ pc' = "menu" /\ ~LiveIni(ini)
           \/ pc' = "entry" /\ cur' = ini.id /\ todo' = ini.has
    BY <1>4 DEF BackupOpenIni, EnterMenu, Goto
  <2>2. ~Entrusted(g, m)
    BY <2>1, LiveIniFacts DEF Entrusted
  <2>3. ~BackupStoreChunk /\ ~BackupCloseFile /\ ~EraseSave
    BY <2>1 DEF BackupStoreChunk, BackupCloseFile, EraseSave
  <2>. QED
    BY <1>1, <1>2, <1>3, <2>1, <2>2, <2>3
<1>5. CASE BackupEntry \/ BackupUnlinkIni
  <2>1. /\ pc \in {"entry", "unlink"} /\ UNCHANGED <<latest, told, cur, todo>>
        /\ pc' \in {"store", "unlink", "clear"}
    BY <1>5 DEF BackupEntry, BackupUnlinkIni, BackupFails, rest, ghost, cpu, Goto
  <2>2. ~Entrusted(g, m)
    BY <2>1 DEF Entrusted
  <2>3. ~BackupStoreChunk /\ ~BackupCloseFile /\ ~EraseSave
    BY <2>1 DEF BackupStoreChunk, BackupCloseFile, EraseSave
  <2>. QED
    BY <1>1, <1>2, <1>3, <2>1, <2>2, <2>3
<1>6. CASE BackupStoreChunk
  <2>. DEFINE n == NextEntry(todo)
  <2>1. /\ pc = "store" /\ UNCHANGED <<latest, told, cur, todo, size>>
        /\ pc' \in {"store", "close", "unlink"} /\ chunk \in Chunk
        /\ data' = data \/ data' = [data EXCEPT ![cur][n][chunk] = store[n][chunk]]
    BY <1>6 DEF BackupStoreChunk, BackupFails, rest, ghost, cpu, card, Goto, TypeInv, TypeOK
  <2>2. ~Entrusted(g, m)
    BY <2>1 DEF Entrusted
  <2>3. g # cur \/ m # n
    BY <2>1, <2>2, AtMedium DEF Entrusted, TypeInv, TurnInv
  <2>4. CASE data' = data
    BY <1>1, <1>2, <2>1, <2>2, <2>4 DEF Prepared
  <2>5. CASE data' = [data EXCEPT ![cur][n][chunk] = store[n][chunk]]
    <3>1. Prepared(g, m)' = Prepared(g, m)
      BY <2>1, <2>3, <2>5, CopyChunk
    <3>. QED
      BY <1>1, <1>2, <2>1, <2>2, <3>1
  <2>. QED
    BY <2>1, <2>4, <2>5
<1>7. CASE BackupCloseFile
  <2>. DEFINE n == NextEntry(todo)
  <2>1. /\ pc = "close" /\ pc' = "entry" /\ UNCHANGED <<latest, told, cur, size>>
        /\ todo' = todo \ {n}
    BY <1>7 DEF BackupCloseFile, Goto
  <2>2. /\ ini.id = cur /\ cur \in Games /\ n \in Media /\ size[cur][n] = Chunks /\ Held(n)
        /\ Prepared(cur, n) = data[cur][n]
    BY <2>1, Copying
  <2>3. data' = [data EXCEPT ![cur][n][Chunks] = store[n][Chunks]] /\ Chunks \in Chunk
    BY <1>7, <2>2, ConstantFacts DEF BackupCloseFile, Chunk
  <2>4. CASE g # cur \/ m # n
    <3>1. ~Entrusted(g, m)
      BY <2>1, <2>4 DEF Entrusted
    <3>2. Prepared(g, m)' = Prepared(g, m)
      BY <2>1, <2>3, <2>4, CopyChunk
    <3>. QED
      BY <1>1, <1>2, <2>1, <3>1, <3>2
  <2>5. CASE g = cur /\ m = n
    <3>1. CASE Safe(cur, n) /\ store[n] = Prepared(cur, n)
      <4>1. Prepared(g, m)' = Prepared(g, m)
        BY <2>1, <2>3, <3>1, CopyChunk
      <4>. QED
        BY <1>2, <2>1, <2>5, <3>1, <4>1
    <3>2. CASE store[n] = latest[cur][n]
      <4>. HIDE DEF n
      <4>1. Prepared(g, m)' = [Prepared(g, m) EXCEPT ![Chunks] = store[m][Chunks]]
        BY <2>1, <2>3, <2>5, CopyChunk DEF n
      <4>2. \A c \in Chunk : c # Chunks => Prepared(g, m)[c] = store[m][c]
        <5>1. \A c \in Chunk : c # Chunks => c < Chunks
          BY ConstantFacts DEF Chunk
        <5>. QED
          BY <2>1, <2>2, <2>5, <5>1 DEF Keeping, CopyInv, n
      <4>3. \A c \in Chunk : [Prepared(g, m) EXCEPT ![Chunks] = store[m][Chunks]][c] = store[m][c]
        BY <4>2, MediaTypes
      <4>4. [Prepared(g, m) EXCEPT ![Chunks] = store[m][Chunks]] = store[m]
        BY <2>3, <4>3, MediaTypes, SameSave
      <4>. QED
        BY <2>1, <2>5, <3>2, <4>1, <4>4 DEF Safe
    <3>. QED
      BY <2>2, <3>1, <3>2 DEF Held
  <2>. QED
    BY <2>4, <2>5
<1>8. CASE BackupClearSaveId
  <2>1. /\ pc = "clear" /\ UNCHANGED latest
        /\ told' = IF result = "ok" THEN told ELSE told \cup ({cur} \X todo)
    BY <1>8 DEF BackupClearSaveId
  <2>2. ~BackupStoreChunk /\ ~BackupCloseFile /\ ~EraseSave
    BY <2>1 DEF BackupStoreChunk, BackupCloseFile, EraseSave
  <2>3. CASE Entrusted(g, m)
    <3>1. g = cur /\ m \in todo
      BY <2>1, <2>3 DEF Entrusted
    <3>2. result = "err"
      BY <2>1, <3>1 DEF Keeping, CopyInv
    <3>. QED
      BY <2>1, <3>1, <3>2 DEF Safe
  <2>. QED
    BY <1>1, <1>2, <1>3, <2>1, <2>2, <2>3
<1>9. CASE AcceptLaunch
  <2>1. /\ cur \in Games /\ UNCHANGED <<size, data>>
        /\ pc = "confirm" /\ latest' = [latest EXCEPT ![cur] = [k \in Media |-> Prepared(cur, k)]]
        /\ latest \in [Games -> [Media -> [Chunk -> Content]]]
    BY <1>9 DEF AcceptLaunch, card, TypeInv, TypeOK, TurnInv
  <2>2. g # cur => (<<g, m>> \in told => <<g, m>> \in told')
    BY <1>9 DEF AcceptLaunch
  <2>3. Prepared(g, m)' = Prepared(g, m)
    BY <2>1 DEF Prepared
  <2>4. ~Entrusted(g, m)
    BY <2>1 DEF Entrusted
  <2>5. latest'[g][m] = IF g = cur THEN Prepared(g, m) ELSE latest[g][m]
    BY <2>1
  <2>. QED
    BY <1>1, <2>2, <2>3, <2>4, <2>5 DEF Safe
<1>10. CASE GameWrite
  <2>1. UNCHANGED <<pc, cur, todo, result, ini, told>> /\ pc = "game" /\ cur \in Games
    BY <1>10 DEF GameWrite, cpu, card, TypeInv, TurnInv
  <2>2. ~Entrusted(g, m)
    BY <2>1 DEF Entrusted
  <2>3. Prepared(g, m)' = Prepared(g, m)
    BY <1>3, <2>1 DEF BackupStoreChunk, BackupCloseFile, EraseSave
  <2>4. CASE g # cur
    <3>1. latest'[g][m] = latest[g][m]
      BY <1>10, <2>1, <2>4 DEF GameWrite, TypeInv, TypeOK
    <3>. QED
      BY <1>1, <2>1, <2>2, <2>3, <3>1 DEF Safe
  <2>5. CASE g = cur
    <3>1. ini # IniOf(cur)
      BY <2>1, <2>2, <2>5 DEF Entrusted, IniOf, LiveIni
    <3>2. result # "ok"
      BY <2>1, <2>5, <3>1 DEF Keeping, IniInv
    <3>3. <<g, m>> \in told
      BY <2>1, <2>5, <3>2 DEF Keeping, IniInv
    <3>. QED
      BY <2>1, <3>3 DEF Safe
  <2>. QED
    BY <2>4, <2>5
<1>11. CASE EraseSave
  <2>1. pc = "menu" /\ UNCHANGED <<data, told>>
    BY <1>11 DEF EraseSave
  <2>2. PICK h \in Games : \E k \in Needs[h] :
          /\ size' = [size EXCEPT ![h][k] = Absent]
          /\ latest' = [latest EXCEPT ![h][k] = [c \in Chunk |-> Fill]]
    BY <1>11 DEF EraseSave
  <2>3. PICK k \in Needs[h] :
          /\ size' = [size EXCEPT ![h][k] = Absent]
          /\ latest' = [latest EXCEPT ![h][k] = [c \in Chunk |-> Fill]]
    BY <2>2
  <2>4. /\ size \in [Games -> [Media -> {Absent} \cup 0..Chunks]] /\ k \in Media
        /\ latest \in [Games -> [Media -> [Chunk -> Content]]]
    BY ConstantFacts DEF TypeInv, TypeOK
  <2>5. CASE g = h /\ m = k
    <3>1. size'[g][m] = Absent /\ latest'[g][m] = [c \in Chunk |-> Fill]
      BY <2>3, <2>4, <2>5
    <3>2. (\A c \in Chunk : ~(c <= Absent)) /\ Absent # Chunks
      BY ConstantFacts DEF Chunk, Absent
    <3>3. Prepared(g, m)' = [c \in Chunk |-> Fill]
      BY <3>1, <3>2 DEF Prepared
    <3>. QED
      BY <3>1, <3>3 DEF Safe
  <2>6. CASE ~(g = h /\ m = k)
    <3>1. size'[g][m] = size[g][m] /\ latest'[g][m] = latest[g][m]
      BY <2>3, <2>4, <2>6
    <3>2. Prepared(g, m)' = Prepared(g, m)
      BY <2>1, <3>1 DEF Prepared
    <3>3. ~Entrusted(g, m)
      BY <2>1 DEF Entrusted
    <3>. QED
      BY <1>1, <2>1, <3>1, <3>2, <3>3 DEF Safe
  <2>. QED
    BY <2>5, <2>6
<1>12. CASE SoftReset
  <2>1. /\ UNCHANGED <<ini, latest, told>>
        /\ pc \in {"menu", "game", "foreign", "confirm"} /\ pc' = "boot"
    BY <1>12 DEF SoftReset, Waiting, card, Goto
  <2>2. ~Entrusted(g, m)
    BY <2>1 DEF Entrusted
  <2>3. ~BackupStoreChunk /\ ~BackupCloseFile /\ ~EraseSave
    BY <2>1 DEF BackupStoreChunk, BackupCloseFile, BackupFails, EraseSave, Goto
  <2>. QED
    BY <1>1, <1>2, <1>3, <2>1, <2>2, <2>3
<1>13. CASE PowerCycle
  <2>1. /\ pc' = "boot" /\ UNCHANGED <<ini, latest, size, data>> /\ told \subseteq told'
        /\ pc = "clear" => result # "err"
    BY <1>13 DEF PowerCycle, card, Goto
  <2>2. ~Entrusted(g, m)
    <3>1. ~(pc \in {"game", "boot"} /\ LiveIni(ini) /\ g = ini.id)
      BY <2>1 DEF Entrusted
    <3>2. ASSUME pc \in {"entry", "store", "close", "unlink"}, g = cur, m \in todo PROVE FALSE
      <4>1. cur = ini.id /\ m \in ini.has
        BY <3>2 DEF Keeping, BackupInv, CopyInv
      <4>. QED
        BY <2>1, <3>2, <4>1 DEF Entrusted, LiveIni
    <3>3. ASSUME pc = "clear", m \in todo PROVE FALSE
      BY <2>1, <3>3 DEF Keeping, CopyInv
    <3>. QED
      BY <3>1, <3>2, <3>3 DEF Entrusted
  <2>3. Prepared(g, m)' = Prepared(g, m)
    BY <2>1 DEF Prepared
  <2>. QED
    BY <1>1, <1>2, <2>1, <2>2, <2>3
<1>14. CASE \/ Restore \/ BootstubLoad \/ LaunchRom \/ AbortLaunch \/ LaunchOther \/ FactoryReset
            \/ RemoteLaunch \/ RemoteReturns \/ OtherWrite
  <2>1. /\ UNCHANGED <<latest, told>>
        /\ pc \notin {"boot", "game", "entry", "store", "close", "unlink", "clear"}
    BY <1>14 DEF Restore, RestoreSetSaveId, PreallocateFile, RestoreLoadChunk, RestoreCloseFile,
         RestoreOpenIni, RestoreWriteIni, RestoreFails, BootstubLoad, LaunchRom, AbortLaunch,
         LaunchOther, FactoryReset, RemoteLaunch, RemoteReturns, OtherWrite, Waiting, rest, ghost
  <2>2. ~Entrusted(g, m)
    BY <2>1 DEF Entrusted
  <2>3. Prepared(g, m)' = Prepared(g, m)
    <3>1. CASE EraseSave
      BY <1>11, <1>14, <3>1 DEF EraseSave, Restore, RestoreSetSaveId, PreallocateFile,
         RestoreLoadChunk, RestoreCloseFile, RestoreOpenIni, RestoreWriteIni, BootstubLoad,
         LaunchRom, AbortLaunch, LaunchOther, FactoryReset, RemoteLaunch, RemoteReturns,
         OtherWrite, Waiting, rest, ghost, card, Prepared
    <3>2. ~BackupStoreChunk /\ ~BackupCloseFile
      BY <2>1 DEF BackupStoreChunk, BackupCloseFile
    <3>. QED
      BY <1>3, <3>1, <3>2
  <2>. QED
    BY <1>1, <1>2, <2>1, <2>2, <2>3
<1>15. CASE UNCHANGED vars
  <2>1. UNCHANGED <<pc, cur, todo, ini, latest, told, size, data>>
    BY <1>15 DEF vars, cpu, card, rest, ghost
  <2>2. ~Entrusted(g, m) /\ Prepared(g, m)' = Prepared(g, m)
    BY <2>1 DEF Entrusted, Prepared
  <2>. QED
    BY <1>1, <1>2, <2>1, <2>2
<1>. QED
  BY <1>4, <1>5, <1>6, <1>7, <1>8, <1>9, <1>10, <1>11, <1>12, <1>13, <1>14, <1>15
     DEF Next, Firmware, Backup, User, World

(* What save ID and SAVE.INI vouch for at the next boot is what the game    *)
(* left, or, where it never started, what its file holds.                   *)
LEMMA HeldStep ==
    ASSUME Keeping, holes' = {}, StartInv', IniInv', LaunchInv', [Next]_vars
    PROVE  HeldInv'
<1>. SUFFICES ASSUME LiveIni(ini'), NEW k \in ini'.has, Settled(k)', SaveId(k)' = ini'.id
              PROVE  Held(k)'
  BY DEF HeldInv
<1>. /\ TypeInv /\ pc \in Steps /\ chunk \in Chunk
  BY DEF Keeping, TypeInv, TypeOK
<1>1. ASSUME UNCHANGED <<ini, store>>, LiveIni(ini), Held(k), Safe(ini.id, k) => Safe(ini.id, k)',
             Prepared(ini.id, k)' = Prepared(ini.id, k), latest'[ini.id][k] = latest[ini.id][k]
      PROVE  Held(k)'
  BY <1>1 DEF Held
<1>2. ASSUME UNCHANGED <<latest, told, ini>>, Prepared(ini.id, k)' = Prepared(ini.id, k)
      PROVE  Safe(ini.id, k) => Safe(ini.id, k)'
  BY <1>2 DEF Safe
<1>3. ASSUME UNCHANGED ini, ~BackupStoreChunk, ~BackupCloseFile, ~EraseSave
      PROVE  Prepared(ini.id, k)' = Prepared(ini.id, k)
  <2>1. ini.id \in Games /\ k \in Needs[ini.id]
    BY <1>3, LiveIniFacts
  <2>2. \A g \in Games : \A m \in Needs[g] : Prepared(g, m)' = Prepared(g, m)
    BY <1>3, HomeStays
  <2>. QED
    BY <1>3, <2>1, <2>2
<1>4. ASSUME UNCHANGED <<ini, store, mcu, ipc, latest, told>>, Settled(k),
             ~BackupStoreChunk, ~BackupCloseFile, ~EraseSave
      PROVE  Held(k)'
  <2>1. Held(k)
    BY <1>4 DEF Keeping, HeldInv, SaveId
  <2>. QED
    BY <1>1, <1>2, <1>3, <1>4, <2>1
<1>5. CASE BackupOpenIni
  BY <1>4, <1>5 DEF BackupOpenIni, EnterMenu, Settled, Goto, BackupStoreChunk, BackupCloseFile,
                    EraseSave
<1>6. CASE BackupEntry
  BY <1>4, <1>6 DEF BackupEntry, BackupFails, Settled, Goto, card, cart, rest, ghost,
                    BackupStoreChunk, BackupCloseFile, EraseSave
<1>7. CASE BackupStoreChunk \/ BackupCloseFile
  <2>. DEFINE n == NextEntry(todo)
  <2>1. /\ LiveIni(ini) /\ ini.id = cur /\ cur \in Games /\ n \in Media /\ size[cur][n] = Chunks
        /\ UNCHANGED <<ini, store, mcu, ipc, latest, told, size>> /\ pc \in {"store", "close"}
    BY <1>7, Copying DEF BackupStoreChunk, BackupCloseFile, BackupFails, card, cart, rest, ghost
  <2>2. Held(k) /\ k \in Media
    BY <2>1, LiveIniFacts DEF Keeping, HeldInv, SaveId, Settled
  <2>3. data' = data \/ \E c \in Chunk : data' = [data EXCEPT ![cur][n][c] = store[n][c]]
    BY <1>7, <2>1, ConstantFacts DEF BackupStoreChunk, BackupCloseFile, BackupFails, card
  <2>4. k # n \/ store[k] = Prepared(cur, k) => Prepared(ini.id, k)' = Prepared(ini.id, k)
    <3>1. CASE data' = data
      BY <2>1, <3>1 DEF Prepared
    <3>2. CASE \E c \in Chunk : data' = [data EXCEPT ![cur][n][c] = store[n][c]]
      <4>1. PICK c \in Chunk : data' = [data EXCEPT ![cur][n][c] = store[n][c]]
        BY <3>2
      <4>2. \A g \in Games, m \in Media :
              m # n \/ store[n] = Prepared(cur, n) => Prepared(g, m)' = Prepared(g, m)
        BY <2>1, <4>1, CopyChunk
      <4>. QED
        BY <2>1, <2>2, <4>2
    <3>. QED
      BY <2>3, <3>1, <3>2
  <2>5. CASE store[k] = latest[ini.id][k]
    BY <2>1, <2>5 DEF Held
  <2>6. CASE Safe(ini.id, k) /\ store[k] = Prepared(ini.id, k)
    BY <1>1, <1>2, <2>1, <2>2, <2>4, <2>6
  <2>. QED
    BY <2>2, <2>5, <2>6 DEF Held
<1>8. CASE BackupUnlinkIni
  BY <1>4, <1>8 DEF BackupUnlinkIni, LiveIni, NoIni, Settled, Goto, cart, rest, ghost,
                    BackupStoreChunk, BackupCloseFile, EraseSave
<1>9. CASE BackupClearSaveId \/ AbortLaunch
  BY <1>9 DEF BackupClearSaveId, AbortLaunch, EnterMenu
(* Before the game starts, the media hold what its files do.                *)
<1>10. ASSUME LiveIni(ini), UNCHANGED ini, store'[k] = Prepared(ini.id, k),
              UNCHANGED <<latest, told>>,
              pc \in {"setid", "prepare", "load", "closefile", "ini", "write", "confirm"}
       PROVE  Held(k)'
  <2>1. ini.id \in Games /\ k \in Needs[ini.id] /\ ini'.id = ini.id
    BY <1>10, LiveIniFacts
  <2>2. Safe(ini.id, k)
    BY <1>10, <2>1 DEF Keeping, SafeInv, Entrusted
  <2>3. Prepared(ini.id, k)' = Prepared(ini.id, k)
    BY <1>3, <1>10 DEF BackupStoreChunk, BackupCloseFile, EraseSave
  <2>. QED
    BY <1>2, <1>10, <2>1, <2>2, <2>3 DEF Held
<1>11. CASE RestoreSetSaveId
  <2>1. UNCHANGED <<ini, store, latest, told>> /\ pc = "setid" /\ k # "FLASH"
    BY <1>11 DEF RestoreSetSaveId, card, rest, ghost, Settled, Goto
  <2>2. store[k] = Prepared(ini.id, k)
    BY <2>1 DEF Keeping, LoadedInv
  <2>. QED
    BY <1>10, <2>1, <2>2
<1>12. CASE RestoreLoadChunk
  <2>. DEFINE n == NextMedium(todo)
  <2>1. UNCHANGED <<ini, mcu, ipc, latest, told>> /\ pc = "load" /\ Restoring /\ k # "FLASH"
    BY <1>12 DEF RestoreLoadChunk, RestoreFails, card, cart, rest, ghost, Restoring, Settled, Goto
  <2>2. cur \in Games /\ n \in todo /\ n \in Media /\ Needs[cur] # {} /\ mcu = IdOf(cur)
    BY <2>1, AtMedium DEF Keeping, TypeInv, TurnInv, RestoreInv
  <2>3. LiveIni(ini) /\ ini.id # None /\ k \in Media /\ SaveId(k) = ini.id
    BY <2>1, LiveIniFacts DEF SaveId
  <2>4. ini.id = cur
    BY <2>1, <2>2, <2>3 DEF SaveId, IdOf
  <2>5. store[k] = Prepared(cur, k)
    BY <2>1, <2>3, <2>4 DEF Keeping, LoadedInv
  <2>6. \/ store' = store
        \/ store' = [store EXCEPT ![n][chunk] = Prepared(cur, n)[chunk]]
    BY <1>12 DEF RestoreLoadChunk, RestoreFails, cart
  <2>7. store'[k] = store[k]
    <3>. DEFINE v == Prepared(cur, n)[chunk]
    <3>1. k = n => v = store[k][chunk]
      BY <2>5
    <3>. HIDE DEF n, v
    <3>2. store' = store \/ store' = [store EXCEPT ![n][chunk] = v]
      BY <2>6 DEF v, n
    <3>3. store \in [Media -> [Chunk -> Content]]
      BY DEF TypeInv, TypeOK
    <3>4. k = n => [store[k] EXCEPT ![chunk] = v] = store[k]
      BY <2>3, <3>1, <3>3
    <3>. QED
      BY <2>2, <2>3, <3>2, <3>3, <3>4
  <2>. QED
    BY <1>10, <2>1, <2>3, <2>4, <2>5, <2>7
<1>13. CASE PreallocateFile \/ RestoreCloseFile \/ RestoreOpenIni
  <2>1. /\ UNCHANGED <<store, mcu, ipc, latest, told>> /\ k # "FLASH"
        /\ ini' \in {ini, NoIni, EmptyIni}
        /\ ~BackupStoreChunk /\ ~BackupCloseFile /\ ~EraseSave
    BY <1>13 DEF PreallocateFile, RestoreCloseFile, RestoreOpenIni, RestoreFails, GrowFile, card,
         cart, rest, ghost, Settled, Goto, BackupStoreChunk, BackupCloseFile, EraseSave
  <2>. QED
    BY <1>4, <2>1 DEF LiveIni, NoIni, EmptyIni, Settled
<1>14. CASE RestoreWriteIni
  <2>1. /\ UNCHANGED <<store, mcu, ipc, latest, told, cur, size, data>> /\ k # "FLASH"
        /\ pc = "write" /\ Restoring /\ todo = {} /\ cur \in Games
        /\ ini' \in {ini, IniOf(cur)}
        /\ ~BackupStoreChunk /\ ~BackupCloseFile /\ ~EraseSave
    BY <1>14 DEF RestoreWriteIni, RestoreFails, cpu, cart, rest, ghost, Settled, Goto, Restoring,
         TypeInv, TurnInv, BackupStoreChunk, BackupCloseFile, EraseSave
  <2>2. CASE ini' = ini
    BY <1>4, <2>1, <2>2 DEF Settled
  <2>3. CASE ini' = IniOf(cur)
    <3>1. k \in Needs[cur] /\ ini'.id = cur
      BY <2>3 DEF IniOf
    <3>2. store[k] = Prepared(cur, k) /\ Safe(cur, k)
      BY <2>1, <3>1 DEF Keeping, LoadInv, Restored, SafeInv, Entrusted
    <3>3. Prepared(ini.id, k)' = Prepared(cur, k)
      BY <2>1, <3>1 DEF Prepared
    <3>. QED
      BY <2>1, <3>1, <3>2, <3>3 DEF Held, Safe
  <2>. QED
    BY <2>1, <2>2, <2>3
<1>15. CASE AcceptLaunch
  <2>1. /\ UNCHANGED <<cur, result, ini, store, size, data>> /\ pc = "confirm" /\ pc' = "bootstub"
        /\ k # "FLASH"
    BY <1>15 DEF AcceptLaunch, card, cart, Goto, Settled
  <2>2. result' = "ok" /\ ini.id = cur /\ cur \in Games
    BY <2>1 DEF IniInv, LaunchInv, Keeping, TypeInv, TurnInv
  <2>3. k \in Needs[cur]
    BY <2>1, <2>2, LiveIniFacts
  <2>4. store'[k] = Prepared(cur, k)' /\ latest'[cur][k] = Prepared(cur, k)'
    BY <2>1, <2>2, <2>3 DEF StartInv, Restored
  <2>. QED
    BY <2>1, <2>2, <2>4 DEF Held
<1>16. CASE BootstubLoad \/ GameWrite
  <2>1. UNCHANGED <<cur, result, ini, mcu, ipc>> /\ pc \in {"bootstub", "game"} /\ cur \in Games
    BY <1>16 DEF BootstubLoad, GameWrite, cpu, card, TypeInv, TurnInv
  <2>2. result = "ok" /\ ini.id = cur
    BY <2>1 DEF Keeping, IniInv, LaunchInv
  <2>3. k \in Needs[cur] /\ k \in Media
    BY <2>1, <2>2, LiveIniFacts
  <2>4. CASE pc' = "game"
    <3>1. store'[k] = latest'[cur][k]
      BY <2>1, <2>2, <2>3, <2>4 DEF StartInv
    <3>. QED
      BY <2>1, <2>2, <3>1 DEF Held
  <2>5. CASE pc' # "game"
    <3>1. BootstubLoad /\ k # "FLASH" /\ UNCHANGED <<latest, told>>
      BY <1>16, <2>5 DEF BootstubLoad, GameWrite, rest, ghost, Settled, Goto
    <3>2. store'[k] = store[k]
      BY <2>3, <3>1 DEF BootstubLoad, TypeInv, TypeOK, Media
    <3>3. Held(k)
      BY <2>1, <3>1 DEF Keeping, HeldInv, Settled, SaveId
    <3>4. Prepared(ini.id, k)' = Prepared(ini.id, k)
      BY <1>3, <2>1 DEF BackupStoreChunk, BackupCloseFile, EraseSave
    <3>. QED
      BY <1>2, <2>1, <3>1, <3>2, <3>3, <3>4 DEF Held
  <2>. QED
    BY <2>4, <2>5
<1>17. CASE LaunchRom \/ LaunchOther \/ EraseSave \/ FactoryReset \/ OtherWrite
  BY <1>17 DEF LaunchRom, LaunchOther, EraseSave, FactoryReset, OtherWrite, card, Keeping,
               LaunchInv, LiveIni, NoIni
<1>18. CASE RemoteLaunch
  BY <1>4, <1>18 DEF RemoteLaunch, Waiting, card, cart, ghost, Settled, Goto, BackupStoreChunk,
                     BackupCloseFile, EraseSave
<1>19. CASE RemoteReturns
  BY <1>19 DEF RemoteReturns
<1>20. CASE SoftReset
  <2>1. /\ UNCHANGED <<ini, store, mcu, ipc, latest, told>>
        /\ pc \in {"menu", "game", "foreign", "confirm"}
        /\ pc = "confirm" => "FLASH" \notin ini.has
    BY <1>20 DEF SoftReset, Waiting, card, cart
  <2>2. ~BackupStoreChunk /\ ~BackupCloseFile /\ ~EraseSave
    BY <2>1, <1>20 DEF SoftReset, BackupStoreChunk, BackupCloseFile, EraseSave, Goto
  <2>. QED
    BY <1>4, <2>1, <2>2 DEF Keeping, LaunchInv, Settled
<1>21. CASE PowerCycle
  <2>1. UNCHANGED <<ini, latest, size, data>> /\ told \subseteq told' /\ LiveIni(ini)
        /\ ini.id # None /\ k \in Media
    BY <1>21, LiveIniFacts DEF PowerCycle, card
  <2>2. PICK hold \in BOOLEAN : /\ store' = Unpowered(store, hold)
                                /\ mcu' = IF hold THEN mcu ELSE NoId
    BY <1>21 DEF PowerCycle
  <2>3. k # "FLASH"
    BY <1>21, <2>1 DEF PowerCycle, SaveId
  <2>4. mcu' # NoId
    BY <2>1, <2>3 DEF SaveId, NoId
  <2>5. hold
    BY <2>2, <2>4
  <2>6. mcu' = mcu /\ store'[k] = store[k]
    BY <2>1, <2>2, <2>3, <2>5 DEF Unpowered
  <2>7. Held(k)
    BY <2>1, <2>3, <2>6 DEF Keeping, HeldInv, Settled, SaveId
  <2>8. Prepared(ini.id, k)' = Prepared(ini.id, k)
    BY <2>1 DEF Prepared
  <2>. QED
    BY <2>1, <2>6, <2>7, <2>8 DEF Held, Safe
<1>22. CASE UNCHANGED vars
  <2>1. UNCHANGED <<pc, cur, todo, ini, size, data, store, mcu, ipc, latest, told>>
    BY <1>22 DEF vars, cpu, card, cart, rest, ghost
  <2>2. Held(k)
    BY <2>1 DEF Keeping, HeldInv, Settled, SaveId
  <2>3. Prepared(ini.id, k)' = Prepared(ini.id, k)
    BY <2>1 DEF Prepared
  <2>. QED
    BY <1>1, <1>2, <2>1, <2>2, <2>3
<1>. QED
  BY <1>5, <1>6, <1>7, <1>8, <1>9, <1>11, <1>12, <1>13, <1>14, <1>15, <1>16, <1>17, <1>18,
     <1>19, <1>20, <1>21, <1>22 DEF Next, Firmware, Backup, Restore, User, World
-----------------------------------------------------------------------------
(* The invariant and what it implies *)

(* At power-on every save is the one its game left.                         *)
LEMMA KeepInit == Init => KeepInv
<1>. SUFFICES ASSUME Init PROVE KeepInv
  OBVIOUS
<1>1. pc = "boot" /\ result = "ok" /\ ~LiveIni(ini)
  BY DEF Init, LiveIni, NoIni
<1>2. \A g \in Games : \A m \in Needs[g] : Safe(g, m)
  BY ConstantFacts DEF Init, Safe
<1>. QED
  BY <1>1, <1>2 DEF KeepInv, SafeInv, IniInv, LoadedInv, HeldInv, CopyInv

(* Every step keeps the whole invariant.                                    *)
LEMMA VStep == VInv /\ [Next]_vars => VInv'
<1>. SUFFICES ASSUME VInv, [Next]_vars PROVE VInv'
  OBVIOUS
<1>1. IInv' /\ SeesInv'
  BY OwnStep, SeesStep DEF VInv, IInv
<1>2. ASSUME holes' = {}
      PROVE  SafeInv' /\ IniInv' /\ LoadedInv' /\ HeldInv' /\ CopyInv'
  <2>1. Keeping
    BY <1>2, HolesStayEmpty, KeepingMeans
  <2>2. LaunchInv' /\ StartInv'
    BY <1>1, <1>2 DEF IInv, OwnInv, Unharmed, SeesInv
  <2>. QED
    BY <1>2, <2>1, <2>2, SafeStep, IniStep, LoadedStep, HeldStep, CopyStep
<1>. QED
  BY <1>1, <1>2 DEF VInv, KeepInv

(* The invariant holds in every state of every behavior.                    *)
LEMMA VInvHolds == Spec => []VInv
<1>1. Init => VInv
  BY TypeInit, OwnInit, SeesInit, KeepInit DEF VInv, IInv
<1>. QED
  BY <1>1, VStep, PTL DEF Spec

(* Back in the file selector every save file holds what its game left, or   *)
(* the user has been told: a save is only ever unsafe while a game runs or  *)
(* a backup still has to store it.                                          *)
THEOREM NoSaveLostSilently == Spec => []NoSilentLoss
<1>1. VInv => NoSilentLoss
  <2>. SUFFICES ASSUME VInv, holes = {}, pc = "menu", NEW g \in Games, NEW m \in Needs[g]
                PROVE  <<g, m>> \in told \/ Prepared(g, m) = latest[g][m]
    BY DEF NoSilentLoss
  <2>1. Entrusted(g, m) \/ Safe(g, m)
    BY DEF VInv, KeepInv, SafeInv
  <2>. QED
    BY <2>1 DEF Entrusted, Safe
<1>. QED
  BY <1>1, VInvHolds, PTL

(* A save ID that SAVE.INI agrees with at boot vouches for the medium.      *)
THEOREM SaveIdsVouch == Spec => []SaveIdVouches
<1>1. VInv => SaveIdVouches
  <2>. SUFFICES ASSUME VInv, holes = {}, pc = "boot", NEW m \in ini.has, SaveId(m) = ini.id
                PROVE  store[m] \in {latest[ini.id][m], Prepared(ini.id, m)}
    BY DEF SaveIdVouches
  <2>1. Held(m)
    BY DEF VInv, KeepInv, HeldInv, LiveIni, Settled
  <2>. QED
    BY <2>1 DEF Held
<1>. QED
  BY <1>1, VInvHolds, PTL
-----------------------------------------------------------------------------
(* The refinement of SaveVault *)

(* The abstract variables of SaveVault, as functions of SaveData's.         *)
Home == [s \in Saves |-> Prepared(s[1], s[2])]
Live == [s \in Saves |-> latest[s[1]][s[2]]]

(* A slot of the vault is a game and a medium the game needs.               *)
LEMMA SavesFacts ==
    \A s \in Saves : s[1] \in Games /\ s[2] \in Needs[s[1]] /\ s[2] \in Media /\ s = <<s[1], s[2]>>
BY ConstantFacts DEF Saves

(* The card as it is found at power-on is a state the vault may start in.   *)
LEMMA VaultStart == Init => Vault!Init
<1>. SUFFICES ASSUME Init PROVE Vault!Init
  OBVIOUS
<1>1. TypeInv
  BY TypeInit
<1>2. Home \in [Saves -> [Chunk -> Content]]
  BY <1>1, SavesFacts, MediaTypes DEF Home
<1>3. Live = Home
  BY SavesFacts DEF Home, Live, Init
<1>. QED
  BY <1>2, <1>3 DEF Init, Vault!Init, Home, Live

(* If no file gives its game anything else, the vault holds the same saves. *)
LEMMA SameHome ==
    ASSUME \A g \in Games : \A m \in Needs[g] : Prepared(g, m)' = Prepared(g, m)
    PROVE  Home' = Home
BY SavesFacts DEF Home

(* Steps outside the file selector that touch no save, and leaving it.      *)
LEMMA LeaveStep ==
    ASSUME Home' = Home, Live' = Live, told \cap Saves \subseteq told', holes' = holes, pc' # "menu"
    PROVE  Vault!Next
<1>1. Vault!Leave
  BY DEF Vault!Leave, Vault!Excuse, Home, Live
<1>. QED
  BY <1>1 DEF Vault!Next

(* Coming back to the file selector, with every save safe.                  *)
LEMMA OpenStep ==
    ASSUME Home' = Home, Live' = Live, told \cap Saves \subseteq told', holes' = holes,
           pc # "menu", pc' = "menu",
           \A s \in Saves : Safe(s[1], s[2])'
    PROVE  Vault!Next
<1>1. (\A s \in Saves : Vault!Kept(s))'
  BY SavesFacts DEF Vault!Kept, Safe
<1>2. Vault!Open
  BY <1>1 DEF Vault!Open, Vault!Excuse, Home, Live
<1>. QED
  BY <1>2 DEF Vault!Next

(* Accepting a launch starts the game from what the vault holds.            *)
LEMMA AcceptStep ==
    ASSUME TypeInv, AcceptLaunch, holes' = holes
    PROVE  Vault!Next
<1>1. /\ pc = "confirm" /\ pc' = "bootstub" /\ cur \in Games
      /\ UNCHANGED <<size, data>>
      /\ latest' = [latest EXCEPT ![cur] = [m \in Media |-> Prepared(cur, m)]]
      /\ told' \in {told \ ({cur} \X Media), told \cup ({cur} \X Needs[cur])}
  BY DEF AcceptLaunch, card, Goto, TypeInv, TurnInv
<1>2. Home' = Home
  BY <1>1 DEF Home, Prepared
<1>3. Live' = [t \in Saves |-> IF t[1] = cur THEN Home[t] ELSE Live[t]]
  <2>1. \A t \in Saves : latest'[t[1]][t[2]] =
            IF t[1] = cur THEN Prepared(t[1], t[2]) ELSE latest[t[1]][t[2]]
    BY <1>1, SavesFacts DEF TypeInv, TypeOK
  <2>. QED
    BY <2>1 DEF Live, Home
<1>4. CASE Needs[cur] = {}
  <2>1. \A t \in Saves : t[1] # cur
    BY <1>4, SavesFacts
  <2>2. Live' = Live
    BY <1>3, <2>1 DEF Live
  <2>3. told \cap Saves \subseteq told'
    BY <1>1, <2>1
  <2>. QED
    BY <1>1, <1>2, <2>2, <2>3, LeaveStep
<1>5. CASE Needs[cur] # {}
  <2>. DEFINE fam == {t \in Saves : t[1] = cur}
  <2>1. PICK s \in Saves : s[1] = cur
    <3>1. \A m \in Needs[cur] : <<cur, m>> \in Saves /\ <<cur, m>>[1] = cur
      BY <1>1, ConstantFacts DEF Saves
    <3>. QED
      BY <1>5, <3>1
  <2>3. Vault!Family(s) = fam
    BY <2>1 DEF Vault!Family, SaveOwner
  <2>4. told' \cap Saves \in {(told \cap Saves) \ fam, (told \cap Saves) \cup fam}
    <3>1. fam = {cur} \X Needs[cur]
      BY <1>1, ConstantFacts DEF Saves
    <3>2. ({cur} \X Media) \cap Saves = fam
      BY <1>1, <3>1, SavesFacts, ConstantFacts
    <3>. HIDE DEF fam
    <3>. QED
      BY <1>1, <3>1, <3>2
  <2>5. Vault!Start(s)
    BY <1>1, <1>2, <1>3, <2>3, <2>4 DEF Vault!Start, Home, Live
  <2>. QED
    BY <2>5 DEF Vault!Next
<1>. QED
  BY <1>4, <1>5

(* A game writing a chunk of a medium changes its save in the vault.        *)
LEMMA PlayStep ==
    ASSUME TypeInv, GameWrite
    PROVE  Vault!Next
<1>1. /\ pc = "game" /\ pc' = "game" /\ cur \in Games
      /\ UNCHANGED <<size, data, told, holes>>
  BY DEF GameWrite, card, Goto, TypeInv, TurnInv
<1>2. PICK m \in Needs[cur], c \in Chunk, v \in 0..MaxVer :
         latest' = [latest EXCEPT ![cur][m][c] = [by |-> cur, ver |-> v]]
  BY DEF GameWrite
<1>. DEFINE b == [by |-> cur, ver |-> v]
            s == <<cur, m>>
<1>3. s \in Saves /\ b \in Content /\ m \in Media /\ s[1] = cur /\ s[2] = m
  BY <1>1, ConstantFacts DEF Saves
<1>4. Home' = Home
  BY <1>1 DEF Home, Prepared
<1>. HIDE DEF b, s
<1>5. Live' = [Live EXCEPT ![s][c] = b]
  <2>1. latest' = [latest EXCEPT ![cur][m][c] = b]
    BY <1>2 DEF b
  <2>2. \A t \in Saves : latest'[t[1]][t[2]] = IF t = s THEN [latest[t[1]][t[2]] EXCEPT ![c] = b]
                                                      ELSE latest[t[1]][t[2]]
    BY <1>1, <1>3, <2>1, SavesFacts DEF TypeInv, TypeOK, s
  <2>. QED
    BY <1>3, <2>2 DEF Live
<1>6. Vault!Play(s, c)
  BY <1>1, <1>3, <1>4, <1>5 DEF Vault!Play, Home, Live
<1>. QED
  BY <1>3, <1>6 DEF Vault!Next

(* launch_backup_save_data copying a chunk stores what the game left.       *)
LEMMA StoreStep ==
    ASSUME Keeping, pc \in {"store", "close"}, pc' # "menu", NEW c \in Chunk,
           UNCHANGED <<size, latest, told, holes>>,
           data' = [data EXCEPT ![cur][NextEntry(todo)][c] = store[NextEntry(todo)][c]]
    PROVE  Vault!Next
<1>1. PICK s \in Saves : s[1] = cur /\ s[2] = NextEntry(todo)
  <2>1. <<cur, NextEntry(todo)>> \in Saves
    BY Copying DEF Saves
  <2>. QED
    BY <2>1
<1>2. Held(s[2]) /\ ini.id = cur
  BY <1>1, Copying
<1>3. \A t \in Saves :
         /\ t # s \/ store[s[2]] = Prepared(cur, s[2]) =>
               Prepared(t[1], t[2])' = Prepared(t[1], t[2])
         /\ t = s => Prepared(t[1], t[2])' = [Prepared(t[1], t[2]) EXCEPT ![c] = store[t[2]][c]]
  <2>. SUFFICES ASSUME NEW t \in Saves
                PROVE  /\ t # s \/ store[s[2]] = Prepared(cur, s[2]) =>
                             Prepared(t[1], t[2])' = Prepared(t[1], t[2])
                       /\ t = s => Prepared(t[1], t[2])' =
                                      [Prepared(t[1], t[2]) EXCEPT ![c] = store[t[2]][c]]
    OBVIOUS
  <2>1. t # s => t[1] # cur \/ t[2] # s[2]
    BY <1>1, SavesFacts
  <2>2. t[1] \in Games /\ t[2] \in Media
    BY SavesFacts
  <2>. DEFINE n == NextEntry(todo)
  <2>3. \A g \in Games, k \in Media :
          /\ g # cur \/ k # n \/ store[n] = Prepared(cur, n) => Prepared(g, k)' = Prepared(g, k)
          /\ g = cur /\ k = n => Prepared(g, k)' = [Prepared(g, k) EXCEPT ![c] = store[n][c]]
    BY CopyChunk
  <2>4. s[2] = n /\ s[1] = cur
    BY <1>1
  <2>. HIDE DEF n
  <2>5. /\ t[1] # cur \/ t[2] # n \/ store[n] = Prepared(cur, n) =>
               Prepared(t[1], t[2])' = Prepared(t[1], t[2])
        /\ t[1] = cur /\ t[2] = n => Prepared(t[1], t[2])' =
               [Prepared(t[1], t[2]) EXCEPT ![c] = store[n][c]]
    BY <2>2, <2>3
  <2>. QED
    BY <2>1, <2>4, <2>5
<1>4. Live' = Live
  BY DEF Live
<1>5. CASE store[s[2]] = Prepared(cur, s[2])
  <2>1. Home' = Home
    BY <1>3, <1>5 DEF Home
  <2>. QED
    BY <1>4, <2>1, LeaveStep
<1>6. CASE store[s[2]] = latest[cur][s[2]]
  <2>1. \A t \in Saves : Prepared(t[1], t[2])' =
            IF t = s THEN [Home[t] EXCEPT ![c] = Live[t][c]] ELSE Home[t]
    BY <1>1, <1>3, <1>6 DEF Home, Live
  <2>2. Home' = [Home EXCEPT ![s][c] = Live[s][c]]
    BY <2>1 DEF Home
  <2>3. Vault!Store(s, c)
    BY <1>1, <1>4, <2>2 DEF Vault!Store, Home, Live
  <2>. QED
    BY <2>3 DEF Vault!Next
<1>. QED
  BY <1>1, <1>2, <1>5, <1>6 DEF Held

(* Deleting a save file erases the slot.                                    *)
LEMMA EraseStep ==
    ASSUME TypeInv, EraseSave
    PROVE  Vault!Next
<1>1. PICK g \in Games : \E m \in Needs[g] :
         /\ size' = [size EXCEPT ![g][m] = Absent]
         /\ latest' = [latest EXCEPT ![g][m] = [c \in Chunk |-> Fill]]
  BY DEF EraseSave
<1>a. PICK m \in Needs[g] :
         /\ size' = [size EXCEPT ![g][m] = Absent]
         /\ latest' = [latest EXCEPT ![g][m] = [c \in Chunk |-> Fill]]
  BY <1>1
<1>. DEFINE s == <<g, m>>
<1>2. pc = "menu" /\ UNCHANGED <<pc, data, told, holes>>
  BY DEF EraseSave
<1>3. s \in Saves /\ m \in Media /\ s[1] = g /\ s[2] = m
  BY ConstantFacts DEF Saves
<1>. HIDE DEF s
<1>4. Home' = [Home EXCEPT ![s] = [c \in Chunk |-> Fill]]
  <2>1. size' \in [Games -> [Media -> Int]] /\ size'[g][m] = Absent
    BY <1>a, <1>3, ConstantFacts DEF TypeInv, TypeOK, Absent
  <2>2. Prepared(g, m)' = [c \in Chunk |-> Fill]
    <3>1. \A c \in Chunk : ~(c <= Absent) /\ Absent # Chunks
      BY ConstantFacts DEF Chunk, Absent
    <3>. QED
      BY <2>1, <3>1 DEF Prepared
  <2>3. \A t \in Saves : t # s => Prepared(t[1], t[2])' = Prepared(t[1], t[2])
    <3>1. \A t \in Saves : t # s => size'[t[1]][t[2]] = size[t[1]][t[2]]
      BY <1>a, <1>3, SavesFacts DEF TypeInv, TypeOK, s
    <3>. QED
      BY <1>2, <3>1 DEF Prepared
  <2>. QED
    BY <1>3, <2>2, <2>3 DEF Home
<1>5. Live' = [Live EXCEPT ![s] = [c \in Chunk |-> Fill]]
  <2>1. \A t \in Saves : latest'[t[1]][t[2]] = IF t = s THEN [c \in Chunk |-> Fill]
                                                      ELSE latest[t[1]][t[2]]
    BY <1>a, <1>3, SavesFacts DEF TypeInv, TypeOK, s
  <2>. QED
    BY <1>3, <2>1 DEF Live
<1>6. Vault!Erase(s)
  BY <1>2, <1>4, <1>5 DEF Vault!Erase, Home, Live
<1>. QED
  BY <1>3, <1>6 DEF Vault!Next

(* Every step of SaveData is a step of SaveVault, or changes nothing in it. *)
LEMMA VaultStep == VInv /\ [Next]_vars => [Vault!Next]_Vault!vars
<1>. SUFFICES ASSUME VInv, [Next]_vars PROVE [Vault!Next]_Vault!vars
  OBVIOUS
<1>1. CASE holes' # {}
  BY <1>1 DEF Vault!Next, Vault!Break
<1>2. CASE UNCHANGED vars
  BY <1>2 DEF vars, card, rest, ghost, Vault!vars, Prepared
<1>. SUFFICES ASSUME Next, holes' = {} PROVE Vault!Next
  BY <1>1, <1>2
<1>3. holes = {} /\ Keeping /\ TypeInv
  BY HolesStayEmpty, KeepingMeans DEF Keeping
<1>4. holes' = holes
  BY <1>3
<1>5. CASE AcceptLaunch
  BY <1>3, <1>4, <1>5, AcceptStep
<1>6. CASE GameWrite
  BY <1>3, <1>6, PlayStep
<1>7. CASE EraseSave
  BY <1>3, <1>7, EraseStep
<1>8. CASE BackupStoreChunk
  <2>1. /\ pc = "store" /\ pc' \in {"store", "close", "unlink"} /\ chunk \in Chunk
        /\ UNCHANGED <<size, latest, told>>
        /\ data' = data \/ data' = [data EXCEPT ![cur][NextEntry(todo)][chunk]
                                                   = store[NextEntry(todo)][chunk]]
    BY <1>3, <1>8 DEF BackupStoreChunk, BackupFails, rest, ghost, card, Goto, TypeInv, TypeOK
  <2>2. CASE data' = data
    <3>1. Home' = Home /\ Live' = Live
      BY <2>1, <2>2 DEF Home, Live, Prepared
    <3>. QED
      BY <1>4, <2>1, <3>1, LeaveStep
  <2>. QED
    BY <1>3, <1>4, <2>1, <2>2, StoreStep
<1>9. CASE BackupCloseFile
  <2>1. /\ pc = "close" /\ pc' = "entry" /\ UNCHANGED <<size, latest, told>>
    BY <1>9 DEF BackupCloseFile, Goto
  <2>2. size[cur][NextEntry(todo)] = Chunks /\ Chunks \in Chunk
    BY <1>3, <2>1, Copying, ConstantFacts DEF Chunk
  <2>3. data' = [data EXCEPT ![cur][NextEntry(todo)][Chunks] = store[NextEntry(todo)][Chunks]]
    BY <1>9, <1>3, <1>4, <2>2 DEF BackupCloseFile
  <2>. QED
    BY <1>3, <1>4, <2>1, <2>2, <2>3, StoreStep
<1>10. CASE ~(AcceptLaunch \/ GameWrite \/ EraseSave \/ BackupStoreChunk \/ BackupCloseFile)
  <2>1. Home' = Home
    BY <1>3, <1>10, HomeStays, SameHome
  <2>2. latest' = latest /\ told \subseteq told' /\ (pc' = "menu" => pc # "menu")
    BY <1>10, <1>3 DEF Next, Firmware, Backup, Restore, User, World, cpu, card, cart, rest, ghost,
       BackupOpenIni, BackupEntry, BackupUnlinkIni,
       BackupClearSaveId, EnterMenu, BackupFails, RestoreFails, RestoreSetSaveId, PreallocateFile,
       RestoreLoadChunk, RestoreCloseFile, RestoreOpenIni, RestoreWriteIni, BootstubLoad, LaunchRom,
       AbortLaunch, LaunchOther, FactoryReset, RemoteLaunch, RemoteReturns,
       OtherWrite, SoftReset, PowerCycle, Goto, Waiting
  <2>3. Live' = Live
    BY <2>2 DEF Live
  <2>4. CASE pc' = "menu"
    <3>1. VInv'
      BY VStep
    <3>2. \A s \in Saves : Safe(s[1], s[2])'
      BY <1>4, <1>3, <2>4, <3>1, SavesFacts DEF VInv, KeepInv, SafeInv, Entrusted
    <3>. QED
      BY <1>4, <2>1, <2>2, <2>3, <2>4, <3>2, OpenStep
  <2>. QED
    BY <1>4, <2>1, <2>2, <2>3, <2>4, LeaveStep
<1>. QED
  BY <1>5, <1>6, <1>7, <1>8, <1>9, <1>10

(* The save data functions keep the promise of SaveVault, which knows no    *)
(* SAVE.INI, save ID or medium: on the way from one visit of the file       *)
(* selector to the next a save only ever changes towards what its game      *)
(* left, whatever fails, short of the events that holes records.            *)
THEOREM Refinement == Spec => ImplementsVault
<1>. QED
  BY VaultStart, VaultStep, VInvHolds, PTL DEF Spec, ImplementsVault, Vault!Spec
=============================================================================
