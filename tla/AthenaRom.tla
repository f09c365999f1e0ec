----------------------------- MODULE AthenaRom ------------------------------
(***************************************************************************)
(* launch_athena_begin, launch_athena_romfile_begin and _add: the ROM      *)
(* image that AthenaOS finds the program's files in.  A directory of fixed *)
(* size starts at DirSegment, the files follow it, the OS lies at          *)
(* OsSegment; BIOS and OS are loaded before.                               *)
(*                                                                         *)
(* Covered: the order the directories are read in, the limits on files and *)
(* sizes, names that are in use already, the file to execute, the placing  *)
(* of files with 16-bit segment arithmetic, a failing card.                *)
(*                                                                         *)
(* Abstracted: a header is the name and the number of 128-byte sectors it  *)
(* claims; which of ., /fbin and ram0 a file lies in is whether it is a    *)
(* ram0 file.  All sizes are parameters.                                   *)
(***************************************************************************)
EXTENDS Integers, Sequences

CONSTANTS
    Word,       \* values of a uint16_t
    DirSegment, \* where the directory starts
    OsSegment,  \* where AthenaOS starts
    Bank,       \* segments in a PSRAM bank: 0x1000
    Sector,     \* segments of a 128-byte sector: 8
    Para,       \* bytes of a segment: 16
    FentSize,   \* segments of a directory entry: 4
    RomMax,     \* ROM0_MAX_FILES
    RamMax,     \* RAM0_MAX_FILES
    Files,      \* candidates [name, size, ww, claim, ram]: size in bytes; whether
                \* it has a header, and the sectors that claims; in ram0 or not
    SkipChosen, \* whether the chosen file may be one that _add skips
    MaxFiles,   \* bound: files in the directories
    CanFail     \* whether the card may fail

LayoutAssumption ==
    /\ {Word, DirSegment, OsSegment, Bank} \subseteq Nat
    /\ 0 < DirSegment /\ DirSegment < OsSegment /\ OsSegment < Word
    /\ Bank > 0 /\ Bank % 2 = 0 /\ DirSegment % Bank = 0 /\ Word % Bank = 0
SectorAssumption ==
    /\ Sector \in Nat \ {0} /\ Para \in Nat \ {0} /\ FentSize \in Nat \ {0}
    /\ Bank % Sector = 0 /\ OsSegment % Sector = 0
    /\ ((RomMax + RamMax) * FentSize) % Sector = 0
    /\ DirSegment + (RomMax + RamMax) * FentSize <= OsSegment
FileAssumption ==
    \A f \in Files : f.size \in Nat /\ f.claim \in Nat /\ {f.ww, f.ram} \subseteq BOOLEAN
LimitAssumption == RomMax \in Nat /\ RamMax \in Nat /\ MaxFiles \in Nat

VARIABLES
    pc,      \* "find", "place", "read", or the result
    entry,   \* the file being added
    fent,    \* its directory entry: [file, loc]
    left,    \* how much of it is to be read: file_size
    segment, \* file_segment
    rom,     \* the entries with ROM0 files, in order
    ram,     \* the entries with RAM0 files
    exec,    \* file_exec_idx
    chosen,  \* the file the user chose, when its turn has come
    seen,    \* files met so far
    written  \* written[s]: which file's bytes PSRAM holds at segment s

vars == <<pc, entry, fent, left, segment, rom, ram, exec, chosen, seen, written>>

NoFile == [name |-> "", size |-> 0, ww |-> FALSE, claim |-> 0, ram |-> FALSE]
FilesAt == DirSegment + (RomMax + RamMax) * FentSize
Add16(a, b) == (a + b) % Word
Aligned(s)  == (((s + Sector - 1) \div Sector) * Sector) % Word
FreeSize == ((OsSegment - segment) % Word) * Para     \* uint16_t segments
MaxSize  == (OsSegment - DirSegment) * Para

Segments(f) == (f.size + Para - 1) \div Para
Sectors(f)  == IF f.ww THEN f.claim ELSE (Segments(f) + Sector - 1) \div Sector

(* BIOS and OS, loaded by launch_athena_begin, and the empty directory.     *)
Begin(seg) == IF seg >= OsSegment THEN "os" ELSE "none"

Init ==
    /\ pc = "find" /\ entry = NoFile /\ left = 0
    /\ fent = [file |-> NoFile, loc |-> 0]
    /\ segment = FilesAt
    /\ rom = <<>> /\ ram = <<>> /\ exec = 0
    /\ chosen = NoFile /\ seen = 0
    /\ written = [s \in 0..(Word - 1) |-> Begin(s)]

-----------------------------------------------------------------------------
Stop(result) == pc' = result /\ UNCHANGED <<entry, fent, left, segment, rom, ram, written>>
RomEntries == {rom[i] : i \in DOMAIN rom}
RamEntries == {ram[i] : i \in DOMAIN ram}

(* Mutant: one file too many.                                               *)
FullTooLate(f) == IF f.ram THEN Len(ram) > RamMax ELSE Len(rom) > RomMax

Full(f) == IF f.ram THEN Len(ram) >= RamMax ELSE Len(rom) >= RomMax

(* A file without a header that is larger than all of the space, and one    *)
(* whose name is in use, are passed over without an error.                  *)
TooBig(f)  == ~f.ww /\ f.size > MaxSize
InUse(f)   == \E e \in IF f.ram THEN RamEntries ELSE RomEntries : e.file.name = f.name
Skipped(f) == TooBig(f) \/ InUse(f)

(* The next file of ., /fbin or ram0; those of ram0 come last.  file_exec_idx *)
(* is set before anything else is known of the file.                        *)
FindFile ==
    /\ pc = "find" /\ seen < MaxFiles
    /\ \E f \in Files, b \in BOOLEAN :
         /\ entry.ram => f.ram
         /\ b => ~f.ram /\ chosen = NoFile
         /\ b => SkipChosen \/ ~Skipped(f)
         /\ seen' = seen + 1
         /\ chosen' = IF b THEN f ELSE chosen
         /\ exec' = IF b /\ ~Full(f) THEN Len(rom) ELSE exec
         /\ IF Full(f) THEN Stop("memory")
            ELSE /\ entry' = f
                 /\ pc' = "place"
                 /\ UNCHANGED <<fent, left, segment, rom, ram, written>>

CardFails ==
    /\ CanFail /\ pc \in {"place", "read"}
    /\ Stop("card") /\ UNCHANGED <<exec, chosen, seen>>

(* The directory entry is filled in here; it counts when the file is read.  *)
PlaceFile ==
    /\ pc = "place"
    /\ UNCHANGED <<exec, chosen, seen>>
    /\ \/ Skipped(entry) /\ Stop("find")
       \/ /\ ~Skipped(entry) /\ entry.size > FreeSize
          /\ Stop("large")
       \/ /\ ~Skipped(entry) /\ entry.size <= FreeSize
          /\ left' = entry.size
          /\ fent' = [file |-> entry, loc |-> segment]
          /\ pc' = "read"
          /\ UNCHANGED <<entry, segment, rom, ram, written>>

(* One turn of the loop reads up to the end of the PSRAM bank, or half of a *)
(* bank when the file is at least that long.                                *)
Room == (Bank - (segment % Bank)) * Para
Turn == IF segment % Bank = 0 /\ left >= Bank * Para THEN (Bank * Para) \div 2
        ELSE IF left < Room THEN left ELSE Room

ReadFile ==
    /\ pc = "read" /\ left > 0
    /\ written' = [s \in DOMAIN written |->
                     IF s >= segment /\ (s - segment) * Para < Turn
                     THEN entry.name ELSE written[s]]
    /\ left' = left - Turn
    /\ segment' = Add16(segment, Turn \div Para)
    /\ UNCHANGED <<pc, entry, fent, rom, ram, exec, chosen, seen>>

(* Mutant: the header's claim is not looked at.                             *)
FinishFileUnclaimed ==
    /\ pc = "read" /\ left = 0
    /\ segment' = (segment \div Sector) * Sector
    /\ IF entry.ram THEN ram' = Append(ram, fent) /\ UNCHANGED rom
                    ELSE rom' = Append(rom, fent) /\ UNCHANGED ram
    /\ pc' = "find"
    /\ UNCHANGED <<entry, fent, left, exec, chosen, seen, written>>

(* The next file starts at the next sector, or behind the sectors the       *)
(* header claims, if that is further.                                       *)
FinishFile ==
    /\ pc = "read" /\ left = 0
    /\ LET claimed == Add16(fent.loc, Sectors(entry) * Sector)
       IN segment' = IF Aligned(segment) < claimed THEN claimed ELSE Aligned(segment)
    /\ IF entry.ram THEN ram' = Append(ram, fent) /\ UNCHANGED rom
                    ELSE rom' = Append(rom, fent) /\ UNCHANGED ram
    /\ pc' = "find"
    /\ UNCHANGED <<entry, fent, left, exec, chosen, seen, written>>

(* The chosen file was in the listing, so the directory holds it.           *)
Done ==
    /\ pc = "find" /\ chosen # NoFile
    /\ Stop("ok")
    /\ UNCHANGED <<exec, chosen, seen>>

Next == FindFile \/ CardFails \/ PlaceFile \/ ReadFile \/ FinishFile \/ Done

Spec == Init /\ [][Next]_vars

-----------------------------------------------------------------------------
Entries == RomEntries \cup RamEntries

TypeOK ==
    /\ pc \in {"find", "place", "read", "ok", "memory", "card", "large"}
    /\ entry \in Files \cup {NoFile} /\ chosen \in Files \cup {NoFile}
    /\ left \in Nat /\ segment \in 0..(Word - 1)
    /\ Len(rom) <= RomMax /\ Len(ram) <= RamMax
    /\ \A e \in Entries : e.file \in Files /\ e.loc \in 0..(Word - 1)
    /\ exec \in 0..RomMax /\ seen \in 0..MaxFiles

(* launch_athena_romfile_add: in the image that is started, every entry's   *)
(* file lies whole at the place its entry names: no later file, no end of a *)
(* bank and no rounding has moved or overwritten any of it.                 *)
FilesIntact ==
    pc = "ok" => \A e \in Entries : \A s \in e.loc..(e.loc + Segments(e.file) - 1) :
                     written[s] = e.file.name

(* fx.md:31, "the 640 KiB limit": however many files there are and whatever *)
(* their sizes, none reaches the directory before or AthenaOS behind them.  *)
OsKept ==
    \A s \in DOMAIN written : s \notin FilesAt..(OsSegment - 1) => written[s] = Begin(s)

(* fx.md:39, "Select the game's main .fx file, then press A": the file that *)
(* AthenaOS executes is the one that was selected.                          *)
ChosenRuns == pc = "ok" => exec < Len(rom) /\ rom[exec + 1].file = chosen
=============================================================================
