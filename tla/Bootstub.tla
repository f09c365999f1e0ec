------------------------------ MODULE Bootstub ------------------------------
(***************************************************************************)
(* The bootstub puts the program at the end of PSRAM and starts it.  A     *)
(* program on the card is read along its FAT chain in halves of a bank, by *)
(* cluster_read; one that was uploaded already lies at the start of PSRAM  *)
(* and is moved.                                                           *)
(*                                                                         *)
(* Covered: 12-, 16- and 32-bit FAT entries and the one-sector window they *)
(* are read through, the read-ahead over neighbouring clusters, partial    *)
(* sectors, failing reads, chains that end early, the move, Freya's patch. *)
(*                                                                         *)
(* Abstracted: the byte i of the file is i; a bank and an offset are one   *)
(* address; sizes are parameters; screen and port set-up are left out.     *)
(***************************************************************************)
EXTENDS Integers, Sequences

CONSTANTS
    Sector,    \* bytes of a sector: 512
    Bank,      \* bytes of a PSRAM bank: 0x10000
    Programs,  \* [source, size, banks, freya, bits, cs, chain]: "card", "psram" or
               \* "none"; rom_banks; whether Freya's patch is asked for and its
               \* area blank ("no", "blank", "used"); FAT entry width, sectors per
               \* cluster and the file's clusters
    Checked,   \* offsets in the last bank: the area that must be blank,
    Code,      \* where the patch goes,
    Pointer,   \* and the jump of the program
    Count,     \* fat_entry_count
    DataBase,  \* data_base; cluster_table_base is 0
    MaxFaults  \* bound: reads that fail

SizeAssumption ==
    /\ Sector \in Nat \ {0} /\ Sector % 4 = 0
    /\ Bank \in Nat \ {0} /\ Bank % (2 * Sector) = 0
ProgramAssumption ==
    \A p \in Programs : /\ p.source \in {"card", "psram", "none"}
                        /\ p.size \in Nat \ {0} /\ p.size <= 256 * Bank
                        /\ p.banks \in 0..256
                        /\ p.freya # "no" => p.size >= Bank
PatchAssumption ==
    /\ Checked \cup Code \cup Pointer \subseteq 0..(Bank - 1)
    /\ Code \cap Pointer = {} /\ Checked \cap (Code \cup Pointer) = {}
FatAssumption == Count \in Nat /\ DataBase \in Nat /\ MaxFaults \in Nat

(* A sound file system: the FAT ends before the data, and a file's chain is *)
(* of clusters that exist, none of them twice.                              *)
CardAssumption ==
    \A p \in Programs : p.source = "card" =>
        /\ p.cs \in Nat \ {0} /\ p.bits \in {12, 16, 32}
        /\ p.bits * Count <= 8 * DataBase * Sector
        /\ p.chain \in Seq(2..(Count - 1)) /\ p.chain # <<>>
        /\ \A i, j \in DOMAIN p.chain : p.chain[i] = p.chain[j] => i = j

VARIABLES
    pc,
    prog,     \* bootstub_data
    at,       \* bank and offset to write at
    from,     \* bank and offset to move from
    btr,      \* bytes left to read
    ptr,      \* current_file_ptr
    cluster,  \* current_cluster
    sector,   \* current_sector, or the first one to read directly
    cc,       \* sectors to read directly
    run,      \* contiguous_cluster_size
    window,   \* [label, holds]: drive_window_sector, and what is in the buffer
    psram,    \* psram[a]: which byte of the file is at a
    start,    \* start_pointer: the bytes it was read from
    mixed,    \* history: a FAT entry was read from a buffer that holds something else
    faults    \* bound: reads that failed

place   == <<cluster, sector, cc, run>>
vars    == <<pc, prog, at, from, btr, ptr, place, window, psram, start, mixed, faults>>
reading == <<prog, from, start>>

Other == -1  \* bytes not of the file
Reset == -2  \* freya_soft_reset
Bios  == -3  \* 0xFFFF:0000
Last      == Count + 100  \* the mark at the end of a chain
Unread    == Count + 200  \* 0xFFFFFFFF
NoSector  == -1
Half      == Bank \div 2

-----------------------------------------------------------------------------
(* math_next_power_of_two, of which real_size is never less than a bank.    *)
BankCounts == {1, 2, 4, 8, 16, 32, 64, 128, 256}
Fits(n) == n * Bank >= prog.size /\ n >= prog.banks
TotalBanks ==
    CHOOSE n \in BankCounts : Fits(n) /\ \A m \in BankCounts : Fits(m) => n <= m
RealSize == TotalBanks * Bank

(* clst2sect                                                                *)
ValidCluster(c) == c >= 2 /\ c < Count
SectorOf(c)     == DataBase + prog.cs * (c - 2)

(* What the card holds: the file, wherever its clusters lie.                *)
SectorBytes(s) ==
    [o \in 0..(Sector - 1) |->
        IF \E i \in DOMAIN prog.chain : s - SectorOf(prog.chain[i]) \in 0..(prog.cs - 1)
        THEN LET i == CHOOSE i \in DOMAIN prog.chain :
                        s - SectorOf(prog.chain[i]) \in 0..(prog.cs - 1)
             IN ((i - 1) * prog.cs + s - SectorOf(prog.chain[i])) * Sector + o
        ELSE Other]

FatEntry(c) ==
    IF \E i \in DOMAIN prog.chain : prog.chain[i] = c
    THEN LET i == CHOOSE i \in DOMAIN prog.chain : prog.chain[i] = c
         IN IF i = Len(prog.chain) THEN Last ELSE prog.chain[i + 1]
    ELSE 0

(* A 12-bit entry lies in two bytes that may be in two sectors.             *)
FatByte(c)   == CASE prog.bits = 12 -> c + c \div 2 [] prog.bits = 16 -> 2 * c [] OTHER -> 4 * c
FatFirst(c)  == FatByte(c) \div Sector
FatSecond(c) == IF prog.bits = 12 THEN (FatByte(c) + 1) \div Sector ELSE FatFirst(c)

(* move_window: a read that fails keeps the label, but may have overwritten *)
(* the buffer.                                                              *)
Moved(w, s) ==
    IF w.label = s THEN {[ok |-> TRUE, win |-> w]}
    ELSE {[ok |-> TRUE, win |-> [label |-> s, holds |-> s]]}
         \cup {[ok |-> FALSE, win |-> [label |-> w.label, holds |-> h]] : h \in {w.holds, NoSector}}

(* read_next_cluster, and how it leaves the window.                         *)
Found(c, w1, w2) ==
    IF w1.holds = FatFirst(c) /\ w2.holds = FatSecond(c)
    THEN {[next |-> FatEntry(c), win |-> w2, ok |-> TRUE, mix |-> FALSE]}
    ELSE {[next |-> n, win |-> w2, ok |-> TRUE, mix |-> TRUE] : n \in 0..Count}
NotFound(w) == {[next |-> Unread, win |-> w, ok |-> FALSE, mix |-> FALSE]}

read_next_cluster(c) ==
    IF ~ValidCluster(c)
    THEN {[next |-> 1, win |-> window, ok |-> TRUE, mix |-> FALSE]}
    ELSE UNION {IF ~m1.ok THEN NotFound(m1.win)
                ELSE UNION {IF ~m2.ok THEN NotFound(m2.win) ELSE Found(c, m1.win, m2.win)
                              : m2 \in Moved(m1.win, FatSecond(c))}
                  : m1 \in Moved(window, FatFirst(c))}

Spend(ok) == faults' = faults + (IF ok THEN 0 ELSE 1) /\ faults' <= MaxFaults

-----------------------------------------------------------------------------
Init ==
    /\ pc = "start" /\ prog \in Programs
    /\ at = 0 /\ from = 0 /\ btr = 0 /\ ptr = 0
    /\ cluster = 0 /\ sector = 0 /\ cc = 0 /\ run = 0
    /\ window = [label |-> NoSector, holds |-> NoSector]
    /\ psram = [a \in 0..(RealSize - 1) |->
                  IF prog.source = "psram" /\ a < prog.size THEN a ELSE Other]
    /\ start = {Bios} /\ mixed = FALSE /\ faults = 0

(* main, up to the loop.  The move starts at the last byte of the file and  *)
(* of the last bank.                                                        *)
Start ==
    /\ pc = "start"
    /\ CASE prog.source = "card" ->
              /\ pc' = "bank" /\ at' = RealSize - prog.size /\ ptr' = 0
              /\ cluster' = prog.chain[1] /\ UNCHANGED from
         [] prog.source = "psram" /\ prog.size # RealSize ->
              /\ pc' = "pad" /\ at' = RealSize - 1 /\ from' = prog.size - 1
              /\ UNCHANGED <<ptr, cluster>>
         [] OTHER -> pc' = "patch" /\ UNCHANGED <<at, from, ptr, cluster>>
    /\ UNCHANGED <<prog, btr, sector, cc, run, window, psram, start, mixed, faults>>

(* The loop of main reads to the middle of the bank, then to its end.       *)
NextHalf ==
    /\ pc = "bank"
    /\ IF at < RealSize
       THEN /\ btr' = (IF at % Bank < Half THEN Half ELSE Bank) - (at % Bank)
            /\ pc' = "read"
       ELSE pc' = "patch" /\ UNCHANGED btr
    /\ UNCHANGED <<reading, at, ptr, place, window, psram, mixed, faults>>

-----------------------------------------------------------------------------
(* cluster_read: the loop's body.                                           *)
InCluster == (ptr \div Sector) % prog.cs

HalfRead ==
    /\ pc = "read" /\ btr = 0 /\ pc' = "bank"
    /\ UNCHANGED <<reading, at, btr, ptr, place, window, psram, mixed, faults>>

WithinSector ==
    /\ pc = "read" /\ btr > 0 /\ ptr % Sector # 0 /\ pc' = "part"
    /\ UNCHANGED <<reading, at, btr, ptr, place, window, psram, mixed, faults>>

(* On a sector boundary; on a cluster boundary, the next cluster is looked  *)
(* up first.                                                                *)
Here == {[next |-> cluster, win |-> window, ok |-> TRUE, mix |-> FALSE]}

OnBoundary ==
    /\ pc = "read" /\ btr > 0 /\ ptr % Sector = 0
    /\ \E l \in IF InCluster = 0 /\ ptr # 0 THEN read_next_cluster(cluster) ELSE Here :
         /\ window' = l.win /\ mixed' = (mixed \/ l.mix) /\ Spend(l.ok)
         /\ IF l.next = Unread
            THEN pc' = "FR_DISK_ERR" /\ UNCHANGED place
            ELSE IF ~ValidCluster(l.next)
            THEN pc' = "FR_INT_ERR" /\ UNCHANGED place
            ELSE /\ cluster' = l.next
                 /\ sector' = SectorOf(l.next) + InCluster
                 /\ cc' = btr \div Sector /\ run' = prog.cs
                 /\ pc' = IF btr >= Sector THEN "ahead" ELSE "part"
    /\ UNCHANGED <<reading, at, btr, ptr, psram>>

(* Mutant: the cluster that is no neighbour is kept as the current one.     *)
LookAheadKeeps ==
    /\ pc = "ahead"
    /\ IF InCluster + cc <= run
       THEN pc' = "direct" /\ UNCHANGED <<cluster, cc, run, window, mixed, faults>>
       ELSE \E l \in read_next_cluster(cluster) :
              /\ window' = l.win /\ mixed' = (mixed \/ l.mix) /\ Spend(l.ok)
              /\ cluster' = l.next
              /\ IF l.next = cluster + 1
                 THEN run' = run + prog.cs /\ UNCHANGED <<pc, cc>>
                 ELSE cc' = run - InCluster /\ pc' = "direct" /\ UNCHANGED run
    /\ UNCHANGED <<reading, at, btr, ptr, sector, psram>>

(* FF_WF_FAST_CONTIGUOUS_READ: clusters that follow each other are read at  *)
(* once; a lookup that fails only shortens the read.                        *)
LookAhead ==
    /\ pc = "ahead"
    /\ IF InCluster + cc <= run
       THEN pc' = "direct" /\ UNCHANGED <<cluster, cc, run, window, mixed, faults>>
       ELSE \E l \in read_next_cluster(cluster) :
              /\ window' = l.win /\ mixed' = (mixed \/ l.mix) /\ Spend(l.ok)
              /\ IF l.next = cluster + 1
                 THEN /\ cluster' = l.next /\ run' = run + prog.cs
                      /\ UNCHANGED <<pc, cc>>
                 ELSE /\ cc' = run - InCluster /\ pc' = "direct"
                      /\ UNCHANGED <<cluster, run>>
    /\ UNCHANGED <<reading, at, btr, ptr, sector, psram>>

(* n bytes, the byte k of which is bytes[k], go to PSRAM.                   *)
Took(n, bytes) ==
    /\ psram' = [a \in DOMAIN psram |-> IF a - at \in 0..(n - 1) THEN bytes[a - at] ELSE psram[a]]
    /\ at' = at + n /\ ptr' = ptr + n /\ btr' = btr - n
    /\ pc' = "read"

ReadDirect ==
    /\ pc = "direct"
    /\ \/ /\ Took(cc * Sector,
                  [k \in 0..(cc * Sector - 1) |->
                      SectorBytes(sector + k \div Sector)[k % Sector]])
          /\ UNCHANGED faults
       \/ /\ Spend(FALSE) /\ pc' = "FR_DISK_ERR"
          /\ UNCHANGED <<at, btr, ptr, psram>>
    /\ UNCHANGED <<reading, place, window, mixed>>

(* A part of a sector comes through the window.                             *)
ReadPart ==
    /\ pc = "part"
    /\ LET within == ptr % Sector
           rest   == Sector - within
           rcnt   == IF rest > btr THEN btr ELSE rest
       IN \E m \in Moved(window, sector) :
            /\ window' = m.win /\ Spend(m.ok)
            /\ IF m.ok
               THEN Took(rcnt, [k \in 0..(rcnt - 1) |-> SectorBytes(m.win.holds)[within + k]])
               ELSE pc' = "FR_DISK_ERR" /\ UNCHANGED <<at, btr, ptr, psram>>
    /\ UNCHANGED <<reading, place, mixed>>

-----------------------------------------------------------------------------
(* pad_image_in_memory: both addresses run backwards, as far as the bank of *)
(* either goes in one stretch.  The later of two overlapping places is      *)
(* written first, so every byte is read before it is overwritten.           *)
Stretch == IF from % Bank < at % Bank THEN from % Bank ELSE at % Bank

Pad ==
    /\ pc = "pad"
    /\ psram' = [a \in DOMAIN psram |->
                   IF a \in (at - Stretch)..at THEN psram[a - (at - from)] ELSE psram[a]]
    /\ at' = at - Stretch - 1 /\ from' = from - Stretch - 1
    /\ pc' = IF from = Stretch THEN "patch" ELSE "pad"
    /\ UNCHANGED <<prog, btr, ptr, place, window, start, mixed, faults>>

(* patch_apply_freya_soft_reset: only into a program that leaves room.      *)
InLastBank(o) == RealSize - Bank + o
OfFile(a)     == a - (RealSize - prog.size)
InPlace(a)    == psram[a] = OfFile(a) /\ OfFile(a) >= 0
Blank ==
    IF \A o \in Checked : InPlace(InLastBank(o)) THEN {prog.freya = "blank"} ELSE BOOLEAN

Patch ==
    /\ pc = "patch" /\ pc' = "run"
    /\ \/ /\ prog.freya # "no" /\ TRUE \in Blank
          /\ start' = {psram[InLastBank(o)] : o \in Pointer}
          /\ psram' = [a \in DOMAIN psram |->
                         IF a - InLastBank(0) \in Code \cup Pointer THEN Reset ELSE psram[a]]
       \/ /\ prog.freya = "no" \/ FALSE \in Blank
          /\ UNCHANGED <<start, psram>>
    /\ UNCHANGED <<prog, at, from, btr, ptr, place, window, mixed, faults>>

Next ==
    \/ Start \/ NextHalf \/ HalfRead \/ WithinSector \/ OnBoundary \/ LookAhead
    \/ ReadDirect \/ ReadPart \/ Pad \/ Patch

Spec == Init /\ [][Next]_vars

-----------------------------------------------------------------------------
Labels == {"start", "bank", "read", "part", "ahead", "direct", "pad", "patch", "run",
           "FR_DISK_ERR", "FR_INT_ERR"}

TypeOK ==
    /\ pc \in Labels /\ prog \in Programs
    /\ at \in Int /\ from \in Int
    /\ btr \in 0..Half /\ ptr \in 0..prog.size
    /\ cluster \in 0..Count /\ run \in Nat /\ cc \in 0..(Half \div Sector) /\ sector \in Nat
    /\ mixed \in BOOLEAN /\ faults \in 0..MaxFaults

Patched == {InLastBank(o) : o \in Code \cup Pointer}

(* main.c:219-256: a program that is started has every byte at its place    *)
(* from the end of PSRAM, but for the patch, and one that was patched       *)
(* starts where it would have.                                              *)
ImageAlwaysInPlace ==
    pc = "run" /\ prog.source # "none" =>
        /\ \A i \in 0..(prog.size - 1) :
             LET a == RealSize - prog.size + i
             IN psram[a] = i \/ (psram[a] = Reset /\ a \in Patched)
        /\ start = {Bios} \/ start = {OfFile(InLastBank(o)) : o \in Pointer}

(* The same, whichever way the program's clusters lie and its halves of     *)
(* banks and its sectors fall, and whatever reads failed on the way; but    *)
(* for a FAT entry taken from a buffer that holds something else.           *)
ImageInPlace == ~mixed => ImageAlwaysInPlace

(* Only a 12-bit entry that lies across two sectors is ever read so.        *)
OnlyAcrossMixed == mixed => prog.bits = 12

(* "Storage I/O error" needs a failing read, "Internal error" a file whose  *)
(* chain is shorter than its size (main.c:73-74).                           *)
ErrorsToldRight ==
    /\ pc = "FR_DISK_ERR" => faults > 0
    /\ pc = "FR_INT_ERR" => mixed \/ Len(prog.chain) * prog.cs * Sector < prog.size
=============================================================================
