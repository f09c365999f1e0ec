--------------------------- MODULE BootstubProofs ---------------------------
(***************************************************************************)
(* Proofs about Bootstub, for every size of a program, of a sector and of  *)
(* a bank, every place of its clusters and any number of failing reads: a  *)
(* program that was uploaded is moved to the end of PSRAM whole, and one   *)
(* that is on the card is read there whole.                                *)
(***************************************************************************)
EXTENDS Bootstub, TLAPS

Shift == RealSize - prog.size
Bytes == 0..(prog.size - 1)

(* What is behind the addresses of the move is at its new place, what is    *)
(* before them at its old one; the two stay the same distance apart.        *)
Moving ==
    /\ from \in Bytes /\ at = from + Shift
    /\ \A i \in Bytes : i <= from => psram[i] = i
    /\ \A i \in Bytes : i > from => psram[Shift + i] = i

Placed == \A i \in Bytes : psram[Shift + i] = i

Ran ==
    /\ \A i \in Bytes : psram[Shift + i] = i \/ (psram[Shift + i] = Reset /\ Shift + i \in Patched)
    /\ start = {Bios} \/ start = {OfFile(InLastBank(o)) : o \in Pointer}

MoveInv ==
    /\ prog \in Programs
    /\ DOMAIN psram = 0..(RealSize - 1)
    /\ prog.source = "psram" =>
         /\ pc \in {"start", "pad", "patch", "run"}
         /\ pc = "start" => \A i \in Bytes : psram[i] = i
         /\ pc \in {"start", "pad", "patch"} => start = {Bios}
         /\ pc = "pad" => Moving
         /\ pc = "patch" => Placed
         /\ pc = "run" => Ran

(* real_size holds the program, in whole banks.                             *)
LEMMA BanksFit ==
    ASSUME SizeAssumption, ProgramAssumption, prog \in Programs
    PROVE  TotalBanks \in BankCounts /\ Fits(TotalBanks)
<1>1. Bank \in Nat \ {0} /\ prog.size \in Nat \ {0} /\ prog.size <= 256 * Bank /\ prog.banks \in 0..256
    BY DEF SizeAssumption, ProgramAssumption
<1>2. Fits(256)
    BY <1>1 DEF Fits
<1>3. \E n \in BankCounts : Fits(n) /\ \A m \in BankCounts : Fits(m) => n <= m
    BY <1>1, <1>2 DEF BankCounts
<1> QED
    BY <1>3 DEF TotalBanks

LEMMA RealSizeFits ==
    ASSUME SizeAssumption, ProgramAssumption, prog \in Programs
    PROVE  RealSize \in Nat /\ prog.size \in Nat \ {0} /\ RealSize >= prog.size /\ RealSize >= Bank
<1>1. Bank \in Nat \ {0} /\ prog.size \in Nat \ {0}
    BY DEF SizeAssumption, ProgramAssumption
<1>2. TotalBanks * Bank \in Nat /\ TotalBanks * Bank >= Bank
    BY <1>1, BanksFit DEF BankCounts
<1> QED
    BY <1>1, <1>2, BanksFit DEF Fits, RealSize

(* A stretch of the move does not pass the start of PSRAM.                  *)
LEMMA StretchFits ==
    ASSUME SizeAssumption, from \in Nat, at \in Nat
    PROVE  Stretch \in Nat /\ Stretch <= from
<1>1. Bank \in Nat \ {0}
    BY DEF SizeAssumption
<1>2. from % Bank \in Nat /\ at % Bank \in Nat
    BY <1>1
<1>3. from % Bank <= from
    BY <1>1
<1> QED
    BY <1>2, <1>3 DEF Stretch

(* The program, and with it the size of its image, stays what it is.        *)
LEMMA ProgramStays ==
    ASSUME [Next]_vars
    PROVE  /\ prog' = prog /\ RealSize' = RealSize
           /\ DOMAIN psram = 0..(RealSize - 1) => DOMAIN psram' = 0..(RealSize - 1)
<1>1. prog' = prog
    BY DEF Next, vars, reading, Start, NextHalf, HalfRead, WithinSector, OnBoundary, LookAhead,
           ReadDirect, ReadPart, Pad, Patch
<1>2. RealSize' = RealSize
    BY <1>1 DEF RealSize, TotalBanks, Fits
<1>3. psram' = psram \/ DOMAIN psram' = DOMAIN psram
    BY DEF Next, vars, Start, NextHalf, HalfRead, WithinSector, OnBoundary, LookAhead,
           ReadDirect, ReadPart, Took, Pad, Patch
<1> QED
    BY <1>1, <1>2, <1>3

(* The steps of reading from the card are never taken.                      *)
LEMMA OnlyMoves ==
    ASSUME [Next]_vars, pc \in {"start", "pad", "patch", "run"}
    PROVE  Start \/ Pad \/ Patch \/ UNCHANGED vars
BY DEF Next, NextHalf, HalfRead, WithinSector, OnBoundary, LookAhead, ReadDirect, ReadPart

LEMMA StartStep ==
    ASSUME SizeAssumption, ProgramAssumption, MoveInv, prog.source = "psram", Start
    PROVE  /\ pc' \in {"pad", "patch"} /\ start' = {Bios}
           /\ pc' = "pad" => Moving'
           /\ pc' = "patch" => Placed'
<1>1. /\ RealSize \in Nat /\ prog.size \in Nat \ {0} /\ RealSize >= prog.size
    BY RealSizeFits DEF MoveInv
<1>2. prog' = prog /\ RealSize' = RealSize
    BY ProgramStays DEF Next
<1>3. psram' = psram /\ start' = start /\ pc = "start"
    BY DEF Start
<1>4. \A i \in Bytes : psram[i] = i
    BY <1>3 DEF MoveInv
<1>5. start' = {Bios}
    BY <1>3 DEF MoveInv
<1>6. CASE prog.size # RealSize
    <2>1. pc' = "pad" /\ at' = RealSize - 1 /\ from' = prog.size - 1
        BY <1>6 DEF Start
    <2>2. Moving'
        BY <1>1, <1>2, <1>3, <1>4, <2>1 DEF Moving, Bytes, Shift
    <2> QED
        BY <1>5, <2>1, <2>2
<1>7. CASE prog.size = RealSize
    <2>1. pc' = "patch"
        BY <1>7 DEF Start
    <2>2. Placed'
        BY <1>1, <1>2, <1>3, <1>4, <1>7 DEF Placed, Bytes, Shift
    <2> QED
        BY <1>5, <2>1, <2>2
<1> QED
    BY <1>6, <1>7

(* No byte is overwritten before it is read: the places a stretch is        *)
(* written to lie behind every byte that is still to be moved.              *)
LEMMA PadStep ==
    ASSUME SizeAssumption, ProgramAssumption, MoveInv, prog.source = "psram", Pad
    PROVE  /\ pc' \in {"pad", "patch"} /\ start' = {Bios}
           /\ pc' = "pad" => Moving'
           /\ pc' = "patch" => Placed'
<1>1. /\ RealSize \in Nat /\ prog.size \in Nat \ {0} /\ RealSize >= prog.size
    BY RealSizeFits DEF MoveInv
<1>2. prog' = prog /\ RealSize' = RealSize
    BY ProgramStays DEF Next
<1>3. pc = "pad" /\ Moving /\ start' = {Bios} /\ DOMAIN psram = 0..(RealSize - 1)
    BY DEF Pad, MoveInv
<1>4. /\ from \in Nat /\ from <= prog.size - 1 /\ Shift \in Nat /\ at = from + Shift
      /\ at <= RealSize - 1
    BY <1>1, <1>3 DEF Moving, Bytes, Shift
<1>5. Stretch \in Nat /\ Stretch <= from
    BY <1>4, StretchFits
<1>6. /\ at' = at - Stretch - 1 /\ from' = from - Stretch - 1
      /\ pc' = IF from = Stretch THEN "patch" ELSE "pad"
      /\ Shift' = Shift /\ Bytes' = Bytes
    BY <1>2 DEF Pad, Shift, Bytes
<1>7. \A a \in 0..(RealSize - 1) :
        psram'[a] = IF a \in (at - Stretch)..at THEN psram[a - Shift] ELSE psram[a]
    BY <1>3, <1>4 DEF Pad
<1>8. ASSUME NEW i \in Bytes, i <= from' PROVE psram'[i] = i
    <2>1. i \in 0..(RealSize - 1) /\ i \notin (at - Stretch)..at /\ i <= from
        BY <1>1, <1>4, <1>5, <1>6, <1>8 DEF Bytes
    <2> QED
        BY <2>1, <1>3, <1>7 DEF Moving
<1>9. ASSUME NEW i \in Bytes, i > from' PROVE psram'[Shift + i] = i
    <2>1. Shift + i \in 0..(RealSize - 1) /\ i \in Nat
        BY <1>1, <1>4 DEF Bytes, Shift
    <2>2. CASE i > from
        <3>1. Shift + i \notin (at - Stretch)..at
            BY <1>4, <2>1, <2>2
        <3> QED
            BY <1>3, <1>7, <2>1, <2>2, <3>1 DEF Moving
    <2>3. CASE i <= from
        <3>1. Shift + i \in (at - Stretch)..at /\ Shift + i - Shift = i
            BY <1>4, <1>5, <1>6, <1>9, <2>1, <2>3
        <3>2. PICK a \in 0..(RealSize - 1) : a = Shift + i
            BY <2>1
        <3>3. psram'[a] = psram[a - Shift] /\ a - Shift = i
            BY <1>4, <1>7, <2>1, <3>1, <3>2
        <3> QED
            BY <1>3, <2>3, <3>2, <3>3, Zenon DEF Moving
    <2> QED
        BY <2>1, <2>2, <2>3, <1>4
<1>10. CASE from = Stretch
    <2>1. pc' = "patch" /\ from' = -1
        BY <1>4, <1>6, <1>10
    <2>2. \A i \in Bytes : psram'[Shift + i] = i
        <3>1. \A i \in Bytes : i > from'
            BY <2>1 DEF Bytes
        <3> QED
            BY <1>9, <3>1
    <2>3. Placed'
        BY <1>6, <2>2 DEF Placed
    <2> QED
        BY <1>3, <2>1, <2>3
<1>11. CASE from # Stretch
    <2>1. pc' = "pad" /\ from' \in Bytes /\ at' = from' + Shift
        BY <1>1, <1>4, <1>5, <1>6, <1>11 DEF Bytes
    <2>2. Moving'
        BY <1>6, <1>8, <1>9, <2>1 DEF Moving
    <2> QED
        BY <1>3, <2>1, <2>2
<1> QED
    BY <1>10, <1>11

(* The patch saves the jump before it writes its own over it.               *)
LEMMA PatchStep ==
    ASSUME SizeAssumption, ProgramAssumption, PatchAssumption, prog \in Programs,
           DOMAIN psram = 0..(RealSize - 1), Placed, start = {Bios}, Patch
    PROVE  pc' = "run" /\ Ran'
<1>1. /\ RealSize \in Nat /\ prog.size \in Nat \ {0} /\ RealSize >= prog.size
      /\ RealSize >= Bank /\ Bank \in Nat
    BY RealSizeFits DEF SizeAssumption
<1>2. prog' = prog /\ RealSize' = RealSize
    BY ProgramStays DEF Next
<1>3. pc' = "run" /\ Placed /\ start = {Bios} /\ DOMAIN psram = 0..(RealSize - 1)
    BY DEF Patch
<1>4. Bytes' = Bytes /\ Shift' = Shift /\ Patched' = Patched
      /\ {OfFile(InLastBank(o)) : o \in Pointer}' = {OfFile(InLastBank(o)) : o \in Pointer}
    BY <1>2 DEF Bytes, Shift, Patched, InLastBank, OfFile
<1>5. Shift \in Nat /\ \A i \in Bytes : i \in Nat /\ Shift + i \in 0..(RealSize - 1)
    BY <1>1 DEF Shift, Bytes
<1>6. CASE UNCHANGED <<start, psram>>
    BY <1>3, <1>4, <1>6 DEF Placed, Ran
<1>7. CASE /\ prog.freya # "no"
           /\ start' = {psram[InLastBank(o)] : o \in Pointer}
           /\ psram' = [a \in DOMAIN psram |->
                          IF a - InLastBank(0) \in Code \cup Pointer THEN Reset ELSE psram[a]]
    <2>0. \A a \in 0..(RealSize - 1) :
            psram'[a] = IF a - InLastBank(0) \in Code \cup Pointer THEN Reset ELSE psram[a]
        BY <1>3, <1>7, Zenon
    <2>1. ASSUME NEW i \in Bytes
          PROVE  psram'[Shift + i] = i
                 \/ (psram'[Shift + i] = Reset /\ Shift + i \in Patched)
        <3>0. PICK a \in 0..(RealSize - 1) : a = Shift + i
            BY <1>5
        <3>1. CASE a - InLastBank(0) \in Code \cup Pointer
            <4>1. psram'[a] = Reset
                BY <2>0, <3>1
            <4>2. a = InLastBank(a - InLastBank(0))
                BY <1>1 DEF InLastBank
            <4>3. a \in Patched
                BY <3>1, <4>2, Zenon DEF Patched
            <4> QED
                BY <3>0, <4>1, <4>3, Zenon
        <3>2. CASE a - InLastBank(0) \notin Code \cup Pointer
            <4>1. psram'[a] = psram[a]
                BY <2>0, <3>2
            <4> QED
                BY <1>3, <3>0, <4>1, Zenon DEF Placed
        <3> QED
            BY <3>1, <3>2
    <2>2. ASSUME NEW o \in Pointer PROVE psram[InLastBank(o)] = OfFile(InLastBank(o))
        <3>1. o \in 0..(Bank - 1) /\ prog.size >= Bank
            BY <1>7 DEF PatchAssumption, ProgramAssumption
        <3>2. OfFile(InLastBank(o)) \in Bytes /\ Shift + OfFile(InLastBank(o)) = InLastBank(o)
            BY <1>1, <3>1 DEF OfFile, InLastBank, Bytes, Shift
        <3> QED
            BY <1>3, <3>2 DEF Placed
    <2>3. start' = {OfFile(InLastBank(o)) : o \in Pointer}
        BY <1>7, <2>2
    <2> QED
        BY <1>3, <1>4, <2>1, <2>3 DEF Ran
<1> QED
    BY <1>6, <1>7 DEF Patch

LEMMA MoveInit ==
    ASSUME SizeAssumption, ProgramAssumption, Init PROVE MoveInv
<1>1. RealSize \in Nat /\ prog.size \in Nat \ {0} /\ RealSize >= prog.size
    BY RealSizeFits DEF Init
<1>2. prog.source = "psram" => \A i \in Bytes : psram[i] = i
    BY <1>1 DEF Init, Bytes
<1> QED
    BY <1>2 DEF Init, MoveInv

LEMMA MoveStep ==
    ASSUME SizeAssumption, ProgramAssumption, PatchAssumption, MoveInv, [Next]_vars
    PROVE  MoveInv'
<1>1. prog' \in Programs /\ DOMAIN psram' = 0..(RealSize' - 1) /\ prog' = prog
    BY ProgramStays DEF MoveInv
<1>2. ASSUME prog.source = "psram"
      PROVE  /\ pc' \in {"start", "pad", "patch", "run"}
             /\ pc' = "start" => \A i \in Bytes' : psram'[i] = i
             /\ pc' \in {"start", "pad", "patch"} => start' = {Bios}
             /\ pc' = "pad" => Moving'
             /\ pc' = "patch" => Placed'
             /\ pc' = "run" => Ran'
    <2>1. Start \/ Pad \/ Patch \/ UNCHANGED vars
        BY <1>2, OnlyMoves DEF MoveInv
    <2>2. CASE Start
        BY <1>2, <2>2, StartStep
    <2>3. CASE Pad
        BY <1>2, <2>3, PadStep
    <2>4. CASE Patch
        <3>1. Placed /\ start = {Bios}
            BY <1>2, <2>4 DEF Patch, MoveInv
        <3> QED
            BY <2>4, <3>1, PatchStep DEF MoveInv
    <2>5. CASE UNCHANGED vars
        <3>1. /\ pc' = pc /\ start' = start /\ psram' = psram
              /\ (Moving' <=> Moving) /\ (Placed' <=> Placed) /\ (Ran' <=> Ran) /\ Bytes' = Bytes
            BY <2>5, ProgramStays
               DEF vars, Moving, Placed, Ran, Bytes, Shift, Patched, OfFile, InLastBank
        <3> QED
            BY <1>2, <3>1 DEF MoveInv
    <2> QED
        BY <2>1, <2>2, <2>3, <2>4, <2>5
<1> QED
    BY <1>1, <1>2 DEF MoveInv

(* main.c:229-235: an uploaded program of any size up to 256 banks, which   *)
(* overlaps the place it is moved to, is started with every byte in place.  *)
THEOREM UploadedInPlace ==
    ASSUME SizeAssumption, ProgramAssumption, PatchAssumption
    PROVE  Spec => [](prog.source = "psram" => ImageAlwaysInPlace)
<1>1. Init => MoveInv
    BY MoveInit
<1>2. MoveInv /\ [Next]_vars => MoveInv'
    BY MoveStep
<1>3. MoveInv => (prog.source = "psram" => ImageAlwaysInPlace)
    <2> SUFFICES ASSUME MoveInv, prog.source = "psram", pc = "run" PROVE ImageAlwaysInPlace
        BY DEF ImageAlwaysInPlace
    <2>1. Ran
        BY DEF MoveInv
    <2> QED
        BY <2>1 DEF Ran, ImageAlwaysInPlace, Bytes, Shift
<1> QED
    BY <1>1, <1>2, <1>3, PTL DEF Spec
-----------------------------------------------------------------------------
(* Programs on the card *)

OnCard ==
    /\ SizeAssumption /\ ProgramAssumption /\ FatAssumption /\ CardAssumption
    /\ prog \in Programs /\ prog.source = "card"

(* Sector j of the file: the place in the chain of its cluster, and where   *)
(* on the card it lies.                                                     *)
Clusters      == 1..Len(prog.chain)
Index(j)      == (j \div prog.cs) + 1
FileSector(j) == SectorOf(prog.chain[Index(j)]) + (j % prog.cs)
InFile(j)     == j \in Nat /\ Index(j) \in Clusters
Current       == ptr \div Sector

Loading == pc \in {"bank", "read", "part", "ahead", "direct"}
Reads   == pc \in {"read", "part", "ahead", "direct"}

(* Where the loop is, whatever the sectors held.                            *)
Progress ==
    /\ pc \in {"start", "patch", "run", "FR_DISK_ERR", "FR_INT_ERR"} \/ Loading
    /\ pc = "start" \/ Loading \/ pc = "patch" => start = {Bios}
    /\ pc = "start" => window = [label |-> NoSector, holds |-> NoSector]
    /\ Loading => ptr \in 0..prog.size /\ at = Shift + ptr /\ cluster \in 0..Count
    /\ Reads => btr \in Nat /\ ptr + btr <= prog.size
    /\ pc \in {"part", "ahead", "direct"} => btr > 0
    /\ pc \in {"ahead", "direct"} =>
          /\ ptr % Sector = 0
          /\ cc \in Nat \ {0} /\ cc * Sector <= btr
          /\ run \in Nat /\ run >= prog.cs /\ run - prog.cs < InCluster + cc
    /\ pc = "direct" => InCluster + cc <= run
    /\ faults \in Nat /\ (pc = "FR_DISK_ERR" => faults > 0)

(* A FAT sector that is in the window already is whole, unless entries may  *)
(* lie in two of them.                                                      *)
WindowInv ==
    prog.bits # 12 =>
        /\ ~mixed
        /\ Loading /\ window.label = FatFirst(cluster) => window.holds = window.label

(* n clusters from the one that sector j of the file is in follow each      *)
(* other on the card, and the last of them is the current one.              *)
Row(j, n) ==
    /\ Index(j) + n - 1 \in Clusters
    /\ \A i \in 0..(n - 1) : prog.chain[Index(j) + i] = prog.chain[Index(j)] + i
    /\ cluster = prog.chain[Index(j) + n - 1]

(* The current cluster and sector are those of the byte that comes next, or *)
(* the cluster is that of the byte before it.                               *)
PlaceInv ==
    /\ pc \in {"bank", "read"} =>
          /\ ptr = 0 => cluster = prog.chain[1]
          /\ ptr # 0 => /\ InFile((ptr - 1) \div Sector)
                        /\ cluster = prog.chain[Index((ptr - 1) \div Sector)]
          /\ ptr % Sector # 0 => sector = FileSector(Current)
    /\ pc = "part" =>
          InFile(Current) /\ sector = FileSector(Current) /\ cluster = prog.chain[Index(Current)]
    /\ pc \in {"ahead", "direct"} =>
          /\ InFile(Current) /\ sector = FileSector(Current)
          /\ \E n \in Clusters : run = n * prog.cs /\ Row(Current, n)

(* The window's label is of the FAT or of a sector of which the first bytes *)
(* have been read; while its other bytes are still to come, it is there.    *)
LabelInv ==
    Loading =>
        /\ \/ window.label < DataBase
           \/ \E j \in 0..ptr : InFile(j) /\ j * Sector < ptr /\ window.label = FileSector(j)
        /\ ptr % Sector # 0 => window.label = FileSector(Current) /\ window.holds = window.label

Loaded == Loading => \A i \in 0..(ptr - 1) : psram[Shift + i] = i

EndInv ==
    /\ pc = "patch" => Placed
    /\ pc = "run" => Ran
    /\ pc = "FR_INT_ERR" => Len(prog.chain) * prog.cs * Sector < prog.size

CardParts ==
    /\ Progress /\ WindowInv
    /\ ~mixed => PlaceInv /\ LabelInv /\ Loaded /\ EndInv

CardInv ==
    /\ prog \in Programs
    /\ DOMAIN psram = 0..(RealSize - 1)
    /\ prog.source = "card" => CardParts
-----------------------------------------------------------------------------
(* Arithmetic: quotient and remainder.                                      *)
LEMMA DivMod ==
    ASSUME NEW n \in Nat \ {0}, NEW a \in Nat
    PROVE  a \div n \in Nat /\ a % n \in 0..(n - 1) /\ a = (n * (a \div n)) + (a % n)
OBVIOUS

(* A smaller factor makes a multiple smaller by n at least.                 *)
LEMMA TimesMono ==
    ASSUME NEW n \in Nat \ {0}, NEW x \in Int, NEW y \in Int, x < y
    PROVE  n * x + n <= n * y
OBVIOUS

(* Two ways to write a number as a multiple and a remainder are one.        *)
LEMMA OneQuotient ==
    ASSUME NEW n \in Nat \ {0}, NEW p \in Int, NEW q \in Int,
           NEW r \in 0..(n - 1), NEW s \in 0..(n - 1), n * p + r = n * q + s
    PROVE  p = q /\ r = s
<1>1. n * p \in Int /\ n * q \in Int
    OBVIOUS
<1>2. ~(p < q)
    <2> SUFFICES ASSUME p < q PROVE FALSE
        OBVIOUS
    <2>1. n * p + n <= n * q
        BY TimesMono
    <2> QED
        BY <1>1, <2>1
<1>3. ~(q < p)
    <2> SUFFICES ASSUME q < p PROVE FALSE
        OBVIOUS
    <2>1. n * q + n <= n * p
        BY TimesMono
    <2> QED
        BY <1>1, <2>1
<1>4. p = q
    BY <1>2, <1>3
<1> QED
    BY <1>1, <1>4

LEMMA Divided ==
    ASSUME NEW n \in Nat \ {0}, NEW a \in Nat, NEW q \in Int, NEW r \in 0..(n - 1), a = n * q + r
    PROVE  a \div n = q /\ a % n = r
<1> DEFINE d == a \div n
           m == a % n
<1>1. d \in Nat /\ m \in 0..(n - 1) /\ a = n * d + m
    BY DivMod
<1> HIDE DEF d, m
<1>2. n * d + m = n * q + r
    BY <1>1
<1>3. d = q /\ m = r
    BY <1>1, <1>2, OneQuotient
<1> QED
    BY <1>3 DEF d, m

(* The whole multiples of n in a, fewer of them, and one more.              *)
LEMMA Multiples ==
    ASSUME NEW n \in Nat \ {0}, NEW a \in Nat
    PROVE  a \div n \in Nat /\ (a \div n) * n <= a /\ (a >= n => a \div n # 0)
<1> DEFINE d == a \div n
           m == a % n
<1>1. d \in Nat /\ m \in 0..(n - 1) /\ a = n * d + m
    BY DivMod
<1> HIDE DEF d, m
<1>2. n * d \in Int /\ d * n = n * d /\ (d = 0 => n * d = 0)
    BY <1>1
<1> QED
    BY <1>1, <1>2 DEF d

LEMMA Fewer ==
    ASSUME NEW n \in Nat \ {0}, NEW x \in Nat, NEW y \in Nat, x < y
    PROVE  x * n <= y * n
<1>1. n * x + n <= n * y /\ n * x \in Int /\ n * y \in Int
    BY TimesMono
<1> QED
    BY <1>1

LEMMA OneMore ==
    ASSUME NEW n \in Nat \ {0}, NEW x \in Nat
    PROVE  (x + 1) * n = (x * n) + n
OBVIOUS
-----------------------------------------------------------------------------
(* The file on the card *)

(* An element of a sequence.                                                *)
LEMMA SeqElement ==
    ASSUME NEW S, NEW s \in Seq(S), NEW i \in 1..Len(s)
    PROVE  s[i] \in S
OBVIOUS

(* What the assumptions say of a program on the card.                       *)
LEMMA CardFacts ==
    ASSUME OnCard
    PROVE  /\ Sector \in Nat \ {0} /\ prog.cs \in Nat \ {0} /\ prog.bits \in {12, 16, 32}
           /\ Count \in Nat /\ DataBase \in Nat /\ prog.bits * Count <= 8 * DataBase * Sector
           /\ Len(prog.chain) \in Nat \ {0} /\ DOMAIN prog.chain = Clusters /\ Clusters \subseteq Nat
           /\ \A i \in Clusters : prog.chain[i] \in Nat /\ ValidCluster(prog.chain[i])
           /\ \A i, j \in Clusters : prog.chain[i] = prog.chain[j] => i = j
<1>1. /\ prog.cs \in Nat \ {0} /\ prog.bits \in {12, 16, 32}
      /\ prog.bits * Count <= 8 * DataBase * Sector
      /\ prog.chain \in Seq(2..(Count - 1)) /\ prog.chain # <<>>
      /\ \A i, j \in DOMAIN prog.chain : prog.chain[i] = prog.chain[j] => i = j
    BY DEF OnCard, CardAssumption
<1>2. Sector \in Nat \ {0} /\ Count \in Nat /\ DataBase \in Nat
    BY DEF OnCard, SizeAssumption, FatAssumption
<1>3. Len(prog.chain) \in Nat \ {0} /\ DOMAIN prog.chain = Clusters /\ Clusters \subseteq Nat
    BY <1>1 DEF Clusters
<1>4. \A i \in Clusters : prog.chain[i] \in 2..(Count - 1)
    BY <1>1, SeqElement, Zenon DEF Clusters
<1>5. \A i \in Clusters : prog.chain[i] \in Nat /\ ValidCluster(prog.chain[i])
    BY <1>2, <1>4 DEF ValidCluster
<1> QED
    BY <1>1, <1>2, <1>3, <1>5

(* The data sectors are behind the FAT, cs for every cluster.               *)
LEMMA SectorOfType ==
    ASSUME DataBase \in Nat, prog.cs \in Nat \ {0}, NEW c \in Nat, ValidCluster(c), Count \in Nat
    PROVE  SectorOf(c) \in Nat /\ SectorOf(c) >= DataBase
BY DEF SectorOf, ValidCluster

(* A sector of the file: its place in its cluster, and behind the FAT.      *)
LEMMA FileSectorType ==
    ASSUME OnCard, NEW j, InFile(j)
    PROVE  /\ j \in Nat /\ Index(j) \in Clusters /\ Index(j) \in Nat
           /\ j % prog.cs \in 0..(prog.cs - 1) /\ j = prog.cs * (Index(j) - 1) + (j % prog.cs)
           /\ SectorOf(prog.chain[Index(j)]) \in Nat
           /\ FileSector(j) \in Nat /\ FileSector(j) >= DataBase
<1>1. /\ prog.cs \in Nat \ {0} /\ Count \in Nat /\ DataBase \in Nat
      /\ \A i \in Clusters : i \in Nat /\ prog.chain[i] \in Nat /\ ValidCluster(prog.chain[i])
    BY CardFacts
<1>2. j \in Nat /\ Index(j) \in Clusters
    BY DEF InFile
<1>3. /\ j \div prog.cs \in Nat /\ j % prog.cs \in 0..(prog.cs - 1)
      /\ j = (prog.cs * (j \div prog.cs)) + (j % prog.cs)
    BY <1>1, <1>2, DivMod
<1>4. SectorOf(prog.chain[Index(j)]) \in Nat /\ SectorOf(prog.chain[Index(j)]) >= DataBase
    BY <1>1, <1>2, SectorOfType
<1>5. Index(j) - 1 = j \div prog.cs
    BY <1>3 DEF Index
<1>6. j = prog.cs * (Index(j) - 1) + (j % prog.cs)
    BY <1>3, <1>5
<1>7. FileSector(j) \in Nat /\ FileSector(j) >= DataBase
    <2> DEFINE b == SectorOf(prog.chain[Index(j)])
               r == j % prog.cs
    <2>1. b \in Nat /\ b >= DataBase /\ r \in Nat /\ FileSector(j) = b + r
        BY <1>1, <1>3, <1>4 DEF FileSector
    <2> HIDE DEF b, r
    <2> QED
        BY <1>1, <2>1
<1> QED
    BY <1>1, <1>2, <1>3, <1>4, <1>6, <1>7

(* A sector of the file is in one cluster of its chain only.                *)
LEMMA OneCluster ==
    ASSUME OnCard, NEW j, InFile(j), NEW i \in Clusters,
           FileSector(j) - SectorOf(prog.chain[i]) \in 0..(prog.cs - 1)
    PROVE  i = Index(j) /\ FileSector(j) - SectorOf(prog.chain[i]) = j % prog.cs
<1> DEFINE n == prog.cs
           c == prog.chain[Index(j)]
           d == prog.chain[i]
           r == j % prog.cs
           s == FileSector(j) - SectorOf(prog.chain[i])
<1>1. /\ n \in Nat \ {0} /\ DataBase \in Nat /\ Count \in Nat
      /\ \A k \in Clusters : k \in Nat /\ prog.chain[k] \in Nat /\ ValidCluster(prog.chain[k])
    BY CardFacts
<1>2. Index(j) \in Clusters /\ r \in 0..(n - 1)
    BY FileSectorType
<1>3. c \in Nat /\ d \in Nat /\ s \in 0..(n - 1)
    BY <1>1, <1>2
<1>4. n * (c - 2) \in Int /\ n * (d - 2) \in Int
    BY <1>1, <1>3
<1>5. s = (DataBase + n * (c - 2) + r) - (DataBase + n * (d - 2))
    BY DEF FileSector, SectorOf
<1> HIDE DEF n, c, d, r, s
<1>6. n * (d - 2) + s = n * (c - 2) + r
    BY <1>1, <1>2, <1>3, <1>4, <1>5
<1>7. d - 2 = c - 2 /\ s = r
    BY <1>1, <1>2, <1>3, <1>6, OneQuotient
<1>8. d = c
    BY <1>3, <1>7
<1> QED
    BY <1>2, <1>7, <1>8, CardFacts DEF c, d, r, s

(* Two sectors of the file are never the same on the card.                  *)
LEMMA OneSector ==
    ASSUME OnCard, NEW j, InFile(j), NEW h, InFile(h), FileSector(j) = FileSector(h)
    PROVE  j = h
<1>1. /\ Index(h) \in Clusters /\ h % prog.cs \in 0..(prog.cs - 1)
      /\ SectorOf(prog.chain[Index(h)]) \in Nat
      /\ h = prog.cs * (Index(h) - 1) + (h % prog.cs)
      /\ j = prog.cs * (Index(j) - 1) + (j % prog.cs)
    BY FileSectorType
<1>2. FileSector(j) - SectorOf(prog.chain[Index(h)]) = h % prog.cs
    <2> DEFINE b == SectorOf(prog.chain[Index(h)])
               r == h % prog.cs
    <2>1. b \in Nat /\ r \in Int /\ FileSector(j) = b + r
        BY <1>1 DEF FileSector
    <2> HIDE DEF b, r
    <2>2. FileSector(j) - b = r
        BY <2>1
    <2> QED
        BY <2>2 DEF b, r
<1>3. Index(h) = Index(j) /\ h % prog.cs = j % prog.cs
    BY <1>1, <1>2, OneCluster
<1> QED
    BY <1>1, <1>3

(* The card holds the file's bytes in order, sector by sector.              *)
LEMMA FileBytes ==
    ASSUME OnCard, NEW j, InFile(j), NEW o \in 0..(Sector - 1)
    PROVE  SectorBytes(FileSector(j))[o] = j * Sector + o
<1> DEFINE At(i) == FileSector(j) - SectorOf(prog.chain[i]) \in 0..(prog.cs - 1)
<1>1. /\ Index(j) \in Clusters /\ j % prog.cs \in 0..(prog.cs - 1)
      /\ SectorOf(prog.chain[Index(j)]) \in Nat
      /\ j = prog.cs * (Index(j) - 1) + (j % prog.cs)
      /\ DOMAIN prog.chain = Clusters /\ prog.cs \in Nat \ {0} /\ Index(j) \in Nat
    BY FileSectorType, CardFacts
<1>2. At(Index(j))
    BY <1>1 DEF FileSector
<1>3. \A i \in Clusters : At(i) => i = Index(j)
    BY OneCluster
<1>4. (CHOOSE i \in DOMAIN prog.chain : At(i)) = Index(j)
    BY <1>1, <1>2, <1>3
<1>5. FileSector(j) - SectorOf(prog.chain[Index(j)]) = j % prog.cs
    BY <1>1, <1>2, OneCluster
<1>6. SectorBytes(FileSector(j))[o] =
        ((Index(j) - 1) * prog.cs + FileSector(j) - SectorOf(prog.chain[Index(j)])) * Sector + o
    BY <1>1, <1>2, <1>4, Zenon DEF SectorBytes
<1>7. (Index(j) - 1) * prog.cs + FileSector(j) - SectorOf(prog.chain[Index(j)]) = j
    <2>1. FileSector(j) \in Nat
        BY FileSectorType
    <2> QED
        BY <1>1, <1>5, <2>1
<1> QED
    BY <1>6, <1>7

(* The FAT leads from a cluster of the file to the next, and ends.          *)
LEMMA FatFollows ==
    ASSUME OnCard, NEW i \in Clusters
    PROVE  FatEntry(prog.chain[i]) = IF i = Len(prog.chain) THEN Last ELSE prog.chain[i + 1]
<1>1. (CHOOSE k \in DOMAIN prog.chain : prog.chain[k] = prog.chain[i]) = i
    BY CardFacts
<1> QED
    BY <1>1, CardFacts DEF FatEntry

(* In a row of clusters on the card, the file's sectors follow each other.  *)
LEMMA RowSectors ==
    ASSUME OnCard, NEW j, InFile(j), NEW n \in Nat \ {0}, Row(j, n),
           NEW t \in Nat, (j % prog.cs) + t < n * prog.cs
    PROVE  /\ InFile(j + t) /\ FileSector(j + t) = FileSector(j) + t
           /\ Index(j + t) = Index(j) + (((j % prog.cs) + t) \div prog.cs)
<1> DEFINE m == prog.cs
           k == Index(j)
           u == (j % m) + t
           q == u \div m
           r == u % m
<1>1. /\ m \in Nat \ {0} /\ j \in Nat /\ k \in Nat /\ k \in Clusters /\ j % m \in Nat
      /\ j = m * (k - 1) + (j % m) /\ DataBase \in Nat /\ Clusters \subseteq Nat
      /\ \A i \in Clusters : prog.chain[i] \in Nat
    <2>1. j \in Nat /\ k \in Nat /\ k \in Clusters /\ j % m \in 0..(m - 1) /\ j = m * (k - 1) + (j % m)
        BY FileSectorType
    <2>2. m \in Nat \ {0} /\ DataBase \in Nat /\ Clusters \subseteq Nat
        BY CardFacts
    <2>3. j % m \in Nat
        BY <2>1, <2>2
    <2> QED
        BY <2>1, <2>2, <2>3, CardFacts
<1>2. u \in Nat /\ u < n * m /\ j + t = m * (k - 1) + u
    <2>1. m * (k - 1) \in Int
        BY <1>1
    <2> QED
        BY <1>1, <2>1
<1>3. q \in Nat /\ r \in 0..(m - 1) /\ u = m * q + r
    <2> HIDE DEF u
    <2> QED
        BY <1>1, <1>2, DivMod
<1>4. k + n - 1 \in Clusters /\ \A i \in 0..(n - 1) : prog.chain[k + i] = prog.chain[k] + i
    BY DEF Row
<1> HIDE DEF m, k, u, q, r
<1>5. q < n
    <2> SUFFICES ASSUME q >= n PROVE FALSE
        BY <1>3
    <2>1. n * m \in Int /\ m * q \in Int /\ n * m = m * n
        BY <1>1, <1>3
    <2>2. m * n <= m * q
        <3>1. CASE q = n
            BY <2>1, <3>1
        <3>2. CASE n < q
            BY <1>1, <1>3, <2>1, <3>2, TimesMono
        <3> QED
            BY <1>3, <3>1, <3>2
    <2> QED
        BY <1>1, <1>2, <1>3, <2>1, <2>2
<1>6. j + t = m * (k - 1 + q) + r
    <2>1. m * (k - 1 + q) = m * (k - 1) + m * q
        BY <1>1, <1>3
    <2>2. m * (k - 1) \in Int /\ m * q \in Int
        BY <1>1, <1>3
    <2> QED
        BY <1>1, <1>2, <1>3, <2>1, <2>2
<1>7. (j + t) \div m = k - 1 + q /\ (j + t) % m = r
    <2> DEFINE a == j + t
               d == k - 1 + q
    <2>1. a \in Nat /\ d \in Int /\ a = m * d + r
        BY <1>1, <1>3, <1>6
    <2> HIDE DEF a, d
    <2>2. a \div m = d /\ a % m = r
        BY <1>1, <1>3, <2>1, Divided
    <2> QED
        BY <2>2 DEF a, d
<1>8. Index(j + t) = k + q
    BY <1>1, <1>3, <1>7 DEF Index, m
<1>9. k + q \in Clusters /\ prog.chain[k + q] = prog.chain[k] + q
    <2>1. q \in 0..(n - 1)
        BY <1>3, <1>5
    <2>2. k + q \in 1..(k + n - 1)
        BY <1>1, <1>3, <1>5
    <2>3. \A x \in Clusters : 1..x \subseteq Clusters
        BY CardFacts DEF Clusters
    <2> QED
        BY <1>4, <2>1, <2>2, <2>3
<1>10. FileSector(j + t) = FileSector(j) + t
    <2> DEFINE b == prog.chain[k]
    <2>1. FileSector(j + t) = DataBase + m * ((b + q) - 2) + r
        <3>1. prog.chain[Index(j + t)] = b + q
            BY <1>8, <1>9
        <3>2. (j + t) % prog.cs = r
            BY <1>7 DEF m
        <3>3. FileSector(j + t) = SectorOf(b + q) + r
            BY <3>1, <3>2, Zenon DEF FileSector
        <3> QED
            BY <3>3 DEF SectorOf, m
    <2>2. FileSector(j) = DataBase + m * (b - 2) + (j % m)
        BY DEF FileSector, SectorOf, m, k
    <2>3. b \in Nat
        BY <1>1
    <2> HIDE DEF b
    <2>4. m * ((b + q) - 2) = m * (b - 2) + m * q
        BY <1>1, <1>3, <2>3
    <2>5. m * (b - 2) \in Int /\ m * q \in Int
        BY <1>1, <1>3, <2>3
    <2>6. m * q + r = (j % m) + t
        BY <1>3 DEF u
    <2> QED
        BY <1>1, <1>3, <2>1, <2>2, <2>3, <2>4, <2>5, <2>6
<1> QED
    BY <1>1, <1>8, <1>9, <1>10 DEF InFile, k, u, q, m

(* A sector is in a row of one cluster.                                     *)
LEMMA OneRow ==
    ASSUME OnCard, NEW j, InFile(j), cluster = prog.chain[Index(j)]
    PROVE  Row(j, 1)
<1>1. Index(j) \in Nat /\ Index(j) \in Clusters /\ prog.chain[Index(j)] \in Nat
    BY FileSectorType, CardFacts
<1> QED
    BY <1>1 DEF Row
-----------------------------------------------------------------------------
(* The FAT *)

(* Every entry lies before the data.                                        *)
LEMMA FatBeforeData ==
    ASSUME OnCard, NEW c \in Nat, ValidCluster(c)
    PROVE  FatFirst(c) < DataBase /\ FatSecond(c) < DataBase
<1>1. /\ Sector \in Nat \ {0} /\ Count \in Nat /\ DataBase \in Nat /\ prog.bits \in {12, 16, 32}
      /\ prog.bits * Count <= 8 * DataBase * Sector /\ c < Count
    BY CardFacts DEF ValidCluster
<1> DEFINE e == Sector * DataBase
<1>2. e \in Nat /\ 8 * DataBase * Sector = 8 * e
    BY <1>1
<1>3. ASSUME NEW a \in Nat, a < e PROVE a \div Sector < DataBase
    <2> DEFINE d == a \div Sector
    <2>1. d \in Nat /\ a = (Sector * d) + (a % Sector) /\ a % Sector \in Nat
        <3>1. d \in Nat /\ a % Sector \in 0..(Sector - 1) /\ a = (Sector * d) + (a % Sector)
            BY <1>1, DivMod
        <3> HIDE DEF d
        <3> QED
            BY <1>1, <3>1
    <2> HIDE DEF d
    <2>2. ~(DataBase <= d)
        <3> SUFFICES ASSUME DataBase <= d PROVE FALSE
            OBVIOUS
        <3>1. Sector * DataBase <= Sector * d
            <4>1. CASE DataBase = d
                BY <1>1, <1>2, <2>1, <4>1
            <4>2. CASE DataBase < d
                BY <1>1, <2>1, <4>2, TimesMono
            <4> QED
                BY <1>1, <2>1, <4>1, <4>2
        <3>2. Sector * d \in Int
            BY <1>1, <2>1
        <3> QED
            BY <1>2, <1>3, <2>1, <3>1, <3>2
    <2>3. d < DataBase
        BY <1>1, <2>1, <2>2
    <2> QED
        BY <2>3 DEF d
<1> HIDE DEF e
<1>4. CASE prog.bits = 12
    <2>1. c + (c \div 2) \in Nat /\ c + (c \div 2) + 1 < e
        BY <1>1, <1>2, <1>4
    <2>2. FatByte(c) = c + (c \div 2)
        BY <1>4 DEF FatByte
    <2> QED
        BY <1>2, <1>3, <1>4, <2>1, <2>2 DEF FatFirst, FatSecond
<1>5. CASE prog.bits = 16
    <2>1. FatByte(c) = 2 * c /\ 2 * c \in Nat /\ 2 * c < e
        BY <1>1, <1>2, <1>5 DEF FatByte
    <2> QED
        BY <1>3, <1>5, <2>1 DEF FatFirst, FatSecond
<1>6. CASE prog.bits = 32
    <2>1. FatByte(c) = 4 * c /\ 4 * c \in Nat /\ 4 * c < e
        BY <1>1, <1>2, <1>6 DEF FatByte
    <2> QED
        BY <1>3, <1>6, <2>1 DEF FatFirst, FatSecond
<1> QED
    BY <1>1, <1>4, <1>5, <1>6

(* A lookup: the entry and a whole sector in the window, or a failure.      *)
LEMMA LookedUp ==
    ASSUME NEW c, ValidCluster(c), NEW l \in read_next_cluster(c)
    PROVE  \/ /\ l.ok /\ (l.mix \/ l.next = FatEntry(c)) /\ (l.mix => l.next \in 0..Count)
              /\ l.win = window \/ (l.win.holds = l.win.label
                                    /\ l.win.label \in {FatFirst(c), FatSecond(c)})
              /\ FatFirst(c) = FatSecond(c) => l.win.label = FatFirst(c)
              /\ l.mix /\ FatFirst(c) = FatSecond(c) =>
                    window.label = FatFirst(c) /\ window.holds # window.label
           \/ /\ ~l.ok /\ ~l.mix /\ l.next = Unread
              /\ l.win.label \in {window.label, FatFirst(c)}
              /\ FatFirst(c) = FatSecond(c) =>
                    l.win.label = window.label /\ window.label # FatFirst(c)
<1>1. PICK m1 \in Moved(window, FatFirst(c)) :
        l \in IF ~m1.ok THEN NotFound(m1.win)
              ELSE UNION {IF ~m2.ok THEN NotFound(m2.win) ELSE Found(c, m1.win, m2.win)
                            : m2 \in Moved(m1.win, FatSecond(c))}
    BY Zenon DEF read_next_cluster
<1>2. \A w, s : \A m \in Moved(w, s) :
        \/ m.ok /\ w.label = s /\ m.win = w
        \/ m.ok /\ w.label # s /\ m.win.label = s /\ m.win.holds = s
        \/ ~m.ok /\ w.label # s /\ m.win.label = w.label
    BY DEF Moved
<1>3. CASE ~m1.ok
    <2>1. l.next = Unread /\ l.win = m1.win /\ ~l.ok /\ ~l.mix
        BY <1>1, <1>3 DEF NotFound
    <2> QED
        BY <1>2, <1>3, <2>1
<1>4. CASE m1.ok
    <2>1. PICK m2 \in Moved(m1.win, FatSecond(c)) :
            l \in IF ~m2.ok THEN NotFound(m2.win) ELSE Found(c, m1.win, m2.win)
        BY <1>1, <1>4
    <2>2. m1.win.label = FatFirst(c) /\ (m1.win = window \/ m1.win.holds = m1.win.label)
        BY <1>2, <1>4
    <2>3. CASE ~m2.ok
        <3>1. l.next = Unread /\ l.win = m2.win /\ ~l.ok /\ ~l.mix
            BY <2>1, <2>3 DEF NotFound
        <3>2. m2.win.label = m1.win.label /\ m1.win.label # FatSecond(c)
            BY <1>2, <2>3
        <3> QED
            BY <2>2, <3>1, <3>2
    <2>4. CASE m2.ok
        <3>1. m2.win.label = FatSecond(c) /\ (m2.win = m1.win \/ m2.win.holds = m2.win.label)
            BY <1>2, <2>4
        <3>2. l.win = m2.win /\ l.ok /\ l \in Found(c, m1.win, m2.win)
            BY <2>1, <2>4 DEF Found
        <3>3. /\ l.mix \/ l.next = FatEntry(c)
              /\ l.mix => l.next \in 0..Count
              /\ l.mix => m1.win.holds # FatFirst(c) \/ m2.win.holds # FatSecond(c)
            BY <3>2 DEF Found
        <3>4. FatFirst(c) = FatSecond(c) => m2.win = m1.win
            BY <1>2, <2>2, <2>4
        <3>5. l.mix /\ FatFirst(c) = FatSecond(c) =>
                window.label = FatFirst(c) /\ window.holds # window.label
            <4> SUFFICES ASSUME l.mix, FatFirst(c) = FatSecond(c)
                         PROVE  window.label = FatFirst(c) /\ window.holds # window.label
                OBVIOUS
            <4>1. m1.win.holds # m1.win.label
                BY <2>2, <3>3, <3>4
            <4>2. m1.win = window
                BY <2>2, <4>1
            <4> QED
                BY <2>2, <4>1, <4>2
        <3>6. l.win = window \/ (l.win.holds = l.win.label
                                    /\ l.win.label \in {FatFirst(c), FatSecond(c)})
            BY <2>2, <3>1, <3>2
        <3> QED
            BY <3>1, <3>2, <3>3, <3>5, <3>6
    <2> QED
        BY <2>3, <2>4
<1> QED
    BY <1>3, <1>4

(* What a lookup may find, in a FAT of any kind.                            *)
LEMMA FatEntryType ==
    ASSUME OnCard, NEW c
    PROVE  FatEntry(c) \in 0..(Count - 1) \/ FatEntry(c) = Last
<1>1. Count \in Nat /\ Count > 0
    BY CardFacts DEF ValidCluster, Clusters
<1>2. CASE \E i \in DOMAIN prog.chain : prog.chain[i] = c
    <2>1. PICK i \in Clusters : prog.chain[i] = c
        BY <1>2, CardFacts
    <2>2. FatEntry(c) = IF i = Len(prog.chain) THEN Last ELSE prog.chain[i + 1]
        BY <2>1, FatFollows
    <2>3. i # Len(prog.chain) => i + 1 \in Clusters
        BY <2>1, CardFacts DEF Clusters
    <2>4. i # Len(prog.chain) => prog.chain[i + 1] \in 0..(Count - 1)
        BY <1>1, <2>3, CardFacts DEF ValidCluster
    <2> QED
        BY <2>2, <2>4
<1>3. CASE ~\E i \in DOMAIN prog.chain : prog.chain[i] = c
    BY <1>1, <1>3 DEF FatEntry
<1> QED
    BY <1>2, <1>3

(* A lookup gives an entry, or fails; what it fails with is no entry.       *)
LEMMA NextEntry ==
    ASSUME OnCard, NEW c, NEW l \in read_next_cluster(c)
    PROVE  \/ l.ok /\ (l.next \in 0..Count \/ l.next = Last)
           \/ ~l.ok /\ l.next = Unread
<1>1. Count \in Nat /\ Count > 0
    BY CardFacts DEF ValidCluster, Clusters
<1>2. CASE ValidCluster(c)
    BY <1>1, <1>2, LookedUp, FatEntryType
<1>3. CASE ~ValidCluster(c)
    <2>1. l.next = 1 /\ l.ok
        BY <1>3 DEF read_next_cluster
    <2> QED
        BY <1>1, <2>1
<1> QED
    BY <1>2, <1>3

(* The sector before a place in the file, on a boundary and within one.     *)
LEMMA Before ==
    ASSUME NEW n \in Nat \ {0}, NEW a \in Nat
    PROVE  /\ a % n # 0 => a # 0 /\ (a - 1) \div n = a \div n
           /\ a % n = 0 => a = n * (a \div n)
           /\ a % n = 0 /\ a # 0 => (a - 1) \div n = (a \div n) - 1 /\ a \div n \in Nat \ {0}
<1> DEFINE d == a \div n
           m == a % n
<1>1. d \in Nat /\ m \in 0..(n - 1) /\ a = n * d + m
    BY DivMod
<1> HIDE DEF d, m
<1>2. n * d \in Int
    BY <1>1
<1>3. CASE m # 0
    <2>1. a # 0 /\ a - 1 \in Nat /\ a - 1 = n * d + (m - 1) /\ m - 1 \in 0..(n - 1)
        BY <1>1, <1>2, <1>3
    <2>2. (a - 1) \div n = d
        BY <1>1, <2>1, Divided
    <2> QED
        BY <1>3, <2>1, <2>2 DEF d, m
<1>4. CASE m = 0
    <2>1. a = n * d
        BY <1>1, <1>2, <1>4
    <2>2. ASSUME a # 0 PROVE (a - 1) \div n = d - 1 /\ d # 0
        <3>1. d # 0
            BY <1>1, <2>1, <2>2
        <3>2. n * (d - 1) = n * d - n
            BY <1>1
        <3>3. a - 1 \in Nat /\ d - 1 \in Nat /\ a - 1 = n * (d - 1) + (n - 1) /\ n - 1 \in 0..(n - 1)
            BY <1>1, <1>2, <2>1, <2>2, <3>1, <3>2
        <3>4. (a - 1) \div n = d - 1
            BY <3>3, Divided
        <3> QED
            BY <3>1, <3>4
    <2> QED
        BY <1>1, <1>4, <2>1, <2>2 DEF d, m
<1> QED
    BY <1>3, <1>4

(* The sector that comes next lies in the file.                             *)
LEMMA InFileBy ==
    ASSUME OnCard, NEW j \in Nat, Index(j) \in Clusters
    PROVE  InFile(j)
BY DEF InFile
-----------------------------------------------------------------------------
(* The invariant of the next state, told with the file's geometry of this   *)
(* one: the program does not change.                                        *)

LEMMA PlaceBetween ==
    ASSUME prog' = prog, pc' \in {"bank", "read"},
           ptr' = 0 => cluster' = prog.chain[1],
           ptr' # 0 => /\ InFile((ptr' - 1) \div Sector)
                       /\ cluster' = prog.chain[Index((ptr' - 1) \div Sector)],
           ptr' % Sector # 0 => sector' = FileSector(ptr' \div Sector)
    PROVE  PlaceInv'
BY DEF PlaceInv, InFile, Index, FileSector, SectorOf, Clusters, Current

LEMMA PlacePart ==
    ASSUME prog' = prog, pc' = "part", InFile(ptr' \div Sector),
           sector' = FileSector(ptr' \div Sector),
           cluster' = prog.chain[Index(ptr' \div Sector)]
    PROVE  PlaceInv'
BY DEF PlaceInv, InFile, Index, FileSector, SectorOf, Clusters, Current

LEMMA PlaceRow ==
    ASSUME prog' = prog, pc' \in {"ahead", "direct"}, NEW j, j = ptr' \div Sector, InFile(j),
           sector' = FileSector(j), NEW n \in Clusters, run' = n * prog.cs,
           Index(j) + n - 1 \in Clusters,
           \A i \in 0..(n - 1) : prog.chain[Index(j) + i] = prog.chain[Index(j)] + i,
           cluster' = prog.chain[Index(j) + n - 1]
    PROVE  PlaceInv'
<1>1. InFile(Current)' /\ sector' = FileSector(Current)' /\ n \in Clusters' /\ run' = n * prog'.cs
    BY DEF InFile, Index, FileSector, SectorOf, Clusters, Current
<1>2. Row(Current, n)'
    BY DEF Row, Index, Clusters, Current
<1> QED
    BY <1>1, <1>2 DEF PlaceInv

LEMMA LabelLater ==
    ASSUME prog' = prog,
           \/ window'.label < DataBase
           \/ \E j \in 0..ptr' : InFile(j) /\ j * Sector < ptr' /\ window'.label = FileSector(j),
           ptr' % Sector # 0 => /\ window'.label = FileSector(ptr' \div Sector)
                                /\ window'.holds = window'.label
    PROVE  LabelInv'
BY DEF LabelInv, InFile, Index, FileSector, SectorOf, Clusters, Current

(* Bytes that come next go to the places behind those that are there.       *)
LEMMA TookStep ==
    ASSUME OnCard, RealSize \in Nat, RealSize >= prog.size, prog.size \in Nat, prog' = prog,
           RealSize' = RealSize, ptr \in Nat, at = Shift + ptr, btr \in Nat, ptr + btr <= prog.size,
           Loading, DOMAIN psram = 0..(RealSize - 1), NEW n \in Nat, n <= btr, NEW bytes,
           Took(n, bytes)
    PROVE  /\ ptr' = ptr + n /\ ptr' \in 0..prog.size /\ at' = Shift' + ptr' /\ pc' = "read"
           /\ btr' \in Nat /\ ptr' + btr' <= prog.size
           /\ Loaded /\ (\A k \in 0..(n - 1) : bytes[k] = ptr + k) => Loaded'
<1>1. Shift \in Nat /\ Shift' = Shift /\ Shift + prog.size = RealSize
    BY DEF Shift
<1>2. /\ at' = at + n /\ ptr' = ptr + n /\ btr' = btr - n /\ pc' = "read"
      /\ psram' = [a \in 0..(RealSize - 1) |->
                      IF a - at \in 0..(n - 1) THEN bytes[a - at] ELSE psram[a]]
    BY DEF Took
<1>3. ASSUME Loaded, \A k \in 0..(n - 1) : bytes[k] = ptr + k, NEW i \in 0..(ptr' - 1)
      PROVE  psram'[Shift + i] = i
    <2>1. PICK a \in 0..(RealSize - 1) : a = Shift + i
        BY <1>1, <1>2
    <2>2. psram'[a] = IF a - at \in 0..(n - 1) THEN bytes[a - at] ELSE psram[a]
        BY <1>2
    <2>3. i \in Nat /\ a - at = i - ptr
        BY <1>1, <2>1
    <2>4. CASE i < ptr
        <3>1. psram'[a] = psram[a]
            BY <2>2, <2>3, <2>4
        <3>2. psram[Shift + i] = i
            BY <1>3, <2>3, <2>4 DEF Loaded
        <3> QED
            BY <2>1, <3>1, <3>2
    <2>5. CASE i >= ptr
        <3>1. i - ptr \in 0..(n - 1)
            BY <1>2, <2>3, <2>5
        <3>2. psram'[a] = bytes[i - ptr] /\ bytes[i - ptr] = ptr + (i - ptr)
            BY <1>3, <2>2, <2>3, <3>1
        <3> QED
            BY <2>1, <2>3, <3>2
    <2> QED
        BY <2>3, <2>4, <2>5
<1>4. Loaded /\ (\A k \in 0..(n - 1) : bytes[k] = ptr + k) => Loaded'
    BY <1>1, <1>3 DEF Loaded
<1> QED
    BY <1>1, <1>2, <1>4
-----------------------------------------------------------------------------
(* The steps of a program on the card *)

(* A step changes neither the program nor where in PSRAM it is to be.       *)
LEMMA CardSizes ==
    ASSUME OnCard, [Next]_vars
    PROVE  /\ prog' = prog /\ RealSize' = RealSize /\ Shift' = Shift
           /\ RealSize \in Nat /\ prog.size \in Nat \ {0} /\ Shift \in Nat
           /\ RealSize = Shift + prog.size
<1>1. RealSize \in Nat /\ prog.size \in Nat \ {0} /\ RealSize >= prog.size
    BY RealSizeFits DEF OnCard
<1>2. prog' = prog /\ RealSize' = RealSize
    BY ProgramStays
<1> QED
    BY <1>1, <1>2 DEF Shift

(* As long as window, FAT width, cluster and history stay.                  *)
LEMMA WindowStays ==
    ASSUME OnCard, WindowInv, prog' = prog, window' = window, mixed' => mixed,
           Loading' => Loading /\ cluster' = cluster
    PROVE  WindowInv'
BY DEF WindowInv, FatFirst, FatByte

(* So far: nothing has been read.                                           *)
LEMMA CardStart ==
    ASSUME OnCard, CardParts, Start
    PROVE  CardParts'
<1>1. /\ prog' = prog /\ RealSize' = RealSize /\ Shift' = Shift /\ prog.size \in Nat \ {0}
      /\ RealSize \in Nat /\ Shift \in Nat
    BY CardSizes DEF Next
<1>2. /\ pc = "start" /\ pc' = "bank" /\ at' = Shift /\ ptr' = 0 /\ cluster' = prog.chain[1]
      /\ UNCHANGED <<window, mixed, start, faults>>
    BY DEF Start, OnCard, Shift
<1>3. start = {Bios} /\ window = [label |-> NoSector, holds |-> NoSector] /\ faults \in Nat
    BY <1>2 DEF CardParts, Progress
<1>4. 1 \in Clusters /\ Sector \in Nat \ {0} /\ DataBase \in Nat /\ Count \in Nat
    BY CardFacts DEF Clusters
<1>5. prog.chain[1] \in 0..Count
    BY <1>4, CardFacts DEF ValidCluster
<1>6. ptr' % Sector = 0
    BY <1>2, <1>4
<1>7. Progress'
    BY <1>1, <1>2, <1>3, <1>5 DEF Progress, Loading, Reads
<1>8. WindowInv'
    BY <1>1, <1>2, <1>3 DEF CardParts, WindowInv
<1>9. PlaceInv'
    BY <1>1, <1>2, <1>6, PlaceBetween
<1>10. LabelInv'
    <2>1. window'.label < DataBase
        BY <1>2, <1>3, <1>4 DEF NoSector
    <2> QED
        BY <1>1, <1>6, <2>1, LabelLater
<1>11. Loaded' /\ EndInv'
    BY <1>2 DEF Loaded, EndInv
<1> QED
    BY <1>7, <1>8, <1>9, <1>10, <1>11 DEF CardParts

(* No half reaches behind PSRAM; when the banks are full, so is the file.   *)
LEMMA HalfFits ==
    ASSUME SizeAssumption, ProgramAssumption, prog \in Programs, NEW a \in Nat, a < RealSize
    PROVE  LET n == (IF a % Bank < Half THEN Half ELSE Bank) - (a % Bank)
           IN  n \in Nat /\ a + n <= RealSize
<1> DEFINE q == a \div Bank
           r == a % Bank
           t == TotalBanks
<1>1. Bank \in Nat \ {0}
    BY DEF SizeAssumption
<1>2. t \in Nat /\ RealSize = Bank * t
    <2>1. RealSize \in Nat /\ RealSize >= Bank
        BY RealSizeFits
    <2>2. t \in BankCounts
        BY BanksFit
    <2>3. t \in Nat
        BY <2>2 DEF BankCounts
    <2> HIDE DEF t
    <2> QED
        BY <1>1, <2>3 DEF RealSize, t
<1>3. q \in Nat /\ r \in 0..(Bank - 1) /\ a = Bank * q + r
    BY <1>1, DivMod
<1>4. Half \in Nat /\ Half <= Bank
    BY <1>1 DEF Half
<1> HIDE DEF q, t
<1>5. q < t
    <2> SUFFICES ASSUME t <= q PROVE FALSE
        BY <1>2, <1>3
    <2>1. Bank * t <= Bank * q
        <3>1. CASE t = q
            BY <1>1, <1>3, <3>1
        <3>2. CASE t < q
            BY <1>1, <1>2, <1>3, <3>2, TimesMono
        <3> QED
            BY <1>2, <1>3, <3>1, <3>2
    <2>2. Bank * q \in Int /\ Bank * t \in Int
        BY <1>1, <1>2, <1>3
    <2> HIDE DEF r
    <2> QED
        BY <1>1, <1>2, <1>3, <2>1, <2>2
<1>6. Bank * q + Bank <= Bank * t
    BY <1>1, <1>2, <1>3, <1>5, TimesMono
<1>7. Bank * q \in Int /\ Bank * t \in Int
    BY <1>1, <1>2, <1>3
<1> DEFINE n == (IF r < Half THEN Half ELSE Bank) - r
<1>8. n \in Nat /\ a + n <= Bank * t
    <2> HIDE DEF r
    <2> QED
        BY <1>1, <1>3, <1>4, <1>6, <1>7
<1> QED
    BY <1>2, <1>8

(* The loop of main ends when the file does.                                *)
LEMMA CardNextHalf ==
    ASSUME OnCard, CardParts, NextHalf
    PROVE  CardParts'
<1>1. /\ prog' = prog /\ RealSize' = RealSize /\ Shift' = Shift /\ prog.size \in Nat \ {0}
      /\ RealSize \in Nat /\ Shift \in Nat /\ RealSize = Shift + prog.size
    BY CardSizes DEF Next
<1>2. /\ pc = "bank" /\ Loading /\ pc' \in {"read", "patch"}
      /\ UNCHANGED <<start, at, ptr, cluster, sector, window, psram, mixed, faults>>
    BY DEF NextHalf, Loading, reading, place
<1>3. ptr \in 0..prog.size /\ at = Shift + ptr /\ start = {Bios} /\ faults \in Nat /\ cluster \in 0..Count
    BY <1>2 DEF CardParts, Progress
<1>4. pc' = "read" => btr' \in Nat /\ ptr + btr' <= prog.size
    <2> SUFFICES ASSUME pc' = "read" PROVE btr' \in Nat /\ ptr + btr' <= prog.size
        OBVIOUS
    <2>1. at < RealSize /\ btr' = (IF at % Bank < Half THEN Half ELSE Bank) - (at % Bank)
        BY DEF NextHalf
    <2>2. at \in Nat
        BY <1>1, <1>3
    <2>3. btr' \in Nat /\ at + btr' <= RealSize
        BY <2>1, <2>2, HalfFits DEF OnCard
    <2> QED
        BY <1>1, <1>3, <2>3
<1>5. Progress'
    BY <1>1, <1>2, <1>3, <1>4 DEF Progress, Loading, Reads
<1>6. WindowInv'
    BY <1>1, <1>2, WindowStays DEF CardParts
<1>7. ASSUME ~mixed PROVE PlaceInv' /\ LabelInv' /\ Loaded' /\ EndInv'
    <2>1. PlaceInv /\ LabelInv /\ Loaded
        BY <1>7 DEF CardParts
    <2>2. PlaceInv'
        <3>1. CASE pc' = "read"
            BY <1>1, <1>2, <2>1, <3>1, PlaceBetween DEF PlaceInv, Current
        <3>2. CASE pc' = "patch"
            BY <3>2 DEF PlaceInv
        <3> QED
            BY <1>2, <3>1, <3>2
    <2>3. LabelInv'
        BY <1>1, <1>2, <2>1, LabelLater DEF LabelInv, Current
    <2>4. Loaded'
        BY <1>1, <1>2, <2>1 DEF Loaded
    <2>5. EndInv'
        <3>1. CASE pc' = "read"
            BY <3>1 DEF EndInv
        <3>2. CASE pc' = "patch"
            <4>1. at >= RealSize
                BY <1>1, <1>3, <3>2 DEF NextHalf
            <4>2. ptr = prog.size
                BY <1>1, <1>3, <4>1
            <4>3. Placed
                BY <1>1, <1>2, <2>1, <4>2 DEF Loaded, Placed, Bytes
            <4> QED
                BY <1>1, <1>2, <3>2, <4>3 DEF EndInv, Placed, Bytes
        <3> QED
            BY <1>2, <3>1, <3>2
    <2> QED
        BY <2>2, <2>3, <2>4, <2>5
<1> QED
    BY <1>2, <1>5, <1>6, <1>7 DEF CardParts

(* A half of a bank that has been read leaves everything where it is.       *)
LEMMA CardHalfRead ==
    ASSUME OnCard, CardParts, HalfRead
    PROVE  CardParts'
<1>1. prog' = prog /\ RealSize' = RealSize /\ Shift' = Shift
    BY CardSizes DEF Next
<1>2. /\ pc = "read" /\ Loading /\ pc' = "bank"
      /\ UNCHANGED <<start, at, ptr, cluster, sector, window, psram, mixed, faults>>
    BY DEF HalfRead, Loading, reading, place
<1>3. Progress'
    BY <1>1, <1>2 DEF CardParts, Progress, Loading, Reads
<1>4. WindowInv'
    BY <1>1, <1>2, WindowStays DEF CardParts
<1>5. ASSUME ~mixed PROVE PlaceInv' /\ LabelInv' /\ Loaded' /\ EndInv'
    <2>1. PlaceInv /\ LabelInv /\ Loaded
        BY <1>5 DEF CardParts
    <2>2. PlaceInv'
        BY <1>1, <1>2, <2>1, PlaceBetween DEF PlaceInv, Current
    <2>3. LabelInv'
        BY <1>1, <1>2, <2>1, LabelLater DEF LabelInv, Current
    <2>4. Loaded' /\ EndInv'
        BY <1>1, <1>2, <2>1 DEF Loaded, EndInv
    <2> QED
        BY <2>2, <2>3, <2>4
<1> QED
    BY <1>2, <1>3, <1>4, <1>5 DEF CardParts

(* Within a sector, the cluster and the sector are those of the byte before. *)
LEMMA CardWithinSector ==
    ASSUME OnCard, CardParts, WithinSector
    PROVE  CardParts'
<1>1. prog' = prog /\ RealSize' = RealSize /\ Shift' = Shift /\ prog.size \in Nat
    BY CardSizes DEF Next
<1>2. /\ pc = "read" /\ Loading /\ pc' = "part" /\ btr > 0 /\ ptr % Sector # 0
      /\ UNCHANGED <<start, at, btr, ptr, cluster, sector, window, psram, mixed, faults>>
    BY DEF WithinSector, Loading, reading, place
<1>3. Progress'
    BY <1>1, <1>2 DEF CardParts, Progress, Loading, Reads
<1>4. WindowInv'
    BY <1>1, <1>2, WindowStays DEF CardParts
<1>5. ASSUME ~mixed PROVE PlaceInv' /\ LabelInv' /\ Loaded' /\ EndInv'
    <2>1. PlaceInv /\ LabelInv /\ Loaded
        BY <1>5 DEF CardParts
    <2>2. PlaceInv'
        <3>1. ptr \in Nat /\ Sector \in Nat \ {0}
            BY <1>1, <1>2, CardFacts DEF CardParts, Progress
        <3>2. ptr # 0 /\ (ptr - 1) \div Sector = ptr \div Sector
            BY <1>2, <3>1, Before
        <3>3. /\ InFile(ptr \div Sector) /\ cluster = prog.chain[Index(ptr \div Sector)]
              /\ sector = FileSector(ptr \div Sector)
            BY <1>2, <2>1, <3>2 DEF PlaceInv, Current
        <3> QED
            BY <1>1, <1>2, <3>3, PlacePart
    <2>3. LabelInv'
        BY <1>1, <1>2, <2>1, LabelLater DEF LabelInv, Current
    <2>4. Loaded' /\ EndInv'
        BY <1>1, <1>2, <2>1 DEF Loaded, EndInv
    <2> QED
        BY <2>2, <2>3, <2>4
<1> QED
    BY <1>2, <1>3, <1>4, <1>5 DEF CardParts

(* The window after a lookup: a sector of the FAT that is in it is whole,   *)
(* unless the lookup was the end of the reading.                            *)
LEMMA WindowLookedUp ==
    ASSUME OnCard, WindowInv, Loading, prog' = prog, ValidCluster(cluster),
           NEW l \in read_next_cluster(cluster), window' = l.win, mixed' = (mixed \/ l.mix),
           Loading' => l.ok \/ cluster' = cluster
    PROVE  WindowInv'
<1>1. SUFFICES ASSUME prog.bits # 12
               PROVE  /\ ~mixed'
                      /\ Loading' /\ window'.label = FatFirst(cluster)' =>
                            window'.holds = window'.label
    BY DEF WindowInv
<1>2. FatSecond(cluster) = FatFirst(cluster)
    BY <1>1 DEF FatSecond
<1>3. ~mixed /\ (window.label = FatFirst(cluster) => window.holds = window.label)
    BY <1>1 DEF WindowInv
<1>4. ~l.mix
    BY <1>2, <1>3, LookedUp
<1>5. l.ok => l.win.holds = l.win.label
    BY <1>2, <1>3, LookedUp
<1>6. ~l.ok => l.win.label # FatFirst(cluster)
    BY <1>2, LookedUp
<1>7. cluster' = cluster => FatFirst(cluster)' = FatFirst(cluster)
    BY DEF FatFirst, FatByte
<1> QED
    BY <1>3, <1>4, <1>5, <1>6, <1>7

(* A lookup leaves in the window what was there, or a sector of the FAT.    *)
LEMMA LabelLookedUp ==
    ASSUME OnCard, LabelInv, Loading, prog' = prog, ptr' = ptr, ptr % Sector = 0,
           cluster \in Nat, ValidCluster(cluster),
           NEW l \in read_next_cluster(cluster), window' = l.win
    PROVE  LabelInv'
<1>1. FatFirst(cluster) < DataBase /\ FatSecond(cluster) < DataBase
    BY FatBeforeData
<1>2. l.win.label \in {window.label, FatFirst(cluster), FatSecond(cluster)}
    BY LookedUp
<1>3. \/ window'.label < DataBase
      \/ \E j \in 0..ptr' : InFile(j) /\ j * Sector < ptr' /\ window'.label = FileSector(j)
    BY <1>1, <1>2 DEF LabelInv
<1> QED
    BY <1>3, LabelLater

(* Where the next sector is to be looked up from.                           *)
LEMMA AtBoundary ==
    ASSUME OnCard, PlaceInv, pc = "read", ptr \in Nat, ptr % Sector = 0
    PROVE  /\ Current \in Nat /\ ptr = Sector * Current
           /\ ptr = 0 \/ InCluster # 0 =>
                 InFile(Current) /\ cluster = prog.chain[Index(Current)]
           /\ ptr # 0 /\ InCluster = 0 =>
                 /\ Index(Current) - 1 \in Clusters /\ cluster = prog.chain[Index(Current) - 1]
                 /\ Current = prog.cs * (Index(Current) - 1)
<1>1. Sector \in Nat \ {0} /\ prog.cs \in Nat \ {0} /\ 1 \in Clusters /\ Clusters \subseteq Nat
    BY CardFacts DEF Clusters
<1>2. Current \in Nat /\ ptr = Sector * Current
    BY <1>1, Before, DivMod DEF Current
<1>3. InCluster = Current % prog.cs
    BY DEF InCluster, Current
<1>4. CASE ptr = 0
    <2>1. Current = 0
        BY <1>1, <1>4 DEF Current
    <2>2. Index(0) = 1
        BY <1>1 DEF Index
    <2> QED
        BY <1>1, <1>2, <1>4, <2>1, <2>2 DEF InFile, PlaceInv
<1>5. CASE ptr # 0
    <2>1. (ptr - 1) \div Sector = Current - 1 /\ Current \in Nat \ {0}
        BY <1>1, <1>5, Before DEF Current
    <2>2. Index(Current - 1) \in Clusters /\ cluster = prog.chain[Index(Current - 1)]
        BY <1>5, <2>1 DEF PlaceInv, InFile
    <2>3. CASE InCluster # 0
        <3>1. (Current - 1) \div prog.cs = Current \div prog.cs
            BY <1>1, <1>3, <2>1, <2>3, Before
        <3>2. Index(Current) = Index(Current - 1)
            BY <3>1 DEF Index
        <3> QED
            BY <1>2, <2>2, <2>3, <3>2 DEF InFile
    <2>4. CASE InCluster = 0
        <3>1. /\ (Current - 1) \div prog.cs = (Current \div prog.cs) - 1
              /\ Current \div prog.cs \in Nat \ {0}
              /\ Current = prog.cs * (Current \div prog.cs)
            BY <1>1, <1>3, <2>1, <2>4, Before
        <3>2. Index(Current) - 1 = Current \div prog.cs
            BY <3>1 DEF Index
        <3>3. Index(Current) - 1 = Index(Current - 1)
            BY <3>1, <3>2 DEF Index
        <3> QED
            BY <1>2, <1>5, <2>2, <2>4, <3>1, <3>2, <3>3
    <2> QED
        BY <2>3, <2>4
<1> QED
    BY <1>2, <1>4, <1>5

(* On a sector boundary; a cluster boundary follows the chain, and where the *)
(* chain ends, the file is longer than it.                                  *)
LEMMA CardOnBoundary ==
    ASSUME OnCard, CardParts, OnBoundary
    PROVE  CardParts'
<1> DEFINE looks == InCluster = 0 /\ ptr # 0
<1>1. /\ prog' = prog /\ RealSize' = RealSize /\ Shift' = Shift /\ prog.size \in Nat \ {0}
    BY CardSizes DEF Next
<1>2. PICK l \in IF InCluster = 0 /\ ptr # 0 THEN read_next_cluster(cluster) ELSE Here :
         /\ window' = l.win /\ mixed' = (mixed \/ l.mix) /\ Spend(l.ok)
         /\ IF l.next = Unread
            THEN pc' = "FR_DISK_ERR" /\ UNCHANGED place
            ELSE IF ~ValidCluster(l.next)
            THEN pc' = "FR_INT_ERR" /\ UNCHANGED place
            ELSE /\ cluster' = l.next
                 /\ sector' = SectorOf(l.next) + InCluster
                 /\ cc' = btr \div Sector /\ run' = prog.cs
                 /\ pc' = IF btr >= Sector THEN "ahead" ELSE "part"
    BY DEF OnBoundary
<1>3. /\ pc = "read" /\ Loading /\ btr > 0 /\ ptr % Sector = 0
      /\ UNCHANGED <<start, at, btr, ptr, psram>>
    BY DEF OnBoundary, Loading, reading
<1>4. /\ ptr \in 0..prog.size /\ at = Shift + ptr /\ cluster \in 0..Count /\ start = {Bios}
      /\ btr \in Nat /\ ptr + btr <= prog.size /\ faults \in Nat
    BY <1>3 DEF CardParts, Progress, Reads
<1>5. Sector \in Nat \ {0} /\ prog.cs \in Nat \ {0} /\ Count \in Nat
    BY CardFacts
<1>6. ptr \in Nat /\ Current \in Nat /\ ptr' \div Sector = Current
    <2>1. ptr \in Nat
        BY <1>1, <1>4
    <2> QED
        BY <1>3, <1>5, <2>1, DivMod DEF Current
<1>7. InCluster \in 0..(prog.cs - 1) /\ InCluster' = InCluster
    BY <1>1, <1>3, <1>5, <1>6, DivMod DEF InCluster, Current
<1>8. ~looks => l.ok /\ ~l.mix /\ l.next = cluster /\ l.win = window
    BY <1>2 DEF Here
<1>9. l.next = Unread => ~l.ok
    BY <1>2, <1>4, <1>5, <1>8, NextEntry DEF Unread, Last
<1>10. faults' = faults + (IF l.ok THEN 0 ELSE 1)
    BY <1>2 DEF Spend
<1>11. Progress'
    <2>1. CASE l.next = Unread
        BY <1>2, <1>4, <1>9, <1>10, <2>1 DEF Progress, Loading, Reads
    <2>2. CASE l.next # Unread /\ ~ValidCluster(l.next)
        BY <1>2, <1>4, <1>10, <2>2 DEF Progress, Loading, Reads
    <2>3. CASE l.next # Unread /\ ValidCluster(l.next)
        <3>1. /\ pc' = IF btr >= Sector THEN "ahead" ELSE "part"
              /\ cluster' = l.next /\ cc' = btr \div Sector /\ run' = prog.cs
            BY <1>2, <2>3
        <3>2. cluster' \in 0..Count
            BY <1>2, <1>4, <1>5, <1>8, <2>3, <3>1, NextEntry DEF Last, ValidCluster
        <3>3. btr >= Sector => cc' \in Nat \ {0} /\ cc' * Sector <= btr
            BY <1>4, <1>5, <3>1, Multiples
        <3>4. pc' = "ahead" => /\ cc' \in Nat \ {0} /\ cc' * Sector <= btr
                               /\ run' \in Nat /\ run' >= prog.cs /\ run' - prog.cs < InCluster + cc'
            BY <1>5, <1>7, <3>1, <3>3
        <3>5. pc' \in {"ahead", "part"} /\ faults' \in Nat
            BY <1>4, <1>10, <3>1
        <3> QED
            BY <1>1, <1>3, <1>4, <1>7, <3>2, <3>4, <3>5 DEF Progress, Loading, Reads
    <2> QED
        BY <2>1, <2>2, <2>3
<1>12. ~mixed => PlaceInv /\ LabelInv /\ Loaded
    BY DEF CardParts
<1>13. ~mixed => ValidCluster(cluster) /\ cluster \in Nat
    <2> SUFFICES ASSUME ~mixed PROVE \E i \in Clusters : cluster = prog.chain[i]
        BY CardFacts
    <2>1. CASE looks
        BY <1>3, <1>6, <1>12, <2>1, AtBoundary
    <2>2. CASE ~looks
        BY <1>3, <1>6, <1>12, <2>2, AtBoundary DEF InFile
    <2> QED
        BY <2>1, <2>2
<1>14. WindowInv'
    <2>1. WindowInv
        BY DEF CardParts
    <2>2. CASE ~looks
        <3>1. Loading' => cluster' = cluster
            BY <1>2, <1>8, <2>2 DEF Loading, place
        <3> QED
            BY <1>1, <1>2, <1>3, <1>8, <2>1, <2>2, <3>1, WindowStays
    <2>3. CASE looks /\ prog.bits # 12
        <3>1. l \in read_next_cluster(cluster) /\ ~mixed
            BY <1>2, <2>1, <2>3 DEF WindowInv
        <3>2. Loading' => l.ok \/ cluster' = cluster
            <4>1. ~l.ok => l.next = Unread
                BY <3>1, NextEntry
            <4> QED
                BY <1>2, <4>1 DEF Loading
        <3> QED
            BY <1>1, <1>2, <1>3, <1>13, <2>1, <3>1, <3>2, WindowLookedUp
    <2>4. CASE prog.bits = 12
        BY <1>1, <2>4 DEF WindowInv
    <2> QED
        BY <2>2, <2>3, <2>4
<1>15. ASSUME ~mixed' PROVE PlaceInv' /\ LabelInv' /\ Loaded' /\ EndInv'
    <2>1. ~mixed /\ ~l.mix /\ PlaceInv /\ LabelInv /\ Loaded
        BY <1>2, <1>12, <1>15
    <2>2. Loaded'
        BY <1>1, <1>3, <2>1 DEF Loaded
    <2>3. LabelInv'
        <3>1. CASE looks
            BY <1>1, <1>2, <1>3, <1>13, <2>1, <3>1, LabelLookedUp
        <3>2. CASE ~looks
            BY <1>1, <1>2, <1>3, <1>8, <2>1, <3>2, LabelLater DEF LabelInv
        <3> QED
            BY <3>1, <3>2
    <2>4. looks => /\ Index(Current) - 1 \in Clusters /\ cluster = prog.chain[Index(Current) - 1]
                   /\ Current = prog.cs * (Index(Current) - 1)
        BY <1>3, <1>6, <2>1, AtBoundary
    <2>5. ~looks => InFile(Current) /\ cluster = prog.chain[Index(Current)]
        BY <1>3, <1>6, <2>1, AtBoundary
    <2>6. looks /\ l.ok => l.next = IF Index(Current) - 1 = Len(prog.chain) THEN Last
                                    ELSE prog.chain[Index(Current)]
        <3> SUFFICES ASSUME looks, l.ok
                     PROVE  l.next = IF Index(Current) - 1 = Len(prog.chain) THEN Last
                                     ELSE prog.chain[Index(Current)]
            OBVIOUS
        <3>1. l.next = FatEntry(cluster)
            BY <1>2, <1>13, <2>1, LookedUp
        <3> DEFINE i == Index(Current) - 1
        <3>2. i \in Clusters /\ Index(Current) = i + 1
            <4>1. Current \div prog.cs \in Nat
                BY <1>5, <1>6, DivMod
            <4> QED
                BY <2>4, <4>1 DEF Index
        <3>3. FatEntry(prog.chain[i]) = IF i = Len(prog.chain) THEN Last ELSE prog.chain[i + 1]
            BY <3>2, FatFollows
        <3> QED
            BY <2>4, <3>1, <3>2, <3>3
    <2>7. looks /\ ~l.ok => l.next = Unread
        BY <1>2, NextEntry
    <2>8. CASE l.next = Unread
        BY <1>2, <2>2, <2>3, <2>8 DEF PlaceInv, EndInv
    <2>9. CASE l.next # Unread /\ ~ValidCluster(l.next)
        <3>1. looks /\ l.ok /\ Index(Current) - 1 = Len(prog.chain)
            <4>1. looks
                BY <1>8, <1>13, <2>1, <2>9
            <4>2. l.ok
                BY <2>7, <2>9, <4>1
            <4>3. Index(Current) - 1 # Len(prog.chain) => Index(Current) \in Clusters
                <5>1. Current \div prog.cs \in Nat /\ Len(prog.chain) \in Nat
                    BY <1>5, <1>6, DivMod, CardFacts
                <5> QED
                    BY <2>4, <4>1, <5>1 DEF Index, Clusters
            <4> QED
                BY <2>6, <2>9, <4>1, <4>2, <4>3, CardFacts
        <3>2. ptr = Sector * (prog.cs * Len(prog.chain))
            BY <1>3, <1>6, <2>1, <2>4, <3>1, AtBoundary
        <3>3. Len(prog.chain) \in Nat
            BY CardFacts
        <3>4. Len(prog.chain) * prog.cs * Sector = Sector * (prog.cs * Len(prog.chain))
            BY <1>5, <3>3
        <3>5. Len(prog.chain) * prog.cs * Sector < prog.size
            BY <1>1, <1>3, <1>4, <1>6, <3>2, <3>4
        <3>6. pc' = "FR_INT_ERR"
            BY <1>2, <2>9
        <3> QED
            BY <1>1, <2>2, <2>3, <3>5, <3>6 DEF PlaceInv, EndInv
    <2>10. CASE l.next # Unread /\ ValidCluster(l.next)
        <3>1. l.next = prog.chain[Index(Current)] /\ InFile(Current)
            <4>1. CASE ~looks
                BY <1>8, <2>5, <4>1
            <4>2. CASE looks
                <5>1. l.ok
                    BY <2>7, <2>10, <4>2
                <5>2. Index(Current) - 1 # Len(prog.chain)
                    BY <1>5, <2>6, <2>10, <4>2, <5>1 DEF ValidCluster, Last
                <5>3. Current \div prog.cs \in Nat /\ Len(prog.chain) \in Nat
                    BY <1>5, <1>6, DivMod, CardFacts
                <5>4. Index(Current) \in Clusters
                    BY <2>4, <4>2, <5>2, <5>3 DEF Index, Clusters
                <5> QED
                    BY <1>6, <2>6, <4>2, <5>1, <5>2, <5>4 DEF InFile
            <4> QED
                BY <4>1, <4>2
        <3>2. /\ pc' = IF btr >= Sector THEN "ahead" ELSE "part"
              /\ cluster' = l.next /\ sector' = SectorOf(l.next) + InCluster /\ run' = prog.cs
            BY <1>2, <2>10
        <3>3. sector' = FileSector(Current)
            BY <3>1, <3>2 DEF FileSector, InCluster, Current
        <3>4. PlaceInv'
            <4>1. CASE pc' = "part"
                BY <1>1, <1>6, <3>1, <3>2, <3>3, <4>1, PlacePart
            <4>2. CASE pc' = "ahead"
                <5>1. Index(Current) \in Clusters /\ Index(Current) \in Nat /\ prog.chain[Index(Current)] \in Nat
                    BY <3>1, FileSectorType, CardFacts
                <5>2. 1 \in Clusters /\ run' = 1 * prog.cs
                    BY <1>5, <3>2, CardFacts DEF Clusters
                <5>3. /\ Index(Current) + 1 - 1 = Index(Current)
                      /\ \A i \in 0..(1 - 1) : prog.chain[Index(Current) + i] = prog.chain[Index(Current)] + i
                    BY <5>1
                <5> QED
                    BY <1>1, <1>6, <3>1, <3>2, <3>3, <4>2, <5>1, <5>2, <5>3, PlaceRow
            <4> QED
                BY <3>2, <4>1, <4>2
        <3>5. EndInv'
            BY <3>2 DEF EndInv
        <3> QED
            BY <2>2, <2>3, <3>4, <3>5
    <2> QED
        BY <2>8, <2>9, <2>10
<1> QED
    BY <1>11, <1>14, <1>15 DEF CardParts

(* Looking ahead makes the row longer by a cluster, or the read shorter.    *)
LEMMA CardLookAhead ==
    ASSUME OnCard, CardParts, LookAhead
    PROVE  CardParts'
<1>1. prog' = prog /\ RealSize' = RealSize /\ Shift' = Shift /\ prog.size \in Nat \ {0}
    BY CardSizes DEF Next
<1>2. /\ pc = "ahead" /\ Loading /\ Reads
      /\ UNCHANGED <<start, at, btr, ptr, sector, psram>>
    BY DEF LookAhead, Loading, Reads, reading
<1>3. /\ ptr \in 0..prog.size /\ at = Shift + ptr /\ cluster \in 0..Count /\ start = {Bios}
      /\ btr \in Nat /\ btr > 0 /\ ptr + btr <= prog.size /\ faults \in Nat /\ ptr % Sector = 0
      /\ cc \in Nat \ {0} /\ cc * Sector <= btr
      /\ run \in Nat /\ run >= prog.cs /\ run - prog.cs < InCluster + cc
    BY <1>2 DEF CardParts, Progress, Loading
<1>4. Sector \in Nat \ {0} /\ prog.cs \in Nat \ {0} /\ Count \in Nat
    BY CardFacts
<1>5. ptr \in Nat /\ Current \in Nat
    <2>1. ptr \in Nat
        BY <1>1, <1>3
    <2> QED
        BY <1>4, <2>1, DivMod DEF Current
<1>6. InCluster \in 0..(prog.cs - 1) /\ InCluster' = InCluster
    BY <1>1, <1>2, <1>4, <1>5, DivMod DEF InCluster, Current
<1>7. ~mixed => PlaceInv /\ LabelInv /\ Loaded
    BY DEF CardParts
<1>8. ~mixed => /\ InFile(Current) /\ sector = FileSector(Current)
                /\ \E n \in Clusters : run = n * prog.cs /\ Row(Current, n)
    BY <1>2, <1>7 DEF PlaceInv
<1>9. CASE InCluster + cc <= run
    <2>1. pc' = "direct" /\ UNCHANGED <<cluster, cc, run, window, mixed, faults>>
        BY <1>9 DEF LookAhead
    <2>2. Progress'
        BY <1>1, <1>2, <1>3, <1>6, <1>9, <2>1 DEF Progress, Loading, Reads
    <2>3. WindowInv'
        BY <1>1, <1>2, <2>1, WindowStays DEF CardParts
    <2>4. ASSUME ~mixed PROVE PlaceInv' /\ LabelInv' /\ Loaded' /\ EndInv'
        <3>1. PlaceInv'
            BY <1>1, <1>2, <1>8, <2>1, <2>4, PlaceRow DEF Row, Current
        <3>2. LabelInv'
            BY <1>1, <1>2, <1>7, <2>1, <2>4, LabelLater DEF LabelInv, Current
        <3>3. Loaded' /\ EndInv'
            BY <1>1, <1>2, <1>7, <2>1, <2>4 DEF Loaded, EndInv
        <3> QED
            BY <3>1, <3>2, <3>3
    <2> QED
        BY <2>1, <2>2, <2>3, <2>4 DEF CardParts
<1>10. CASE ~(InCluster + cc <= run)
    <2>1. PICK l \in read_next_cluster(cluster) :
              /\ window' = l.win /\ mixed' = (mixed \/ l.mix) /\ Spend(l.ok)
              /\ IF l.next = cluster + 1
                 THEN /\ cluster' = l.next /\ run' = run + prog.cs
                      /\ UNCHANGED <<pc, cc>>
                 ELSE /\ cc' = run - InCluster /\ pc' = "direct"
                      /\ UNCHANGED <<cluster, run>>
        BY <1>10 DEF LookAhead
    <2>2. faults' \in Nat
        BY <1>3, <2>1 DEF Spend
    <2>3. ~mixed => ValidCluster(cluster) /\ cluster \in Nat
        BY <1>8, CardFacts DEF Row
    <2>4. l.next = cluster + 1 => l.ok /\ l.next \in 0..Count
        BY <1>3, <1>4, NextEntry DEF Last, Unread
    <2>5. l.next # cluster + 1 => cc' \in Nat \ {0} /\ cc' * Sector <= btr /\ InCluster + cc' = run
        <3> SUFFICES ASSUME l.next # cluster + 1
                     PROVE  cc' \in Nat \ {0} /\ cc' * Sector <= btr /\ InCluster + cc' = run
            OBVIOUS
        <3>1. cc' = run - InCluster
            BY <2>1
        <3>2. cc' \in Nat \ {0} /\ InCluster + cc' = run /\ cc' < cc
            BY <1>3, <1>4, <1>6, <1>10, <3>1
        <3>3. cc' * Sector <= cc * Sector
            BY <1>3, <1>4, <3>2, Fewer
        <3>4. cc' * Sector \in Int /\ cc * Sector \in Int
            BY <1>3, <1>4, <3>2
        <3>5. cc' * Sector <= btr
            BY <1>3, <3>3, <3>4
        <3> QED
            BY <3>2, <3>5
    <2>6. Progress'
        <3>1. CASE l.next = cluster + 1
            <4>1. /\ cluster' \in 0..Count /\ run' = run + prog.cs /\ pc' = "ahead" /\ cc' = cc
                BY <1>2, <2>1, <2>4, <3>1
            <4>2. run' \in Nat /\ run' >= prog.cs /\ run' - prog.cs < InCluster + cc'
                BY <1>3, <1>4, <1>6, <1>10, <4>1
            <4> QED
                BY <1>1, <1>2, <1>3, <1>6, <2>2, <4>1, <4>2 DEF Progress, Loading, Reads
        <3>2. CASE l.next # cluster + 1
            <4>1. pc' = "direct" /\ cluster' = cluster /\ run' = run
                BY <2>1, <3>2
            <4>2. run' - prog.cs' < InCluster' + cc' /\ InCluster' + cc' <= run'
                BY <1>1, <1>3, <1>4, <1>6, <2>5, <3>2, <4>1
            <4> QED
                BY <1>1, <1>2, <1>3, <2>2, <2>5, <3>2, <4>1, <4>2 DEF Progress, Loading, Reads
        <3> QED
            BY <3>1, <3>2
    <2>7. WindowInv'
        <3>1. CASE prog.bits # 12
            <4>1. ~mixed /\ WindowInv
                BY <3>1 DEF CardParts, WindowInv
            <4> QED
                BY <1>1, <1>2, <2>1, <2>3, <2>4, <4>1, WindowLookedUp
        <3>2. CASE prog.bits = 12
            BY <1>1, <3>2 DEF WindowInv
        <3> QED
            BY <3>1, <3>2
    <2>8. ASSUME ~mixed' PROVE PlaceInv' /\ LabelInv' /\ Loaded' /\ EndInv'
        <3>1. ~mixed /\ ~l.mix
            BY <2>1, <2>8
        <3>2. pc' \in {"ahead", "direct"}
            BY <1>2, <2>1
        <3>3. LabelInv'
            BY <1>1, <1>2, <1>3, <1>7, <2>1, <2>3, <3>1, LabelLookedUp
        <3>4. Loaded' /\ EndInv'
            BY <1>1, <1>2, <1>7, <3>1, <3>2 DEF Loaded, EndInv
        <3>5. PICK n \in Clusters : run = n * prog.cs /\ Row(Current, n)
            BY <1>8, <3>1
        <3>6. Current = ptr' \div Sector /\ InFile(Current) /\ sector' = FileSector(Current)
            BY <1>2, <1>8, <3>1 DEF Current
        <3>7. CASE l.next = cluster + 1
            <4> DEFINE k == Index(Current)
            <4>1. cluster' = l.next /\ run' = run + prog.cs
                BY <2>1, <3>7
            <4>2. /\ k \in Nat /\ n \in Nat \ {0} /\ k + n - 1 \in Clusters
                  /\ Len(prog.chain) \in Nat /\ k \in Clusters
                BY <3>5, <3>6, FileSectorType, CardFacts DEF Row, Clusters
            <4>3. l.next = FatEntry(prog.chain[k + n - 1])
                <5>1. l.next = FatEntry(cluster)
                    BY <2>3, <2>4, <3>1, <3>7, LookedUp
                <5> QED
                    BY <3>5, <5>1 DEF Row
            <4>4. l.next = IF k + n - 1 = Len(prog.chain) THEN Last ELSE prog.chain[(k + n - 1) + 1]
                BY <4>2, <4>3, FatFollows
            <4>5. k + n - 1 # Len(prog.chain)
                BY <1>4, <2>4, <3>7, <4>4 DEF Last
            <4>6. /\ (k + n - 1) + 1 = k + n /\ k + n \in Clusters /\ n + 1 \in Clusters
                  /\ k + (n + 1) - 1 = k + n
                BY <4>2, <4>5 DEF Clusters
            <4>7. prog.chain[k + n] = prog.chain[k] + n /\ cluster' = prog.chain[k + n]
                <5>1. prog.chain[k + n] = cluster + 1
                    BY <3>7, <4>4, <4>5, <4>6
                <5>2. n - 1 \in 0..(n - 1) /\ k + (n - 1) = k + n - 1
                    BY <4>2
                <5>3. cluster = prog.chain[k] + (n - 1)
                    BY <3>5, <5>2 DEF Row
                <5>4. prog.chain[k] \in Nat
                    BY <4>2, CardFacts
                <5> QED
                    BY <3>7, <4>1, <4>2, <5>1, <5>3, <5>4
            <4>8. \A i \in 0..((n + 1) - 1) : prog.chain[k + i] = prog.chain[k] + i
                <5>1. \A i \in 0..(n - 1) : prog.chain[k + i] = prog.chain[k] + i
                    BY <3>5 DEF Row
                <5>2. \A i \in 0..((n + 1) - 1) : i = n \/ i \in 0..(n - 1)
                    BY <4>2
                <5> QED
                    BY <4>7, <5>1, <5>2
            <4>9. run' = (n + 1) * prog.cs
                BY <1>4, <3>5, <4>1, <4>2, OneMore
            <4> DEFINE n1 == n + 1
            <4>10. /\ n1 \in Clusters /\ run' = n1 * prog.cs /\ Index(Current) + n1 - 1 \in Clusters
                   /\ \A i \in 0..(n1 - 1) : prog.chain[Index(Current) + i] = prog.chain[Index(Current)] + i
                   /\ cluster' = prog.chain[Index(Current) + n1 - 1]
                BY <4>6, <4>7, <4>8, <4>9
            <4> HIDE DEF n1
            <4>11. PlaceInv'
                BY <1>1, <3>2, <3>6, <4>10, PlaceRow
            <4> QED
                BY <3>3, <3>4, <4>11
        <3>8. CASE l.next # cluster + 1
            <4>1. cluster' = cluster /\ run' = run
                BY <2>1, <3>8
            <4>2. PlaceInv'
                BY <1>1, <3>2, <3>5, <3>6, <4>1, PlaceRow DEF Row
            <4> QED
                BY <3>3, <3>4, <4>2
        <3> QED
            BY <3>7, <3>8
    <2> QED
        BY <2>6, <2>7, <2>8 DEF CardParts
<1> QED
    BY <1>9, <1>10

(* Sectors that follow each other are read at once: byte k of them is byte  *)
(* k behind ptr.                                                            *)
LEMMA DirectBytes ==
    ASSUME OnCard, ptr \in Nat, ptr % Sector = 0, InFile(Current), sector = FileSector(Current),
           NEW n \in Nat \ {0}, run = n * prog.cs, Row(Current, n), cc \in Nat,
           InCluster + cc <= run, NEW k \in 0..(cc * Sector - 1)
    PROVE  SectorBytes(sector + k \div Sector)[k % Sector] = ptr + k
<1> DEFINE j == Current
           t == k \div Sector
           o == k % Sector
<1>1. Sector \in Nat \ {0} /\ prog.cs \in Nat \ {0} /\ k \in Nat /\ cc * Sector \in Nat
    BY CardFacts
<1>2. t \in Nat /\ o \in 0..(Sector - 1) /\ k = Sector * t + o
    BY <1>1, DivMod
<1>3. j \in Nat /\ ptr = Sector * j
    BY <1>1, Before, DivMod DEF Current
<1>4. j % prog.cs = InCluster /\ InCluster \in 0..(prog.cs - 1)
    BY <1>1, <1>3, DivMod DEF InCluster, Current
<1> HIDE DEF j, t, o
<1>5. t < cc
    <2> SUFFICES ASSUME cc <= t PROVE FALSE
        BY <1>2
    <2>1. Sector * cc <= Sector * t
        <3>1. CASE cc = t
            BY <1>1, <1>2, <3>1
        <3>2. CASE cc < t
            BY <1>1, <1>2, <3>2, TimesMono
        <3> QED
            BY <1>2, <3>1, <3>2
    <2>2. Sector * t \in Int /\ Sector * cc = cc * Sector
        BY <1>1, <1>2
    <2> QED
        BY <1>1, <1>2, <2>1, <2>2
<1>6. (j % prog.cs) + t < n * prog.cs
    BY <1>1, <1>2, <1>4, <1>5
<1>7. InFile(j + t) /\ FileSector(j + t) = sector + t
    BY <1>2, <1>6, RowSectors DEF j
<1>8. SectorBytes(sector + t)[o] = (j + t) * Sector + o
    BY <1>2, <1>7, FileBytes
<1>9. (j + t) * Sector + o = ptr + k
    <2>1. (j + t) * Sector = Sector * j + Sector * t /\ Sector * j \in Int /\ Sector * t \in Int
        BY <1>1, <1>2, <1>3
    <2> QED
        BY <1>1, <1>2, <1>3, <2>1
<1> QED
    BY <1>8, <1>9 DEF t, o

(* A direct read ends in the last cluster of the row.                       *)
LEMMA CardReadDirect ==
    ASSUME OnCard, CardParts, DOMAIN psram = 0..(RealSize - 1), ReadDirect
    PROVE  CardParts'
<1>1. /\ prog' = prog /\ RealSize' = RealSize /\ Shift' = Shift /\ prog.size \in Nat \ {0}
      /\ RealSize \in Nat /\ RealSize >= prog.size /\ Shift \in Nat /\ RealSize = Shift + prog.size
    BY CardSizes DEF Next
<1>2. pc = "direct" /\ Loading /\ Reads /\ UNCHANGED <<start, cluster, window, mixed>>
    BY DEF ReadDirect, Loading, Reads, reading, place
<1>3. /\ ptr \in 0..prog.size /\ at = Shift + ptr /\ cluster \in 0..Count /\ start = {Bios}
      /\ btr \in Nat /\ btr > 0 /\ ptr + btr <= prog.size /\ faults \in Nat /\ ptr % Sector = 0
      /\ cc \in Nat \ {0} /\ cc * Sector <= btr
      /\ run \in Nat /\ run >= prog.cs /\ run - prog.cs < InCluster + cc /\ InCluster + cc <= run
    BY <1>2 DEF CardParts, Progress, Loading
<1>4. /\ Sector \in Nat \ {0} /\ prog.cs \in Nat \ {0} /\ Count \in Nat /\ DataBase \in Nat
    BY CardFacts
<1>5. ptr \in Nat
    BY <1>1, <1>3
<1>6. WindowInv'
    BY <1>1, <1>2, WindowStays DEF CardParts
<1>7. CASE Spend(FALSE) /\ pc' = "FR_DISK_ERR" /\ UNCHANGED <<at, btr, ptr, psram>>
    <2>1. Progress'
        BY <1>2, <1>3, <1>7 DEF Progress, Loading, Reads, Spend
    <2>2. PlaceInv' /\ LabelInv' /\ Loaded' /\ EndInv'
        BY <1>7 DEF PlaceInv, LabelInv, Loaded, EndInv, Loading
    <2> QED
        BY <1>6, <2>1, <2>2 DEF CardParts
<1>8. CASE /\ Took(cc * Sector,
                   [k \in 0..(cc * Sector - 1) |->
                       SectorBytes(sector + k \div Sector)[k % Sector]])
           /\ UNCHANGED faults
    <2> DEFINE m == cc * Sector
               bytes == [k \in 0..(m - 1) |-> SectorBytes(sector + k \div Sector)[k % Sector]]
    <2>1. m \in Nat /\ m <= btr
        BY <1>3, <1>4
    <2>2. Took(m, bytes)
        BY <1>8
    <2> HIDE DEF m, bytes
    <2>3. /\ ptr' = ptr + m /\ ptr' \in 0..prog.size /\ at' = Shift' + ptr' /\ pc' = "read"
          /\ btr' \in Nat /\ ptr' + btr' <= prog.size
          /\ Loaded /\ (\A k \in 0..(m - 1) : bytes[k] = ptr + k) => Loaded'
        <3>1. at = Shift + ptr /\ btr \in Nat /\ ptr + btr <= prog.size
            BY <1>3
        <3> QED
            BY <1>1, <1>2, <1>5, <2>1, <2>2, <3>1, TookStep
    <2>4. Progress'
        BY <1>1, <1>2, <1>3, <1>8, <2>3 DEF Progress, Loading, Reads
    <2>5. ASSUME ~mixed PROVE PlaceInv' /\ LabelInv' /\ Loaded' /\ EndInv'
        <3>1. PlaceInv /\ LabelInv /\ Loaded
            BY <2>5 DEF CardParts
        <3>2. InFile(Current) /\ sector = FileSector(Current)
            BY <1>2, <3>1 DEF PlaceInv
        <3>3. PICK n \in Clusters : run = n * prog.cs /\ Row(Current, n)
            BY <1>2, <3>1 DEF PlaceInv
        <3>4. n \in Nat \ {0}
            BY CardFacts DEF Clusters
        <3>5. \A k \in 0..(m - 1) : bytes[k] = ptr + k
            <4>1. ASSUME NEW k \in 0..(cc * Sector - 1)
                  PROVE  SectorBytes(sector + k \div Sector)[k % Sector] = ptr + k
                BY <1>3, <1>5, <3>2, <3>3, <3>4, DirectBytes
            <4> QED
                BY <4>1 DEF m, bytes
        <3>6. Loaded'
            BY <2>3, <3>1, <3>5
        <3> DEFINE j == Current
                   h == j + (cc - 1)
        <3>7. j \in Nat /\ ptr = Sector * j /\ j % prog.cs = InCluster /\ InCluster \in 0..(prog.cs - 1)
            <4>1. j \in Nat /\ ptr = Sector * j
                BY <1>3, <1>4, <1>5, Before, DivMod DEF Current
            <4> QED
                BY <1>4, <4>1, DivMod DEF InCluster, Current
        <3>8. ptr' = Sector * (h + 1) /\ h + 1 \in Nat \ {0}
            <4>1. h + 1 = j + cc /\ j + cc \in Nat \ {0}
                BY <1>3, <3>7
            <4>2. m = Sector * cc /\ Sector * cc \in Int /\ Sector * j \in Int
                BY <1>3, <1>4, <3>7 DEF m
            <4>3. Sector * (j + cc) = Sector * j + Sector * cc
                BY <1>3, <1>4, <3>7
            <4> HIDE DEF j, h
            <4> QED
                BY <2>3, <3>7, <4>1, <4>2, <4>3
        <3>9. ptr' % Sector = 0 /\ ptr' # 0 /\ (ptr' - 1) \div Sector = h
            <4> HIDE DEF h
            <4>1. ptr' \in Nat
                BY <1>1, <2>3
            <4>2. ptr' = Sector * (h + 1) + 0 /\ h + 1 \in Int
                BY <3>8, <4>1
            <4>3. ptr' \div Sector = h + 1 /\ ptr' % Sector = 0
                BY <1>4, <4>1, <4>2, Divided
            <4>4. ptr' # 0
                BY <1>1, <1>3, <1>4, <2>3 DEF m
            <4>5. (ptr' - 1) \div Sector = (h + 1) - 1
                BY <1>4, <4>1, <4>3, <4>4, Before
            <4>6. (h + 1) - 1 = h
                BY <3>7, <1>3 DEF h
            <4> QED
                BY <4>3, <4>4, <4>5, <4>6
        <3>10. InFile(h) /\ Index(h) = Index(j) + n - 1
            <4> DEFINE u == InCluster + (cc - 1)
            <4> HIDE DEF j, h
            <4>0. /\ InCluster \in Nat /\ cc \in Nat \ {0} /\ run \in Nat /\ prog.cs \in Nat \ {0}
                  /\ run - prog.cs < InCluster + cc /\ InCluster + cc <= run
                BY <1>3, <1>4, <3>7
            <4>1. u \in Nat /\ u < n * prog.cs
                BY <3>3, <4>0
            <4>2. u \div prog.cs = n - 1
                <5> DEFINE q == n - 1
                           a == prog.cs * q
                           r == u - a
                <5>1. q \in Nat /\ a \in Int /\ a = run - prog.cs
                    BY <3>3, <3>4, <4>0
                <5> HIDE DEF a
                <5>2. r \in 0..(prog.cs - 1) /\ u = a + r
                    BY <4>0, <5>1
                <5> HIDE DEF q, r, u
                <5>3. u = prog.cs * q + r
                    BY <5>2 DEF a
                <5>4. u \in Nat /\ q \in Int /\ r \in 0..(prog.cs - 1) /\ prog.cs \in Nat \ {0}
                    BY <4>0, <4>1, <5>1, <5>2
                <5>5. u \div prog.cs = q
                    BY <5>3, <5>4, Divided
                <5> QED
                    BY <5>5 DEF q
            <4>3. cc - 1 \in Nat /\ (j % prog.cs) + (cc - 1) = u
                BY <3>7, <4>0
            <4> HIDE DEF u
            <4>4. /\ InFile(j + (cc - 1))
                  /\ Index(j + (cc - 1)) = Index(j) + (((j % prog.cs) + (cc - 1)) \div prog.cs)
                BY <3>2, <3>3, <3>4, <4>1, <4>3, RowSectors DEF j
            <4>5. Index(j + (cc - 1)) = Index(j) + (n - 1)
                BY <4>2, <4>3, <4>4
            <4> QED
                BY <3>4, <4>4, <4>5 DEF h
        <3>11. PlaceInv'
            <4>1. cluster' = prog.chain[Index(h)]
                BY <1>2, <3>3, <3>10 DEF Row
            <4> HIDE DEF h
            <4> QED
                BY <1>1, <2>3, <3>9, <3>10, <4>1, PlaceBetween
        <3>12. LabelInv'
            <4>1. CASE window.label < DataBase
                BY <1>1, <1>2, <3>9, <4>1, LabelLater
            <4>2. CASE \E i \in 0..ptr : InFile(i) /\ i * Sector < ptr /\ window.label = FileSector(i)
                <5>1. PICK i \in 0..ptr : InFile(i) /\ i * Sector < ptr /\ window.label = FileSector(i)
                    BY <4>2
                <5>2. i \in 0..ptr' /\ i * Sector < ptr'
                    <6>1. i * Sector \in Int
                        BY <1>4, <5>1
                    <6> QED
                        BY <1>5, <2>1, <2>3, <5>1, <6>1
                <5> QED
                    BY <1>1, <1>2, <3>9, <5>1, <5>2, LabelLater
            <4> QED
                BY <1>2, <3>1, <4>1, <4>2 DEF LabelInv
        <3> QED
            BY <2>3, <3>6, <3>11, <3>12 DEF EndInv
    <2> QED
        BY <1>2, <1>6, <2>4, <2>5 DEF CardParts
<1> QED
    BY <1>7, <1>8 DEF ReadDirect

(* A part of a sector: what is in the window is that sector.                *)
LEMMA CardReadPart ==
    ASSUME OnCard, CardParts, DOMAIN psram = 0..(RealSize - 1), ReadPart
    PROVE  CardParts'
<1> DEFINE within == ptr % Sector
           rest == Sector - within
           rcnt == IF rest > btr THEN btr ELSE rest
<1>1. /\ prog' = prog /\ RealSize' = RealSize /\ Shift' = Shift /\ prog.size \in Nat \ {0}
      /\ RealSize \in Nat /\ RealSize >= prog.size /\ Shift \in Nat /\ RealSize = Shift + prog.size
    BY CardSizes DEF Next
<1>2. pc = "part" /\ Loading /\ Reads /\ UNCHANGED <<start, cluster, sector, mixed>>
    BY DEF ReadPart, Loading, Reads, reading, place
<1>3. /\ ptr \in 0..prog.size /\ at = Shift + ptr /\ cluster \in 0..Count /\ start = {Bios}
      /\ btr \in Nat /\ btr > 0 /\ ptr + btr <= prog.size /\ faults \in Nat
    BY <1>2 DEF CardParts, Progress, Loading
<1>4. Sector \in Nat \ {0} /\ DataBase \in Nat
    BY CardFacts
<1>5. ptr \in Nat
    BY <1>1, <1>3
<1>6. PICK m \in Moved(window, sector) :
        /\ window' = m.win /\ Spend(m.ok)
        /\ IF m.ok
           THEN Took(rcnt, [k \in 0..(rcnt - 1) |-> SectorBytes(m.win.holds)[within + k]])
           ELSE pc' = "FR_DISK_ERR" /\ UNCHANGED <<at, btr, ptr, psram>>
    BY DEF ReadPart
<1>7. CASE ~m.ok
    <2>1. pc' = "FR_DISK_ERR" /\ faults' = faults + 1
        BY <1>6, <1>7 DEF Spend
    <2>2. Progress'
        BY <1>3, <2>1 DEF Progress, Loading, Reads
    <2>3. WindowInv'
        BY <1>1, <1>2, <2>1 DEF CardParts, WindowInv, Loading
    <2>4. PlaceInv' /\ LabelInv' /\ Loaded' /\ EndInv'
        BY <2>1 DEF PlaceInv, LabelInv, Loaded, EndInv, Loading
    <2> QED
        BY <2>2, <2>3, <2>4 DEF CardParts
<1>8. CASE m.ok
    <2> DEFINE bytes == [k \in 0..(rcnt - 1) |-> SectorBytes(m.win.holds)[within + k]]
    <2>1. within \in 0..(Sector - 1) /\ ptr = Sector * Current + within /\ Current \in Nat
        BY <1>4, <1>5, DivMod DEF Current
    <2>2. rcnt \in Nat \ {0} /\ rcnt <= btr /\ within + rcnt <= Sector
        <3> HIDE DEF within
        <3> QED
            BY <1>3, <1>4, <2>1
    <2>3. Took(rcnt, bytes)
        BY <1>6, <1>8
    <2>4. faults' = faults
        BY <1>3, <1>6, <1>8 DEF Spend
    <2>5. \/ m.win = window /\ window.label = sector
          \/ m.win.label = sector /\ m.win.holds = sector
        BY <1>8 DEF Moved
    <2> HIDE DEF within, rest, rcnt, bytes
    <2>6. /\ ptr' = ptr + rcnt /\ ptr' \in 0..prog.size /\ at' = Shift' + ptr' /\ pc' = "read"
          /\ btr' \in Nat /\ ptr' + btr' <= prog.size
          /\ Loaded /\ (\A k \in 0..(rcnt - 1) : bytes[k] = ptr + k) => Loaded'
        BY <1>1, <1>2, <1>3, <1>5, <2>2, <2>3, TookStep
    <2>7. Progress'
        BY <1>1, <1>2, <1>3, <2>4, <2>6 DEF Progress, Loading, Reads
    <2>8. WindowInv'
        <3>1. FatFirst(cluster)' = FatFirst(cluster)
            BY <1>1, <1>2 DEF FatFirst, FatByte
        <3> QED
            BY <1>1, <1>2, <1>6, <2>5, <3>1 DEF CardParts, WindowInv
    <2>9. ASSUME ~mixed PROVE PlaceInv' /\ LabelInv' /\ Loaded' /\ EndInv'
        <3> DEFINE j == Current
        <3>1. PlaceInv /\ LabelInv /\ Loaded
            BY <2>9 DEF CardParts
        <3>2. InFile(j) /\ sector = FileSector(j) /\ cluster = prog.chain[Index(j)]
            BY <1>2, <3>1 DEF PlaceInv
        <3>3. m.win.label = sector /\ m.win.holds = sector
            <4> SUFFICES ASSUME m.win = window, window.label = sector PROVE window.holds = sector
                BY <2>5
            <4>1. CASE ptr % Sector # 0
                BY <1>2, <3>1, <4>1 DEF LabelInv
            <4>2. CASE ptr % Sector = 0
                <5>1. FileSector(j) \in Nat /\ FileSector(j) >= DataBase
                    BY <3>2, FileSectorType
                <5>2. PICK i \in 0..ptr : InFile(i) /\ i * Sector < ptr /\ window.label = FileSector(i)
                    BY <1>2, <1>4, <3>1, <3>2, <5>1 DEF LabelInv
                <5>3. i = j
                    BY <3>2, <5>2, OneSector
                <5>4. i * Sector = ptr
                    <6>1. i * Sector = Sector * j /\ within = 0 /\ Sector * j \in Int
                        BY <1>4, <2>1, <4>2, <5>3 DEF within
                    <6> QED
                        BY <2>1, <6>1
                <5> QED
                    BY <1>5, <5>2, <5>4
            <4> QED
                BY <4>1, <4>2
        <3>4. \A k \in 0..(rcnt - 1) : bytes[k] = ptr + k
            <4> SUFFICES ASSUME NEW k \in 0..(rcnt - 1) PROVE bytes[k] = ptr + k
                OBVIOUS
            <4>1. bytes[k] = SectorBytes(FileSector(j))[within + k]
                BY <3>2, <3>3 DEF bytes
            <4>2. within + k \in 0..(Sector - 1)
                BY <1>4, <2>1, <2>2
            <4>3. SectorBytes(FileSector(j))[within + k] = j * Sector + (within + k)
                BY <3>2, <4>2, FileBytes
            <4>4. j * Sector = Sector * j /\ Sector * j \in Int
                BY <1>4, <2>1
            <4> QED
                BY <1>4, <2>1, <2>2, <4>1, <4>3, <4>4
        <3>5. Loaded'
            BY <2>6, <3>1, <3>4
        <3>6. ptr' \in Nat /\ ptr' # 0 /\ j \in Nat
            BY <1>1, <1>5, <2>1, <2>2, <2>6
        <3>7. (ptr' - 1) \div Sector = j
            <4>1. ptr' - 1 = Sector * j + (within + rcnt - 1) /\ within + rcnt - 1 \in 0..(Sector - 1)
                <5>1. Sector * j \in Int
                    BY <1>4, <3>6
                <5> QED
                    BY <1>4, <1>5, <2>1, <2>2, <2>6, <5>1
            <4> DEFINE a == ptr' - 1
                       r == within + rcnt - 1
            <4> HIDE DEF j
            <4>2. a \in Nat
                BY <1>5, <2>2, <2>6
            <4>3. r \in 0..(Sector - 1) /\ a = Sector * j + r
                BY <4>1, Zenon
            <4> HIDE DEF a, r
            <4>4. a \div Sector = j
                BY <1>4, <3>6, <4>2, <4>3, Divided
            <4> QED
                BY <4>4 DEF a
        <3>8. ptr' % Sector # 0 => ptr' \div Sector = j
            BY <1>4, <3>6, <3>7, Before
        <3> HIDE DEF j
        <3>9. PlaceInv'
            BY <1>1, <1>2, <2>6, <3>2, <3>6, <3>7, <3>8, PlaceBetween
        <3>10. LabelInv'
            <4>1. j \in 0..ptr' /\ j * Sector < ptr'
                <5>1. j * Sector = Sector * j /\ Sector * j \in Int /\ Sector * j >= j
                    BY <1>4, <3>6
                <5> QED
                    BY <1>4, <1>5, <2>1, <2>2, <2>6, <3>6, <5>1 DEF j
            <4>2. window'.label = FileSector(j) /\ window'.holds = window'.label
                BY <1>6, <3>2, <3>3
            <4> QED
                BY <1>1, <3>2, <3>8, <4>1, <4>2, LabelLater
        <3> QED
            BY <2>6, <3>5, <3>9, <3>10 DEF EndInv
    <2> QED
        BY <1>2, <2>7, <2>8, <2>9 DEF CardParts
<1> QED
    BY <1>7, <1>8

(* What the loop leaves is in place, so the patch is (PatchStep).           *)
LEMMA CardPatch ==
    ASSUME OnCard, PatchAssumption, CardParts, DOMAIN psram = 0..(RealSize - 1), Patch
    PROVE  CardParts'
<1>1. prog' = prog
    BY CardSizes DEF Next
<1>2. pc = "patch" /\ pc' = "run" /\ UNCHANGED <<mixed, faults>>
    BY DEF Patch
<1>3. Progress'
    BY <1>2 DEF CardParts, Progress, Loading, Reads
<1>4. WindowInv'
    BY <1>1, <1>2 DEF CardParts, WindowInv, Loading
<1>5. ASSUME ~mixed PROVE EndInv'
    <2>1. Placed /\ start = {Bios}
        BY <1>2, <1>5 DEF CardParts, EndInv, Progress
    <2>2. Ran'
        BY <2>1, PatchStep DEF OnCard
    <2> QED
        BY <1>2, <2>2 DEF EndInv
<1>6. PlaceInv' /\ LabelInv' /\ Loaded'
    BY <1>2 DEF PlaceInv, LabelInv, Loaded, Loading
<1> QED
    BY <1>2, <1>3, <1>4, <1>5, <1>6 DEF CardParts

(* When nothing happens, nothing changes.                                   *)
LEMMA CardRests ==
    ASSUME OnCard, CardParts, UNCHANGED vars
    PROVE  CardParts'
<1>1. /\ prog' = prog /\ RealSize' = RealSize /\ Shift' = Shift
    BY CardSizes
<1>2. UNCHANGED <<pc, prog, at, btr, ptr, cluster, sector, cc, run, window, psram, start, mixed, faults>>
    BY DEF vars, place
<1>3. Progress' /\ WindowInv'
    BY <1>1, <1>2 DEF CardParts, Progress, WindowInv, Loading, Reads, InCluster, FatFirst, FatByte
<1>4. PlaceInv => PlaceInv'
    BY <1>2 DEF PlaceInv, InFile, Index, FileSector, SectorOf, Clusters, Current, Row
<1>5. LabelInv => LabelInv'
    BY <1>2 DEF LabelInv, InFile, Index, FileSector, SectorOf, Clusters, Current, Loading
<1>6. Loaded /\ EndInv => Loaded' /\ EndInv'
    BY <1>1, <1>2 DEF Loaded, EndInv, Loading, Placed, Ran, Bytes, Patched, InLastBank, OfFile
<1> QED
    BY <1>2, <1>3, <1>4, <1>5, <1>6 DEF CardParts

(* Nothing has been read yet.                                               *)
LEMMA CardInit ==
    ASSUME FatAssumption, Init
    PROVE  CardInv
<1>1. Progress
    BY DEF Init, Progress, Loading, Reads
<1>2. WindowInv /\ PlaceInv /\ LabelInv /\ Loaded /\ EndInv
    BY DEF Init, WindowInv, PlaceInv, LabelInv, Loaded, EndInv, Loading
<1> QED
    BY <1>1, <1>2 DEF Init, CardInv, CardParts

(* Every step keeps the invariant.                                          *)
LEMMA CardStep ==
    ASSUME SizeAssumption, ProgramAssumption, PatchAssumption, FatAssumption, CardAssumption,
           CardInv, [Next]_vars
    PROVE  CardInv'
<1>1. prog' \in Programs /\ DOMAIN psram' = 0..(RealSize' - 1) /\ prog' = prog
    BY ProgramStays DEF CardInv
<1>2. ASSUME prog.source = "card" PROVE CardParts'
    <2>1. OnCard /\ CardParts /\ DOMAIN psram = 0..(RealSize - 1)
        BY <1>2 DEF CardInv, OnCard
    <2>2. ~Pad
        BY <2>1 DEF CardParts, Progress, Loading, Pad
    <2>3. CASE Start
        BY <2>1, <2>3, CardStart
    <2>4. CASE NextHalf
        BY <2>1, <2>4, CardNextHalf
    <2>5. CASE HalfRead
        BY <2>1, <2>5, CardHalfRead
    <2>6. CASE WithinSector
        BY <2>1, <2>6, CardWithinSector
    <2>7. CASE OnBoundary
        BY <2>1, <2>7, CardOnBoundary
    <2>8. CASE LookAhead
        BY <2>1, <2>8, CardLookAhead
    <2>9. CASE ReadDirect
        BY <2>1, <2>9, CardReadDirect
    <2>10. CASE ReadPart
        BY <2>1, <2>10, CardReadPart
    <2>11. CASE Patch
        BY <2>1, <2>11, CardPatch
    <2>12. CASE UNCHANGED vars
        BY <2>1, <2>12, CardRests
    <2> QED
        BY <2>2, <2>3, <2>4, <2>5, <2>6, <2>7, <2>8, <2>9, <2>10, <2>11, <2>12 DEF Next
<1> QED
    BY <1>1, <1>2 DEF CardInv

(* What the invariant says of a program that was on the card.               *)
LEMMA CardHolds ==
    ASSUME CardInv, prog.source = "card"
    PROVE  ImageInPlace /\ OnlyAcrossMixed /\ ErrorsToldRight
<1>1. ASSUME ~mixed, pc = "run" PROVE ImageAlwaysInPlace
    <2>1. Ran
        BY <1>1 DEF CardInv, CardParts, EndInv
    <2> QED
        BY <2>1 DEF Ran, ImageAlwaysInPlace, Bytes, Shift
<1>2. ImageInPlace
    BY <1>1 DEF ImageInPlace, ImageAlwaysInPlace
<1>3. OnlyAcrossMixed
    BY DEF CardInv, CardParts, WindowInv, OnlyAcrossMixed
<1>4. ErrorsToldRight
    BY DEF CardInv, CardParts, Progress, EndInv, ErrorsToldRight
<1> QED
    BY <1>2, <1>3, <1>4

(* Without a file on the card there is nothing to read, so no error.        *)
NothingRead == prog.source # "card" => ~mixed /\ pc \in {"start", "pad", "patch", "run"}

(* No step of reading is taken then.                                        *)
LEMMA NothingReadStep ==
    ASSUME NothingRead, [Next]_vars
    PROVE  NothingRead'
<1> SUFFICES ASSUME prog'.source # "card"
             PROVE  ~mixed' /\ pc' \in {"start", "pad", "patch", "run"}
    BY DEF NothingRead
<1>1. prog.source # "card"
    BY ProgramStays
<1>2. ~mixed /\ pc \in {"start", "pad", "patch", "run"}
    BY <1>1 DEF NothingRead
<1>3. CASE Start
    BY <1>1, <1>2, <1>3 DEF Start
<1>4. CASE Pad \/ Patch
    <2>1. /\ mixed' = mixed /\ pc' \in {"pad", "patch", "run"}
        BY <1>4, Zenon DEF Pad, Patch
    <2> QED
        BY <1>2, <2>1
<1>5. CASE UNCHANGED vars
    BY <1>2, <1>5 DEF vars
<1> QED
    BY <1>2, <1>3, <1>4, <1>5, OnlyMoves

(* main.c:219-256 and cluster_read.c: a program is started with every byte  *)
(* in place, however its clusters lie on the card and whatever reads fail,  *)
(* unless a 12-bit FAT entry was read from a buffer that a failed read has  *)
(* spoilt; and the error messages tell the truth.                           *)
THEOREM StartedInPlace ==
    ASSUME SizeAssumption, ProgramAssumption, PatchAssumption, FatAssumption, CardAssumption
    PROVE  Spec => [](ImageInPlace /\ OnlyAcrossMixed /\ ErrorsToldRight)
<1>1. Init => CardInv /\ NothingRead
    BY CardInit DEF Init, NothingRead
<1>2. CardInv /\ NothingRead /\ [Next]_vars => CardInv' /\ NothingRead'
    BY CardStep, NothingReadStep
<1>3. Spec => [](prog.source = "psram" => ImageAlwaysInPlace)
    BY UploadedInPlace
<1>4. CardInv /\ NothingRead /\ (prog.source = "psram" => ImageAlwaysInPlace)
        => ImageInPlace /\ OnlyAcrossMixed /\ ErrorsToldRight
    <2> SUFFICES ASSUME CardInv, NothingRead, prog.source = "psram" => ImageAlwaysInPlace,
                        prog.source # "card"
                 PROVE  ImageInPlace /\ OnlyAcrossMixed /\ ErrorsToldRight
        BY CardHolds
    <2>1. prog.source \in {"card", "psram", "none"}
        BY DEF CardInv, ProgramAssumption
    <2> QED
        BY <2>1 DEF NothingRead, ImageInPlace, ImageAlwaysInPlace, OnlyAcrossMixed, ErrorsToldRight
<1> QED
    BY <1>1, <1>2, <1>3, <1>4, PTL DEF Spec
=============================================================================
